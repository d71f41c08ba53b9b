---- MODULE PageRewriteProofs ----
(***************************************************************************)
(* Proofs about PageRewrite, for every document, any number of flush       *)
(* windows and any limits of the PageWorkBudget: a flush that waits is     *)
(* woken, a context renders only in its own window, and the state keeps    *)
(* its types.  Then the invariant that PageContextProofs is about, and     *)
(* that the steps that move one context on keep it.                        *)
(***************************************************************************)
EXTENDS PageRewrite, FiniteSetTheorems, SequenceTheorems, WellFoundedInduction, TLAPS

---------------------------------------------------------------------------
(* The parts of the records, and the parts of a context that are fixed.     *)

CtxFields ==
  {"parent", "slots", "key", "window", "inputs", "cached", "state", "preds", "chained",
   "successors", "fetches", "next", "revalidate", "revalidateOk", "waits", "nested", "slow",
   "busy", "place", "spent", "partitions", "lock", "repeated"}
DrvFields ==
  {"canRewrite", "fully", "rewrites", "initiated", "detached", "refs", "quick", "waiting",
   "reached", "woken", "released"}
RefKinds == {"user", "parsing", "pending", "detached", "deleting"}

Records ==
  /\ Contexts \subseteq Nat \ {NoContext} /\ IsFiniteSet(Contexts)
  /\ \A c \in Contexts : DOMAIN ctx[c] = CtxFields
  /\ DOMAIN drv = DrvFields /\ DOMAIN drv.refs = RefKinds
  /\ DOMAIN html = {"pc", "window"}

\* A context y that becomes x keeps its fixed parts and, unless the step lets
\* a rewrite repeat another one, those that repeat it.
Keeps(x, y) ==
  /\ DOMAIN x = CtxFields
  /\ x.parent = y.parent /\ x.window = y.window /\ x.slots = y.slots /\ x.key = y.key
  /\ x.inputs = y.inputs /\ x.cached = y.cached /\ x.chained = y.chained
  /\ x.repeated = y.repeated \/ StartRepeated

Frame ==
  /\ DOMAIN ctx' = DOMAIN ctx
  /\ \A c \in DOMAIN ctx : Keeps(ctx'[c], ctx[c])

LEMMA MinimalIsLeast ==
  ASSUME NEW S, S \subseteq Nat, NEW R, \A i, j \in Nat : j < i => <<j, i>> \in R,
         \E i \in S : \A j \in S : ~(<<j, i>> \in R)
  PROVE  \E i \in S : \A j \in S : i <= j
<1>1. PICK i \in S : \A j \in S : ~(<<j, i>> \in R)
  OBVIOUS
<1>2. ASSUME NEW j \in S PROVE i <= j
  <2>1. ~(j < i)
    BY <1>1
  <2>2. QED
    BY <2>1
<1>3. QED
  BY <1>2

\* A set of contexts has a first one, which InitiateRewrite takes.
LEMMA MinIn == ASSUME NEW S, S \subseteq Nat, S # {} PROVE Min(S) \in S /\ \A j \in S : Min(S) <= j
<1>1. \E i \in S : \A j \in S : ~(<<j, i>> \in OpToRel(<, Nat))
  BY NatLessThanWellFounded, WFMin
<1>2. \A i, j \in Nat : j < i => <<j, i>> \in OpToRel(<, Nat)
  BY DEF OpToRel
<1>3. \E k \in S : \A j \in S : k <= j
  BY <1>1, <1>2, MinimalIsLeast, Zenon
<1>4. QED
  BY <1>3 DEF Min

LEMMA FrameOf ==
  ASSUME \A c \in Contexts : DOMAIN ctx[c] = CtxFields,
         NEW c, NEW x, c \in Contexts => Keeps(x, ctx[c]), ctx' = [ctx EXCEPT ![c] = x]
  PROVE  Frame
  BY DEF Frame, Keeps, Contexts

LEMMA FrameSame ==
  ASSUME \A c \in Contexts : DOMAIN ctx[c] = CtxFields, ctx' = ctx PROVE Frame
  BY DEF Frame, Keeps, Contexts

LEMMA MarkSlowKeeps ==
  ASSUME \A c \in Contexts : DOMAIN ctx[c] = CtxFields, NEW c
  PROVE  /\ DOMAIN MarkSlow(c) = Contexts
         /\ \A d \in Contexts : Keeps(MarkSlow(c)[d], ctx[d])
  BY DEF MarkSlow, Keeps, CtxFields

LEMMA HtmlFrame ==
  ASSUME Records, Html PROVE Frame
<1>1. \A c \in Contexts : DOMAIN ctx[c] = CtxFields
  BY DEF Records
<1>2. CASE InitiateRewrite
  BY <1>1, <1>2 DEF InitiateRewrite, Frame, Keeps, Contexts, CtxFields
<1>3. CASE ctx' = ctx
  BY <1>1, <1>3, FrameSame
<1>4. QED
  BY <1>2, <1>3 DEF Html, FlushAsync, CheckForCompletionAsync, Woken, Deadline, FlushAsyncDone,
     FinishParseAfterFlush, Cleanup

LEMMA SequenceFrame ==
  ASSUME Records, RewriteSequence PROVE Frame
<1>1. \A c \in Contexts : DOMAIN ctx[c] = CtxFields
  BY DEF Records
<1> USE <1>1
\* The ways in which one context changes.
<1>2. ASSUME NEW c, NEW v, ctx' = [ctx EXCEPT ![c].state = v] PROVE Frame
  BY <1>2 DEF Frame, Keeps, Contexts, CtxFields
<1>3. ASSUME NEW c, NEW v, NEW u, ctx' = [ctx EXCEPT ![c].state = v, ![c].busy = u] PROVE Frame
  BY <1>3 DEF Frame, Keeps, Contexts, CtxFields
<1>4. ASSUME NEW c, NEW v, NEW u, ctx' = [ctx EXCEPT ![c].state = v, ![c].lock = u] PROVE Frame
  BY <1>4 DEF Frame, Keeps, Contexts, CtxFields
<1>5. ASSUME NEW c, NEW v, ctx' = [ctx EXCEPT ![c].partitions = v] PROVE Frame
  BY <1>5 DEF Frame, Keeps, Contexts, CtxFields
<1>6. ASSUME NEW c, NEW v, ctx' = [ctx EXCEPT ![c].busy = v] PROVE Frame
  BY <1>6 DEF Frame, Keeps, Contexts, CtxFields
<1>7. ASSUME NEW c, NEW s, NEW v, NEW u,
             ctx' = [ctx EXCEPT ![c].state = s, ![c].partitions = v, ![c].busy = u]
      PROVE  Frame
  BY <1>7 DEF Frame, Keeps, Contexts, CtxFields
<1>10. ASSUME NEW g, NEW c, NEW v, DOMAIN g = Contexts, \A d \in Contexts : Keeps(g[d], ctx[d]),
              ctx' = [g EXCEPT ![c].revalidate = v]
       PROVE  Frame
  BY <1>10 DEF Frame, Keeps, Contexts, CtxFields
<1>11. ASSUME NEW g, DOMAIN g = Contexts, \A d \in Contexts : Keeps(g[d], ctx[d]), ctx' = g
       PROVE  Frame
  BY <1>11 DEF Frame, Contexts
<1>12. DOMAIN ctx = Contexts /\ \A d \in Contexts : Keeps(ctx[d], ctx[d])
  BY DEF Keeps, Contexts
<1>13. CASE StartDisabled
  BY <1>2, <1>13 DEF StartDisabled
<1>14. CASE StartRefused
  BY <1>3, <1>14 DEF StartRefused
<1>15. CASE StartPrimary
  BY <1>2, <1>15, ZenonT(30) DEF StartPrimary
<1>16. CASE StartRepeated
  <2> DEFINE c == Running
             q == primary[ctx[c].key]
  <2>1. CASE ctx' = [ctx EXCEPT ![c].state = "done"]
    BY <1>2, <2>1
  <2>2. ASSUME NEW g, g = ctx \/ g = MarkSlow(c),
               ctx' = [g EXCEPT ![c].state = "started", ![q].repeated = Append(@, c)]
        PROVE  Frame
    <3>1. DOMAIN g = Contexts /\ \A d \in Contexts : Keeps(g[d], ctx[d])
      BY <1>12, <2>2, MarkSlowKeeps
    <3> HIDE DEF c, q
    <3>2. QED
      BY <1>16, <2>2, <3>1 DEF Frame, Keeps, Contexts, CtxFields
  <2>3. QED
    BY <1>16, <2>1, <2>2, ZenonT(30) DEF StartRepeated
<1>17. CASE OutputCacheHit
  BY <1>5, <1>17 DEF OutputCacheHit
<1>18. CASE OutputCacheNotOk
  BY <1>10, <1>11, <1>18, MarkSlowKeeps DEF OutputCacheNotOk
<1>19. CASE OutputCacheMiss
  BY <1>5, <1>19 DEF OutputCacheMiss
<1>20. CASE LockFailed \/ StopForPageInputBytes
  BY <1>6, <1>20 DEF LockFailed, StopForPageInputBytes
<1>21. CASE RewriteDoneImpl
  <2>1. ctx' = [ctx EXCEPT ![Running].busy = @ \/ Argument = "kTooBusy"]
    BY <1>21 DEF RewriteDoneImpl
  <2>2. QED
    BY <2>1 DEF Frame, Keeps, Contexts, CtxFields
<1>22. CASE PartitionDone
  BY <1>5, <1>6, <1>22 DEF PartitionDone
<1>23. CASE Finalize
  BY <1>4, <1>23 DEF Finalize
<1>24. CASE RepeatedSuccess
  BY <1>7, <1>24 DEF RepeatedSuccess
<1>25. CASE RepeatedFailure
  BY <1>2, <1>25 DEF RepeatedFailure
<1>26. ASSUME NEW c
       PROVE  /\ DOMAIN RunSuccessors(c) = Contexts
              /\ \A d \in Contexts : Keeps(RunSuccessors(c)[d], ctx[d])
  BY DEF RunSuccessors, Keeps, CtxFields
<1>27. CASE RetireNested
  <2> DEFINE c == Running
             g == RunSuccessors(c)
             q == ctx[c].parent
  <2>1. ctx' = [g EXCEPT ![q].nested = @ - 1, ![q].busy = @ \/ ctx[c].busy]
    BY <1>27 DEF RetireNested
  <2>2. DOMAIN g = Contexts /\ \A d \in Contexts : Keeps(g[d], ctx[d])
    BY <1>26
  <2> HIDE DEF c, g, q
  <2>3. QED
    BY <2>1, <2>2 DEF Frame, Keeps, Contexts, CtxFields
<1>28. CASE RewriteComplete
  BY <1>11, <1>26, <1>28 DEF RewriteComplete
<1>29. CASE DeleteRewriteContext
  <2>1. PICK S : ctx' = [d \in Contexts |-> IF d \in S THEN [ctx[d] EXCEPT !.state = "deleted"]
                                                       ELSE ctx[d]]
    BY <1>29 DEF DeleteRewriteContext
  <2>2. QED
    BY <2>1 DEF Frame, Keeps, Contexts, CtxFields
<1>30. CASE StartNestedTasksImpl
  BY <1>30, FrameSame DEF StartNestedTasksImpl
\* Loads: the context is replaced by one with other counts.
<1>31. ASSUME NEW x, NEW c, c \in Contexts => Keeps(x, ctx[c]), ctx' = [ctx EXCEPT ![c] = x]
       PROVE  Frame
  BY <1>31, FrameOf
<1>32. ASSUME NEW c \in Contexts, NEW r
       PROVE  Keeps(Resumed(c, r), ctx[c])
  BY DEF Resumed, Keeps, CtxFields
<1>33. ASSUME NEW y, NEW x, NEW u, NEW v, NEW w, Keeps(x, y)
       PROVE  /\ Keeps([x EXCEPT !.spent = u], y)
              /\ Keeps([x EXCEPT !.next = u, !.fetches = v], y)
              /\ Keeps([x EXCEPT !.next = u], y)
              /\ Keeps([x EXCEPT !.fetches = u, !.waits = v, !.preds = w], y)
              /\ Keeps([x EXCEPT !.partitions = u], y)
              /\ Keeps([x EXCEPT !.revalidate = u, !.revalidateOk = v], y)
              /\ Keeps([x EXCEPT !.revalidate = u, !.fetches = v], y)
              /\ Keeps([x EXCEPT !.revalidate = u], y)
              /\ Keeps([x EXCEPT !.fetches = u], y)
              /\ Keeps([x EXCEPT !.fetches = u, !.revalidateOk = v], y)
  BY <1>33 DEF Keeps, CtxFields
<1>34. CASE FetchInputs
  <2> DEFINE c == Running
             x == Resumed(c, "ResumeFetchInputs")
             need(found) == x.inputs - x.next - found
             n(found) == Min({need(found), Room})
             Stops(found) == [x EXCEPT !.spent = need(found) > 0]
             Starts(found) == [x EXCEPT !.next = @ + found + n(found), !.fetches = @ + n(found)]
             Advances(found) == [x EXCEPT !.next = @ + found + n(found)]
             Waits(found) == [Advances(found) EXCEPT !.fetches = @ + n(found), !.waits = TRUE,
                                                     !.preds = @ + 1]
  <2>1. PICK found : \/ ctx' = [ctx EXCEPT ![c] = Stops(found)]
                     \/ ctx' = [ctx EXCEPT ![c] = Starts(found)]
                     \/ ctx' = [ctx EXCEPT ![c] = Waits(found)]
    BY <1>34, Zenon DEF FetchInputs, Activate, LoadAndWait
  <2>2. c \in Contexts => Keeps(x, ctx[c])
    BY <1>32
  <2> HIDE DEF c, x, need, n
  <2>3. ASSUME c \in Contexts
        PROVE  /\ Keeps(Stops(found), ctx[c])
               /\ Keeps(Starts(found), ctx[c])
               /\ Keeps(Waits(found), ctx[c])
    BY <1>33, <2>2, <2>3, ZenonT(30)
  <2> HIDE DEF Stops, Starts, Waits
  <2>4. QED
    BY <1>31, <2>1, <2>3
<1>35. CASE RevalidateInputs
  <2> DEFINE c == Running
             x == Resumed(c, "ResumeRevalidateInputs")
             n == Min({x.revalidate, Room})
             Spent == [x EXCEPT !.revalidate = 0, !.revalidateOk = FALSE]
             Loads == [x EXCEPT !.revalidate = 0, !.fetches = @ + n]
             Stops == [Spent EXCEPT !.partitions = Spent.fetches = 0 /\ Spent.revalidateOk]
             Starts == [Loads EXCEPT !.partitions = Loads.fetches = 0 /\ Loads.revalidateOk]
             Advances == [x EXCEPT !.revalidate = @ - n]
             Waits == [Advances EXCEPT !.fetches = @ + n, !.waits = TRUE, !.preds = @ + 1]
  <2>1. \/ ctx' = [ctx EXCEPT ![c] = Stops]
        \/ ctx' = [ctx EXCEPT ![c] = Starts]
        \/ ctx' = [ctx EXCEPT ![c] = Waits]
    BY <1>35, Zenon DEF RevalidateInputs, FinishRevalidation, LoadAndWait
  <2>2. c \in Contexts => Keeps(x, ctx[c])
    BY <1>32
  <2> HIDE DEF c, x, n
  <2>3. ASSUME c \in Contexts
        PROVE  Keeps(Stops, ctx[c]) /\ Keeps(Starts, ctx[c]) /\ Keeps(Waits, ctx[c])
    <3>1. Keeps(Spent, ctx[c]) /\ Keeps(Loads, ctx[c]) /\ Keeps(Advances, ctx[c])
      BY <1>33, <2>2, <2>3, ZenonT(30)
    <3> HIDE DEF Spent, Loads, Advances
    <3>2. QED
      BY <1>33, <3>1, ZenonT(30)
  <2> HIDE DEF Stops, Starts, Waits
  <2>4. QED
    BY <1>31, <2>1, <2>3
<1>36. CASE ResourceFetchDone
  <2> DEFINE c == Running
  <2>1. \E u : ctx' = [ctx EXCEPT ![c] = [ctx[c] EXCEPT !.fetches = u]]
    BY <1>36 DEF ResourceFetchDone, Activate
  <2> HIDE DEF c
  <2>2. QED
    BY <1>12, <1>31, <1>33, <2>1
<1>37. CASE ResourceRevalidateDone
  <2> DEFINE c == Running
             x == [ctx[c] EXCEPT !.fetches = @ - 1, !.revalidateOk = @ /\ Argument = "same"]
             y == [x EXCEPT !.partitions = x.fetches = 0 /\ x.revalidateOk]
  <2>1. ctx' = [ctx EXCEPT ![c] = x] \/ ctx' = [ctx EXCEPT ![c] = y]
    BY <1>37, Zenon DEF ResourceRevalidateDone, FinishRevalidation
  <2> HIDE DEF c
  <2>2. c \in Contexts => Keeps(x, ctx[c])
    BY <1>12, <1>33, ZenonT(30)
  <2> HIDE DEF x
  <2>3. c \in Contexts => Keeps(y, ctx[c])
    BY <1>33, <2>2, ZenonT(30)
  <2> HIDE DEF y
  <2>4. QED
    BY <1>31, <2>1, <2>2, <2>3
<1>38. QED
  BY <1>13, <1>14, <1>15, <1>16, <1>17, <1>18, <1>19, <1>20, <1>21, <1>22, <1>23, <1>24, <1>25,
     <1>27, <1>28, <1>29, <1>30, <1>34, <1>35, <1>36, <1>37 DEF RewriteSequence

LEMMA OthersFrame ==
  ASSUME Records, Lookups \/ Answers \/ LowPriority \/ Idle PROVE Frame
<1>1. \A c \in Contexts : DOMAIN ctx[c] = CtxFields
  BY DEF Records
<1>2. CASE ctx' = ctx
  BY <1>1, <1>2, FrameSame
<1>3. ASSUME NEW c \in Contexts, LockDone(c) PROVE Frame
  <2>1. PICK granted : ctx' = [ctx EXCEPT ![c].lock = granted]
    BY <1>3 DEF LockDone
  <2>2. QED
    BY <1>1, <2>1 DEF Frame, Keeps, Contexts, CtxFields
<1>4. ASSUME NEW c \in Contexts, RewriteNested(c) PROVE Frame
  <2> DEFINE P(d) == [ctx[d] EXCEPT !.state = "built",
                        !.place = IF Cardinality({e \in Children(c) : e <= d})
                                     <= Min({Cardinality(Children(c)), MaxContexts - budget.contexts})
                                  THEN "taken" ELSE "refused"]
             Q(d) == [ctx[d] EXCEPT !.nested = Cardinality(Children(c))]
  <2>1. ctx' = [d \in Contexts |-> IF d \in Children(c) THEN P(d)
                                   ELSE IF d = c THEN Q(d) ELSE ctx[d]]
    BY <1>4 DEF RewriteNested
  <2>2. \A d \in Contexts : Keeps(P(d), ctx[d]) /\ Keeps(Q(d), ctx[d]) /\ Keeps(ctx[d], ctx[d])
    BY <1>1 DEF Keeps, CtxFields
  <2> HIDE DEF P, Q
  <2>3. QED
    BY <2>1, <2>2 DEF Frame, Contexts
<1>5. QED
  BY <1>2, <1>3, <1>4 DEF Lookups, Answers, LowPriority, Idle, LookupDone, LoadDone, Rewrite, vars

LEMMA NextFrame == ASSUME Records, [Next]_vars PROVE Frame
<1>1. CASE UNCHANGED vars
  BY <1>1, FrameSame DEF Records, vars
<1>2. QED
  BY <1>1, HtmlFrame, SequenceFrame, OthersFrame DEF Next

---------------------------------------------------------------------------
(* What the driver goes through when it is not the HTML thread that acts.   *)

SameWait(e) ==
  /\ DOMAIN e = DrvFields /\ DOMAIN e.refs = RefKinds
  /\ e.waiting = drv.waiting /\ e.woken = drv.woken
  /\ e.rewrites = drv.rewrites /\ e.initiated \subseteq drv.initiated

Signaled == drv' = drv \/ \E e : SameWait(e) /\ drv' = SignalIfRequired(drv, e)

LEMMA SameSelf == ASSUME Records PROVE SameWait(drv)
  BY DEF Records, SameWait

LEMMA SignalKeeps ==
  ASSUME NEW d, NEW e, DOMAIN e = DrvFields
  PROVE  LET s == SignalIfRequired(d, e)
         IN  /\ DOMAIN s = DrvFields
             /\ \A f \in DrvFields \ {"woken"} : s[f] = e[f]
             /\ s.woken = (e.woken \/ (e.waiting # "kNoWait" /\ ~IsDone(d) /\ IsDone(e)))
             /\ IsDone(s) = IsDone(e)
<1> DEFINE s == SignalIfRequired(d, e)
           b == e.woken \/ (e.waiting # "kNoWait" /\ ~IsDone(d) /\ IsDone(e))
<1>1. s = [e EXCEPT !.woken = b]
  BY DEF SignalIfRequired
<1> HIDE DEF s, b
<1>2. DOMAIN s = DrvFields /\ s.woken = b /\ \A f \in DrvFields \ {"woken"} : s[f] = e[f]
  BY <1>1 DEF DrvFields
<1>3. s.reached = e.reached /\ s.waiting = e.waiting /\ s.quick = e.quick /\ s.refs = e.refs
      /\ s.detached = e.detached
  BY <1>2 DEF DrvFields
<1>4. IsDone(s) = IsDone(e)
  BY <1>3 DEF IsDone, RewritesComplete
<1>5. QED
  BY <1>2, <1>4 DEF s, b

LEMMA ReportSignals ==
  ASSUME Records, NEW c, drv' = ReportSlow(c) PROVE Signaled
<1> DEFINE m == Cardinality(NewlySlow(c))
           e == [drv EXCEPT !.quick = @ - m]
<1>1. drv' = drv \/ drv' = SignalIfRequired(drv, e)
  BY DEF ReportSlow, ReportSlowRewrites
<1> HIDE DEF m
<1>2. SameWait(e)
  BY DEF Records, SameWait, DrvFields
<1> HIDE DEF e
<1>3. QED
  BY <1>1, <1>2 DEF Signaled

LEMMA DropSignals ==
  ASSUME Records, NEW k, drv' = DropReference(drv, k) PROVE Signaled
<1> DEFINE e == [drv EXCEPT !.refs[k] = @ - 1]
           r == IF Unreferenced(e.refs) THEN e.released + 1 ELSE e.released
           f == [e EXCEPT !.released = r]
<1>1. drv' = SignalIfRequired(drv, f)
  BY DEF DropReference
<1>2. SameWait(e)
  BY DEF Records, SameWait, DrvFields
<1> HIDE DEF e, r
<1>3. SameWait(f)
  BY <1>2 DEF SameWait, DrvFields
<1> HIDE DEF f
<1>4. QED
  BY <1>1, <1>3 DEF Signaled

LEMMA SequenceSignals ==
  ASSUME Records, RewriteSequence PROVE Signaled /\ html' = html
<1>1. CASE RewriteComplete
  <2> DEFINE c == Running
             e == IF c \in drv.initiated THEN CompleteAttached(c) ELSE CompleteDetached(c)
  <2>1. drv' = SignalIfRequired(drv, e) /\ html' = html
    BY <1>1 DEF RewriteComplete
  <2> HIDE DEF c
  <2>2. SameWait(e)
    BY DEF Records, SameWait, DrvFields, RefKinds, CompleteAttached, CompleteDetached
  <2> HIDE DEF e
  <2>3. QED
    BY <2>1, <2>2 DEF Signaled
<1>2. CASE DeleteRewriteContext
  BY <1>2, DropSignals DEF DeleteRewriteContext
<1>3. CASE OutputCacheNotOk
  BY <1>3, ReportSignals DEF OutputCacheNotOk
<1>4. CASE StartRepeated
  <2>1. html' = html /\ (drv' = drv \/ drv' = ReportSlow(Running))
    BY <1>4, ZenonT(30) DEF StartRepeated
  <2>2. QED
    BY <2>1, ReportSignals DEF Signaled
<1>5. CASE drv' = drv /\ html' = html
  BY <1>5 DEF Signaled
<1>6. QED
  BY <1>1, <1>2, <1>3, <1>4, <1>5, ZenonT(30)
  DEF RewriteSequence, StartDisabled, StartRefused, StartPrimary,
     OutputCacheHit, OutputCacheMiss, LockFailed, FetchInputs, RevalidateInputs, ResourceFetchDone,
     ResourceRevalidateDone, StopForPageInputBytes, PartitionDone, StartNestedTasksImpl,
     RewriteDoneImpl, Finalize, RepeatedSuccess, RepeatedFailure, RetireNested

LEMMA OthersSignal ==
  ASSUME Records, Lookups \/ Answers \/ LowPriority \/ Idle
  PROVE  drv' = drv /\ html' = html /\ rendered' = rendered
  BY DEF Lookups, Answers, LowPriority, Idle, LookupDone, LockDone, LoadDone, Rewrite,
     RewriteNested, vars

---------------------------------------------------------------------------
(* The invariant: a flush window holds the rewrites of its own contexts     *)
(* only, and the driver waits exactly while the HTML thread does.           *)

WindowInv ==
  /\ drv.rewrites \subseteq Contexts /\ drv.initiated \subseteq Contexts
  /\ \A c \in drv.rewrites : html.pc = "parsing" /\ ctx[c].window = html.window
  /\ \A c \in drv.initiated :
       html.pc \in {"flushing", "waiting", "flushed"} /\ ctx[c].window = html.window

WaitInv == drv.waiting # "kNoWait" => html.pc = "waiting"

FlushInv == Records /\ WindowInv /\ WaitInv /\ NoLostWakeup

LEMMA InitFlush == Init => FlushInv
<1> SUFFICES ASSUME Init PROVE FlushInv
  OBVIOUS
<1>1. PICK f \in Documents : ctx = [c \in DOMAIN f |-> NewContext(f, c)]
  BY DEF Init
<1>2. \A c \in Contexts : DOMAIN ctx[c] = CtxFields
  BY <1>1 DEF Contexts, NewContext, CtxFields
<1>5. PICK n \in Nat : Contexts = 1..n
  BY <1>1, LimitsAssumption DEF Contexts
<1>6. IsFiniteSet(Contexts) /\ Contexts \subseteq Nat \ {NoContext}
  BY <1>5, FS_Interval DEF NoContext
<1>3. /\ DOMAIN drv = DrvFields /\ DOMAIN drv.refs = RefKinds /\ drv.rewrites = {}
      /\ drv.initiated = {} /\ drv.waiting = "kNoWait"
  BY DEF Init, NoRefs, DrvFields, RefKinds
<1>4. QED
  BY <1>2, <1>3, <1>6 DEF Init, FlushInv, Records, WindowInv, WaitInv, NoLostWakeup

LEMMA SignaledFlush ==
  ASSUME FlushInv, Frame, Signaled, html' = html PROVE FlushInv'
<1>1. CASE drv' = drv
  BY <1>1 DEF FlushInv, Records, WindowInv, WaitInv, NoLostWakeup, Frame, Keeps, Contexts, IsDone,
     RewritesComplete
<1>2. ASSUME NEW e, SameWait(e), drv' = SignalIfRequired(drv, e) PROVE FlushInv'
  <2>1. DOMAIN e = DrvFields
    BY <1>2 DEF SameWait
  <2>2. /\ DOMAIN drv' = DrvFields
        /\ drv'.refs = e.refs /\ drv'.waiting = e.waiting
        /\ drv'.rewrites = e.rewrites /\ drv'.initiated = e.initiated
        /\ drv'.woken = (e.woken \/ (e.waiting # "kNoWait" /\ ~IsDone(drv) /\ IsDone(e)))
        /\ IsDone(drv') = IsDone(e)
    BY <1>2, <2>1, SignalKeeps DEF DrvFields
  <2>3. Records'
    BY <1>2, <2>2 DEF FlushInv, Records, SameWait, Frame, Keeps, Contexts
  <2>4. WindowInv'
    BY <1>2, <2>2 DEF FlushInv, WindowInv, SameWait, Frame, Keeps, Contexts
  <2>5. WaitInv'
    BY <1>2, <2>2 DEF FlushInv, WaitInv, SameWait
  <2>6. NoLostWakeup'
    BY <1>2, <2>2 DEF FlushInv, NoLostWakeup, SameWait
  <2>7. QED
    BY <2>3, <2>4, <2>5, <2>6 DEF FlushInv
<1>3. QED
  BY <1>1, <1>2 DEF Signaled

LEMMA NotWaiting ==
  ASSUME FlushInv, html.pc # "waiting", drv'.waiting = drv.waiting
  PROVE  WaitInv' /\ NoLostWakeup'
  BY DEF FlushInv, WaitInv, NoLostWakeup

LEMMA TryFlush ==
  ASSUME FlushInv, Frame, NEW d, NEW b, TryCheckForCompletion(d, b),
         html.pc \in {"flushing", "waiting"},
         DOMAIN d = DrvFields, d.refs = drv.refs, d.rewrites = drv.rewrites,
         d.initiated = drv.initiated
  PROVE  FlushInv'
<1> DEFINE e == [d EXCEPT !.reached = b, !.woken = FALSE]
           g == [e EXCEPT !.waiting = "kNoWait"]
<1>1. /\ DOMAIN e = DrvFields /\ e.refs = drv.refs /\ e.rewrites = drv.rewrites
      /\ e.initiated = drv.initiated
  BY DEF DrvFields
<1>2. /\ DOMAIN g = DrvFields /\ g.refs = drv.refs /\ g.rewrites = drv.rewrites
      /\ g.initiated = drv.initiated /\ g.waiting = "kNoWait"
  BY DEF DrvFields
<1>3. \/ ~IsDone(e) /\ drv' = e /\ html' = [html EXCEPT !.pc = "waiting"]
      \/ drv' = g /\ html' = [html EXCEPT !.pc = "flushed"]
  BY DEF TryCheckForCompletion
<1> HIDE DEF e, g
<1>4. /\ DOMAIN drv' = DrvFields /\ drv'.refs = drv.refs /\ drv'.rewrites = drv.rewrites
      /\ drv'.initiated = drv.initiated
  BY <1>1, <1>2, <1>3
<1>5. DOMAIN html' = {"pc", "window"} /\ html'.window = html.window
      /\ html'.pc \in {"waiting", "flushed"}
  BY <1>3 DEF FlushInv, Records
<1>6. Records'
  BY <1>4, <1>5 DEF FlushInv, Records, Frame, Keeps, Contexts
<1>7. WindowInv'
  BY <1>4, <1>5 DEF FlushInv, WindowInv, Frame, Keeps, Contexts
<1>8. CASE ~IsDone(e) /\ drv' = e /\ html' = [html EXCEPT !.pc = "waiting"]
  <2>1. ~IsDone(drv') /\ html'.pc = "waiting"
    BY <1>8 DEF FlushInv, Records
  <2>2. QED
    BY <1>6, <1>7, <2>1 DEF FlushInv, WaitInv, NoLostWakeup
<1>9. CASE drv' = g
  BY <1>2, <1>6, <1>7, <1>9 DEF FlushInv, WaitInv, NoLostWakeup
<1>10. QED
  BY <1>3, <1>8, <1>9

LEMMA HtmlFlush == ASSUME FlushInv, Html PROVE FlushInv'
<1>1. Records /\ Frame
  BY HtmlFrame DEF FlushInv
<1>2. Contexts' = Contexts /\ \A c \in Contexts : DOMAIN ctx'[c] = CtxFields
  BY <1>1 DEF Frame, Keeps, Contexts
<1>3. CASE InitiateRewrite
  <2> DEFINE c == Min(NextContext)
             d == [drv EXCEPT !.rewrites = @ \cup {c}, !.refs.pending = @ + 1, !.quick = @ + 1]
  <2>1. (drv' = d \/ drv' = drv) /\ html' = html /\ html.pc = "parsing"
    BY <1>3 DEF InitiateRewrite
  <2>2. c \in NextContext
    BY <1>1, <1>3, MinIn DEF InitiateRewrite, NextContext, Records
  <2>3. c \in Contexts /\ ctx[c].window = html.window
    BY <2>2 DEF NextContext
  <2> HIDE DEF c
  <2>4. /\ DOMAIN d = DrvFields /\ DOMAIN d.refs = RefKinds /\ d.rewrites = drv.rewrites \cup {c}
        /\ d.initiated = drv.initiated /\ d.waiting = drv.waiting
    BY <1>1 DEF Records, DrvFields, RefKinds
  <2> HIDE DEF d
  <2>5. Records'
    BY <1>1, <1>2, <2>1, <2>4 DEF Records
  <2>6. WindowInv'
    BY <1>1, <2>1, <2>3, <2>4 DEF FlushInv, WindowInv, Frame, Keeps, Contexts
  <2>7. QED
    BY <2>1, <2>4, <2>5, <2>6, NotWaiting DEF FlushInv
<1>4. CASE FlushAsync
  <2> DEFINE d == [drv EXCEPT !.initiated = @ \cup drv.rewrites, !.rewrites = {}]
  <2>1. drv' = d /\ html.pc = "parsing" /\ html' = [html EXCEPT !.pc = "flushing"]
    BY <1>4 DEF FlushAsync
  <2>2. /\ DOMAIN d = DrvFields /\ d.refs = drv.refs /\ d.rewrites = {}
        /\ d.initiated = drv.initiated \cup drv.rewrites /\ d.waiting = drv.waiting
    BY <1>1 DEF Records, DrvFields
  <2> HIDE DEF d
  <2>3. html'.pc = "flushing" /\ html'.window = html.window /\ DOMAIN html' = {"pc", "window"}
    BY <1>1, <2>1 DEF Records
  <2>4. Records'
    BY <1>1, <1>2, <2>1, <2>2, <2>3 DEF Records
  <2>5. WindowInv'
    BY <1>1, <2>1, <2>2, <2>3 DEF FlushInv, WindowInv, Frame, Keeps, Contexts
  <2>6. QED
    BY <2>1, <2>2, <2>4, <2>5, NotWaiting DEF FlushInv
<1>5. CASE CheckForCompletionAsync
  <2> DEFINE d == [drv EXCEPT !.waiting = IF drv.fully THEN "kWaitForCompletion"
                                                       ELSE "kWaitForCachedRender"]
  <2>1. TryCheckForCompletion(d, FALSE) /\ html.pc = "flushing"
    BY <1>5 DEF CheckForCompletionAsync
  <2>2. /\ DOMAIN d = DrvFields /\ d.refs = drv.refs /\ d.rewrites = drv.rewrites
        /\ d.initiated = drv.initiated
    BY <1>1 DEF Records, DrvFields
  <2> HIDE DEF d
  <2>3. QED
    BY <1>1, <2>1, <2>2, TryFlush
<1>6. CASE Woken \/ Deadline
  <2>1. PICK b : TryCheckForCompletion(drv, b) /\ html.pc = "waiting"
    BY <1>6 DEF Woken, Deadline
  <2>2. QED
    BY <1>1, <2>1, TryFlush DEF Records
<1>7. CASE FlushAsyncDone
  <2> DEFINE m == Cardinality(drv.initiated)
             d == [drv EXCEPT !.detached = @ \cup drv.initiated, !.initiated = {},
                              !.refs.detached = @ + m, !.refs.pending = @ - m]
  <2>1. /\ drv' = d /\ html.pc = "flushed"
        /\ \/ html' = [html EXCEPT !.pc = "finishing"]
           \/ html' = [pc |-> "parsing", window |-> html.window + 1]
    BY <1>7 DEF FlushAsyncDone
  <2> HIDE DEF m
  <2>2. /\ DOMAIN d = DrvFields /\ DOMAIN d.refs = RefKinds /\ d.rewrites = drv.rewrites
        /\ d.initiated = {} /\ d.waiting = drv.waiting
    BY <1>1 DEF Records, DrvFields, RefKinds
  <2> HIDE DEF d
  <2>3. DOMAIN html' = {"pc", "window"}
    BY <1>1, <2>1 DEF Records
  <2>4. drv.rewrites = {}
    BY <2>1 DEF FlushInv, WindowInv
  <2>5. Records' /\ WindowInv'
    BY <1>1, <1>2, <2>1, <2>2, <2>3, <2>4 DEF Records, WindowInv, Contexts
  <2>6. QED
    BY <2>1, <2>2, <2>5, NotWaiting DEF FlushInv
<1>8. ASSUME NEW k, NEW p, drv' = DropReference(drv, k), html.pc \in {"finishing", "cleanup"},
             html' = [html EXCEPT !.pc = p]
      PROVE  FlushInv'
  <2>1. CASE drv' = drv
    <3>1. Records'
      BY <1>1, <1>2, <1>8, <2>1 DEF Records
    <3>2. WindowInv'
      BY <1>1, <1>8, <2>1 DEF FlushInv, WindowInv, Contexts
    <3>3. QED
      BY <1>8, <2>1, <3>1, <3>2, NotWaiting DEF FlushInv
  <2>2. ASSUME NEW e, SameWait(e), drv' = SignalIfRequired(drv, e) PROVE FlushInv'
    <3>1. DOMAIN e = DrvFields
      BY <2>2 DEF SameWait
    <3>2. /\ DOMAIN drv' = DrvFields /\ drv'.refs = e.refs /\ drv'.waiting = e.waiting
          /\ drv'.rewrites = e.rewrites /\ drv'.initiated = e.initiated
      BY <2>2, <3>1, SignalKeeps DEF DrvFields
    <3>3. Records'
      BY <1>1, <1>2, <1>8, <2>2, <3>2 DEF Records, SameWait
    <3>4. WindowInv'
      BY <1>8, <2>2, <3>2 DEF FlushInv, WindowInv, SameWait
    <3>5. QED
      BY <1>8, <2>2, <3>2, <3>3, <3>4, NotWaiting DEF FlushInv, SameWait
  <2>3. QED
    BY <1>1, <1>8, <2>1, <2>2, DropSignals DEF Signaled
<1>9. CASE FinishParseAfterFlush \/ Cleanup
  BY <1>8, <1>9 DEF FinishParseAfterFlush, Cleanup
<1>10. QED
  BY <1>3, <1>4, <1>5, <1>6, <1>7, <1>9 DEF Html

LEMMA NextFlush == FlushInv /\ [Next]_vars => FlushInv'
<1> SUFFICES ASSUME FlushInv, [Next]_vars PROVE FlushInv'
  OBVIOUS
<1>1. Records /\ Frame
  BY NextFrame DEF FlushInv
<1>2. CASE Html
  BY <1>2, HtmlFlush
<1>3. CASE RewriteSequence
  BY <1>1, <1>3, SequenceSignals, SignaledFlush
<1>4. CASE Lookups \/ Answers \/ LowPriority \/ Idle
  BY <1>1, <1>4, OthersSignal, SignaledFlush DEF Signaled
<1>5. CASE UNCHANGED vars
  BY <1>1, <1>5, SignaledFlush DEF Signaled, vars
<1>6. QED
  BY <1>2, <1>3, <1>4, <1>5 DEF Next

(* The windows, and the waiting of the driver, in every document. *)
THEOREM FlushInvariant == Spec => []FlushInv
  BY InitFlush, NextFlush, PTL DEF Spec

(* No wakeup is lost: whenever the condition a flush waits for holds, the   *)
(* change that made it hold has signaled (PrepareShouldSignal and           *)
(* SignalIfRequired around every change of the driver's counts).            *)
THEOREM FlushIsWoken == Spec => []NoLostWakeup
<1>1. FlushInv => NoLostWakeup
  BY DEF FlushInv
<1>2. QED
  BY <1>1, FlushInvariant, PTL

LEMMA StepRenders ==
  ASSUME FlushInv, [Next]_vars
  PROVE  \A c \in rendered' \ rendered :
           html.window = ctx[c].window /\ html.pc \in {"flushing", "waiting", "flushed"}
<1>1. CASE RewriteComplete
  BY <1>1 DEF RewriteComplete, Renders, FlushInv, WindowInv
<1>2. CASE rendered' = rendered
  BY <1>2
<1>3. CASE Lookups \/ Answers \/ LowPriority \/ Idle
  BY <1>2, <1>3, OthersSignal DEF FlushInv
<1>4. CASE Html
  BY <1>2, <1>4 DEF Html, InitiateRewrite, FlushAsync, CheckForCompletionAsync, Woken, Deadline,
     FlushAsyncDone, FinishParseAfterFlush, Cleanup
<1>5. CASE RewriteSequence
  BY <1>1, <1>2, <1>5, ZenonT(30) DEF RewriteSequence, StartDisabled, StartRefused, StartPrimary,
     StartRepeated, OutputCacheHit, OutputCacheNotOk, OutputCacheMiss, LockFailed, FetchInputs,
     RevalidateInputs, ResourceFetchDone, ResourceRevalidateDone, StopForPageInputBytes,
     PartitionDone, StartNestedTasksImpl, RewriteDoneImpl, Finalize, RepeatedSuccess,
     RepeatedFailure, RetireNested, DeleteRewriteContext
<1>6. QED
  BY <1>2, <1>3, <1>4, <1>5 DEF Next, vars

(* RewriteComplete renders a context only while its flush window is open,   *)
(* never one that FlushAsyncDone has detached, in any interleaving of the   *)
(* HTML thread and the rewrite sequence.                                    *)
THEOREM RendersInWindow == Spec => RendersInItsWindow
<1>1. FlushInv /\ [Next]_vars =>
        [\A c \in rendered' \ rendered :
           html.window = ctx[c].window /\ html.pc \in {"flushing", "waiting", "flushed"}]_vars
  BY StepRenders
<1>2. QED
  BY <1>1, FlushInvariant, PTL DEF Spec, RendersInItsWindow

---------------------------------------------------------------------------
(* Numbers, and counting the tasks of some contexts and of some kinds.      *)

Num(t, C, K) == Cardinality({i \in DOMAIN t : t[i].c \in C /\ t[i].op \in K})

\* Induction over a set of numbers.
LEMMA NatInduct ==
  ASSUME NEW T, 0 \in T, \A n \in Nat : n \in T => n + 1 \in T
  PROVE  Nat \subseteq T
<1> DEFINE U == Nat \ T
           k == Min(U)
<1>1. SUFFICES ASSUME U # {} PROVE FALSE
  OBVIOUS
<1>2. k \in U /\ \A j \in U : k <= j
  BY <1>1, MinIn
<1> HIDE DEF k
<1>3. k \in Nat /\ k # 0
  BY <1>2
<1>4. k - 1 \in Nat /\ ~(k <= k - 1) /\ (k - 1) + 1 = k
  BY <1>3
<1>5. k - 1 \in T
  BY <1>2, <1>4
<1>6. k \in T
  BY <1>4, <1>5
<1>7. QED
  BY <1>2, <1>6

LEMMA ShiftedCount ==
  ASSUME NEW S, IsFiniteSet(S), S \subseteq Int, NEW n \in Int, NEW T, T = {i + n : i \in S}
  PROVE  IsFiniteSet(T) /\ Cardinality(T) = Cardinality(S)
<1> DEFINE f == [i \in S |-> i + n]
<1>1. f \in [S -> T] /\ \A a, b \in S : f[a] = f[b] => a = b
  OBVIOUS
<1>2. \A x \in T : \E a \in S : f[a] = x
  OBVIOUS
<1>3. f \in Bijection(S, T)
  BY <1>1, <1>2 DEF Bijection, Injection, Surjection, IsInjective
<1>4. QED
  BY <1>3, FS_Bijection DEF ExistsBijection

Places(t, C, K) == {i \in DOMAIN t : t[i].c \in C /\ t[i].op \in K}

LEMMA NumPlaces ==
  ASSUME NEW T, NEW t \in Seq(T), NEW C, NEW K
  PROVE  /\ Num(t, C, K) = Cardinality(Places(t, C, K))
         /\ IsFiniteSet(Places(t, C, K)) /\ Places(t, C, K) \subseteq 1..Len(t)
         /\ Num(t, C, K) \in Nat
         /\ Num(t, C, K) = 0 <=> \A i \in DOMAIN t : ~(t[i].c \in C /\ t[i].op \in K)
<1>1. Len(t) \in Nat /\ DOMAIN t = 1..Len(t)
  BY LenProperties
<1>2. IsFiniteSet(1..Len(t)) /\ Places(t, C, K) \in SUBSET (1..Len(t))
  BY <1>1, FS_Interval DEF Places
<1>3. IsFiniteSet(Places(t, C, K))
  BY <1>2, FS_Subset
<1>4. Num(t, C, K) = Cardinality(Places(t, C, K))
  BY DEF Num, Places
<1>5. QED
  BY <1>2, <1>3, <1>4, FS_CardinalityType, FS_EmptySet DEF Places

LEMMA NumConcat ==
  ASSUME NEW T, NEW s \in Seq(T), NEW t \in Seq(T), NEW C, NEW K
  PROVE  Num(s \o t, C, K) = Num(s, C, K) + Num(t, C, K)
<1> DEFINE n == Len(s)
           u == s \o t
           A == Places(s, C, K)
           B == Places(t, C, K)
           E == {i + n : i \in B}
<1>1. /\ n \in Nat /\ Len(t) \in Nat /\ DOMAIN s = 1..n /\ DOMAIN t = 1..Len(t)
      /\ u \in Seq(T) /\ DOMAIN u = 1..(n + Len(t))
      /\ \A i \in 1..(n + Len(t)) : u[i] = IF i <= n THEN s[i] ELSE t[i - n]
  BY ConcatProperties, LenProperties
<1> HIDE DEF n, u
<1>2. Places(u, C, K) = A \cup E
  <2>1. ASSUME NEW i \in Places(u, C, K) PROVE i \in A \cup E
    <3>1. i \in 1..(n + Len(t)) /\ u[i].c \in C /\ u[i].op \in K
      BY <1>1, <2>1 DEF Places
    <3>2. CASE i <= n
      BY <1>1, <3>1, <3>2 DEF Places
    <3>3. CASE ~(i <= n)
      <4>1. i - n \in 1..Len(t) /\ (i - n) + n = i
        BY <1>1, <3>1, <3>3
      <4>2. i - n \in B
        BY <1>1, <3>1, <3>3, <4>1 DEF Places
      <4>3. QED
        BY <4>1, <4>2
    <3>4. QED
      BY <3>2, <3>3
  <2>2. ASSUME NEW i \in A PROVE i \in Places(u, C, K)
    BY <1>1, <2>2 DEF Places
  <2>3. ASSUME NEW i \in B PROVE i + n \in Places(u, C, K)
    <3>1. i \in 1..Len(t) /\ t[i].c \in C /\ t[i].op \in K
      BY <1>1, <2>3 DEF Places
    <3>2. i + n \in 1..(n + Len(t)) /\ ~(i + n <= n) /\ (i + n) - n = i
      BY <1>1, <3>1
    <3>3. u[i + n] = t[i]
      BY <1>1, <3>2
    <3>4. QED
      BY <1>1, <3>1, <3>2, <3>3 DEF Places
  <2>4. QED
    BY <2>1, <2>2, <2>3
<1>3. IsFiniteSet(A) /\ IsFiniteSet(B) /\ A \subseteq 1..n /\ B \subseteq 1..Len(t)
  BY NumPlaces DEF n
<1>4. IsFiniteSet(E) /\ Cardinality(E) = Cardinality(B)
  <2>1. B \subseteq Int /\ n \in Int
    BY <1>1, <1>3
  <2> HIDE DEF B
  <2>2. ASSUME NEW U, U = {i + n : i \in B} PROVE IsFiniteSet(U) /\ Cardinality(U) = Cardinality(B)
    BY <1>3, <2>1, <2>2, ShiftedCount
  <2>3. QED
    BY <2>2
<1>5. A \cap E = {}
  BY <1>1, <1>3
<1> HIDE DEF A, B, E
<1>6. Cardinality(A \cup E) = Cardinality(A) + Cardinality(E) - Cardinality({})
  BY <1>3, <1>4, <1>5, FS_Union
<1>7. Num(u, C, K) = Cardinality(A \cup E)
  <2>1. Num(u, C, K) = Cardinality(Places(u, C, K))
    BY <1>1, NumPlaces
  <2>2. QED
    BY <1>2, <2>1
<1>8. QED
  <2>1. Num(s, C, K) = Cardinality(A) /\ Num(t, C, K) = Cardinality(B)
    BY NumPlaces DEF A, B
  <2>2. Cardinality(A) \in Nat /\ Cardinality(B) \in Nat /\ Cardinality({}) = 0
    BY <1>3, FS_CardinalityType, FS_EmptySet
  <2>3. QED
    BY <1>4, <1>6, <1>7, <2>1, <2>2 DEF u

LEMMA NumOne ==
  ASSUME NEW x, NEW C, NEW K
  PROVE  Num(<<x>>, C, K) = IF x.c \in C /\ x.op \in K THEN 1 ELSE 0
<1>1. DOMAIN <<x>> = {1} /\ <<x>>[1] = x
  OBVIOUS
<1>2. {i \in DOMAIN <<x>> : <<x>>[i].c \in C /\ <<x>>[i].op \in K}
        = IF x.c \in C /\ x.op \in K THEN {1} ELSE {}
  BY <1>1
<1>3. QED
  BY <1>2, FS_EmptySet, FS_Singleton DEF Num

LEMMA NumTail ==
  ASSUME NEW T, NEW t \in Seq(T), t # <<>>, NEW C, NEW K
  PROVE  Num(t, C, K) = (IF Head(t).c \in C /\ Head(t).op \in K THEN 1 ELSE 0) + Num(Tail(t), C, K)
<1> DEFINE h == <<Head(t)>>
           r == Tail(t)
<1>1. h \in Seq(T) /\ r \in Seq(T) /\ t = h \o r
  OBVIOUS
<1>2. Num(h, C, K) = IF Head(t).c \in C /\ Head(t).op \in K THEN 1 ELSE 0
  BY NumOne
<1> HIDE DEF h, r
<1>3. Num(t, C, K) = Num(h, C, K) + Num(r, C, K)
  BY <1>1, NumConcat
<1>4. QED
  BY <1>2, <1>3 DEF r

LEMMA NumAppend ==
  ASSUME NEW T, NEW t \in Seq(T), NEW x \in T, NEW C, NEW K
  PROVE  Num(Append(t, x), C, K) = Num(t, C, K) + (IF x.c \in C /\ x.op \in K THEN 1 ELSE 0)
<1> DEFINE h == <<x>>
<1>1. h \in Seq(T) /\ Append(t, x) = t \o h
  OBVIOUS
<1>2. Num(h, C, K) = IF x.c \in C /\ x.op \in K THEN 1 ELSE 0
  BY NumOne
<1> HIDE DEF h
<1>3. Num(t \o h, C, K) = Num(t, C, K) + Num(h, C, K)
  BY <1>1, NumConcat
<1>4. QED
  BY <1>1, <1>2, <1>3

LEMMA NumParts ==
  ASSUME NEW T, NEW t \in Seq(T), NEW C, NEW K, NEW L
  PROVE  /\ K \subseteq L => Num(t, C, K) <= Num(t, C, L)
         /\ K \cap L = {} => Num(t, C, K \cup L) = Num(t, C, K) + Num(t, C, L)
<1>1. IsFiniteSet(Places(t, C, K)) /\ IsFiniteSet(Places(t, C, L))
  BY NumPlaces
<1>2. ASSUME K \subseteq L PROVE Num(t, C, K) <= Num(t, C, L)
  <2>1. Places(t, C, K) \in SUBSET Places(t, C, L)
    BY <1>2 DEF Places
  <2>2. QED
    BY <1>1, <2>1, FS_Subset, NumPlaces
<1>3. ASSUME K \cap L = {} PROVE Num(t, C, K \cup L) = Num(t, C, K) + Num(t, C, L)
  <2>1. Places(t, C, K \cup L) = Places(t, C, K) \cup Places(t, C, L)
        /\ Places(t, C, K) \cap Places(t, C, L) = {}
    BY <1>3 DEF Places
  <2> DEFINE A == Places(t, C, K)
             B == Places(t, C, L)
  <2> HIDE DEF A, B
  <2>2. Cardinality(A \cup B) = Cardinality(A) + Cardinality(B) - Cardinality(A \cap B)
    BY <1>1, FS_Union DEF A, B
  <2>3. Cardinality(A) \in Nat /\ Cardinality(B) \in Nat /\ Cardinality(A \cap B) = 0
    BY <1>1, <2>1, FS_CardinalityType, FS_EmptySet DEF A, B
  <2>4. Num(t, C, K \cup L) = Cardinality(A \cup B)
    <3>1. Num(t, C, K \cup L) = Cardinality(Places(t, C, K \cup L))
      BY NumPlaces
    <3>2. QED
      BY <2>1, <3>1 DEF A, B
  <2>5. Num(t, C, K) = Cardinality(A) /\ Num(t, C, L) = Cardinality(B)
    BY NumPlaces DEF A, B
  <2>6. QED
    BY <2>2, <2>3, <2>4, <2>5
<1>4. QED
  BY <1>2, <1>3

---------------------------------------------------------------------------
(* StartTasks: one task for each context of a set, in the order of their    *)
(* numbers.                                                                 *)

Tasks == [op : Ops, c : Contexts, arg : Args]

LEMMA TaskType ==
  ASSUME NEW o \in Ops, NEW c \in Contexts, NEW a \in Args
  PROVE  Task(o, c, a) \in Tasks /\ Task(o, c, a).op = o /\ Task(o, c, a).c = c
         /\ Task(o, c, a).arg = a
  BY DEF Task, Tasks

UpTo(S, c) == {d \in S : d <= c}

LEMMA Ranks ==
  ASSUME NEW S, IsFiniteSet(S), S \subseteq Nat
  PROVE  /\ \A c \in S : Cardinality(UpTo(S, c)) \in 1..Cardinality(S)
         /\ \A c, d \in S : Cardinality(UpTo(S, c)) = Cardinality(UpTo(S, d)) => c = d
         /\ \A i \in 1..Cardinality(S) : \E c \in S : Cardinality(UpTo(S, c)) = i
<1> DEFINE n == Cardinality(S)
           f == [c \in S |-> Cardinality(UpTo(S, c))]
<1>1. n \in Nat /\ IsFiniteSet(1..n) /\ Cardinality(1..n) = n
  BY FS_CardinalityType, FS_Interval
<1>2. ASSUME NEW c \in S
      PROVE  IsFiniteSet(UpTo(S, c)) /\ Cardinality(UpTo(S, c)) \in 1..n
  <2>1. UpTo(S, c) \in SUBSET S /\ c \in UpTo(S, c)
    BY DEF UpTo
  <2>2. IsFiniteSet(UpTo(S, c)) /\ Cardinality(UpTo(S, c)) <= n
    BY <2>1, FS_Subset
  <2>3. Cardinality(UpTo(S, c)) \in Nat /\ Cardinality(UpTo(S, c)) # 0
    BY <2>1, <2>2, FS_CardinalityType, FS_EmptySet
  <2>4. QED
    BY <1>1, <2>2, <2>3
<1>3. ASSUME NEW c \in S, NEW d \in S, c < d
      PROVE  Cardinality(UpTo(S, c)) # Cardinality(UpTo(S, d))
  <2>1. (\A x \in S : x <= c => x <= d) /\ d <= d /\ ~(d <= c)
    BY <1>3
  <2>3. UpTo(S, c) \in SUBSET UpTo(S, d) /\ d \in UpTo(S, d) /\ d \notin UpTo(S, c)
    BY <2>1 DEF UpTo
  <2>2. QED
    BY <1>2, <2>3, FS_Subset
<1>4. \A c, d \in S : f[c] = f[d] => c = d
  <2>1. \A c, d \in S : c < d \/ d < c \/ c = d
    OBVIOUS
  <2>2. QED
    BY <1>3, <2>1
<1>5. f \in [S -> 1..n]
  BY <1>2
<1>6. f \in Injection(S, 1..n)
  BY <1>4, <1>5 DEF Injection, IsInjective
<1> HIDE DEF f
<1>7. Cardinality(S) = Cardinality(1..n)
  BY <1>1
<1>8. f \in Surjection(S, 1..n)
  BY <1>1, <1>6, <1>7, FS_Injection
<1>9. \A i \in 1..n : \E c \in S : f[c] = i
  BY <1>8 DEF Surjection
<1>10. QED
  BY <1>2, <1>4, <1>9 DEF f

Starts(S, t) ==
  /\ DOMAIN t = 1..Cardinality(S)
  /\ \A i \in DOMAIN t : t[i].op = "Start" /\ t[i].c \in S
  /\ \A c, K : Num(t, {c}, K) = IF c \in S /\ "Start" \in K THEN 1 ELSE 0

LEMMA StartTasksOf ==
  ASSUME NEW S, IsFiniteSet(S), S \subseteq Contexts, S \subseteq Nat
  PROVE  StartTasks(S) \in Seq(Tasks) /\ Starts(S, StartTasks(S))
<1> DEFINE n == Cardinality(S)
           pick(i) == CHOOSE c \in S : Cardinality({d \in S : d <= c}) = i
           t == [i \in 1..n |-> Task("Start", pick(i), "")]
<1>1. n \in Nat
  BY FS_CardinalityType
<1>2. t = StartTasks(S)
  BY DEF StartTasks
<1>3. ASSUME NEW i \in 1..n PROVE pick(i) \in S /\ Cardinality(UpTo(S, pick(i))) = i
  <2>1. \E c \in S : Cardinality({d \in S : d <= c}) = i
    BY Ranks, ZenonT(30) DEF UpTo
  <2>2. QED
    BY <2>1 DEF UpTo
<1>4. ASSUME NEW c \in S
      PROVE  \E i \in 1..n : pick(i) = c /\ \A j \in 1..n : pick(j) = c => j = i
  <2> DEFINE i == Cardinality(UpTo(S, c))
  <2>1. i \in 1..n
    BY Ranks
  <2> HIDE DEF pick
  <2>2. pick(i) = c
    <3>1. pick(i) \in S /\ Cardinality(UpTo(S, pick(i))) = Cardinality(UpTo(S, c))
      BY <1>3, <2>1
    <3>2. QED
      BY <3>1, Ranks
  <2>3. \A j \in 1..n : pick(j) = c => j = i
    BY <1>3
  <2>4. QED
    BY <2>1, <2>2, <2>3
<1> HIDE DEF n, pick
<1>10. ASSUME NEW i \in 1..n
       PROVE  /\ Task("Start", pick(i), "").op = "Start" /\ Task("Start", pick(i), "").c = pick(i)
              /\ Task("Start", pick(i), "") \in Tasks
  <2>1. pick(i) \in Contexts
    BY <1>3
  <2>3. \A x \in Contexts : /\ Task("Start", x, "").op = "Start" /\ Task("Start", x, "").c = x
                            /\ Task("Start", x, "") \in Tasks
    BY DEF Task, Tasks, Ops, Args
  <2>4. QED
    BY <2>1, <2>3
<1>5. \A i \in 1..n : t[i].op = "Start" /\ t[i].c = pick(i)
                      /\ t[i] \in Tasks
  BY <1>10
<1>6. t \in Seq(Tasks) /\ DOMAIN t = 1..n
  <2>1. t \in [1..n -> Tasks]
    BY <1>5
  <2> HIDE DEF t
  <2>2. t \in UNION {[1..m -> Tasks] : m \in Nat}
    BY <1>1, <2>1
  <2>3. QED
    BY <2>1, <2>2, SeqDef
<1> HIDE DEF t
<1>7. ASSUME NEW c, NEW K PROVE Num(t, {c}, K) = IF c \in S /\ "Start" \in K THEN 1 ELSE 0
  <2>1. CASE c \in S /\ "Start" \in K
    <3>1. PICK i \in 1..n : pick(i) = c /\ \A j \in 1..n : pick(j) = c => j = i
      BY <1>4, <2>1
    <3>2. {j \in DOMAIN t : t[j].c \in {c} /\ t[j].op \in K} = {i}
      BY <1>5, <1>6, <2>1, <3>1
    <3>3. QED
      BY <2>1, <3>2, FS_Singleton DEF Num
  <2>2. CASE ~(c \in S /\ "Start" \in K)
    <3>1. {j \in DOMAIN t : t[j].c \in {c} /\ t[j].op \in K} = {}
      BY <1>3, <1>5, <1>6, <2>2
    <3>2. QED
      BY <2>2, <3>1, FS_EmptySet DEF Num
  <2>3. QED
    BY <2>1, <2>2
<1>8. QED
  BY <1>2, <1>3, <1>5, <1>6, <1>7 DEF Starts, n

---------------------------------------------------------------------------
(* Closure: the least set that has S and is closed under step.              *)

Grown(X, step) == X \cup UNION {step[c] : c \in X}
Reached(f, S, step, n) == f = [m \in 0..n |-> IF m = 0 THEN S ELSE Grown(f[m - 1], step)]

LEMMA ReachExists ==
  ASSUME NEW S, NEW step, NEW n \in Nat PROVE \E f : Reached(f, S, step, n)
<1> DEFINE T == {m \in Nat : \E f : Reached(f, S, step, m)}
<1>1. 0 \in T
  <2> DEFINE f == [m \in 0..0 |-> S]
  <2>1. Reached(f, S, step, 0)
    BY DEF Reached
  <2>2. QED
    BY <2>1
<1>2. ASSUME NEW m \in Nat, m \in T PROVE m + 1 \in T
  <2>1. PICK f : Reached(f, S, step, m)
    BY <1>2
  <2> DEFINE g == [k \in 0..(m + 1) |-> IF k = m + 1 THEN Grown(f[m], step) ELSE f[k]]
             h == [k \in 0..(m + 1) |-> IF k = 0 THEN S ELSE Grown(g[k - 1], step)]
  <2>2. ASSUME NEW k \in 0..(m + 1) PROVE g[k] = h[k]
    <3>1. CASE k = m + 1
      <4>1. k # 0 /\ k - 1 = m /\ m \in 0..(m + 1) /\ m # m + 1
        BY <3>1
      <4>2. g[m] = f[m]
        BY <4>1
      <4>3. g[k] = Grown(f[m], step)
        BY <3>1
      <4>4. h[k] = Grown(g[k - 1], step)
        BY <4>1
      <4>5. QED
        BY <4>1, <4>2, <4>3, <4>4
    <3>2. CASE k # m + 1
      <4>1. k \in 0..m
        BY <3>2
      <4>2. g[k] = f[k]
        BY <3>2
      <4>3. f[k] = IF k = 0 THEN S ELSE Grown(f[k - 1], step)
        BY <2>1, <4>1 DEF Reached
      <4>4. CASE k = 0
        BY <4>2, <4>3, <4>4
      <4>5. CASE k # 0
        <5>1. k - 1 \in 0..(m + 1) /\ k - 1 # m + 1
          BY <4>1, <4>5
        <5>2. g[k - 1] = f[k - 1]
          BY <5>1
        <5>3. h[k] = Grown(g[k - 1], step)
          BY <4>5
        <5>4. QED
          BY <4>2, <4>3, <4>5, <5>2, <5>3
      <4>6. QED
        BY <4>4, <4>5
    <3>3. QED
      BY <3>1, <3>2
  <2>3. g = h
    <3>1. DOMAIN g = DOMAIN h
      OBVIOUS
    <3> HIDE DEF g
    <3>2. g = [k \in 0..(m + 1) |-> g[k]]
      BY DEF g
    <3>3. QED
      BY <2>2, <3>2
  <2> HIDE DEF g
  <2>4. Reached(g, S, step, m + 1)
    BY <2>3 DEF Reached
  <2>5. QED
    BY <2>4
<1>3. Nat \subseteq T
  <2> HIDE DEF T
  <2>1. QED
    BY <1>1, <1>2, NatInduct
<1>4. QED
  BY <1>3

LEMMA ClosureReach ==
  ASSUME NEW S, NEW step, IsFiniteSet(Contexts)
  PROVE  \E f : /\ Closure(S, step) = f[Cardinality(Contexts)]
                /\ f[0] = S
                /\ \A n \in Nat : n + 1 <= Cardinality(Contexts) => f[n + 1] = Grown(f[n], step)
<1> DEFINE N == Cardinality(Contexts)
           f == CHOOSE f : f = [n \in 0..N |-> IF n = 0 THEN S
                                  ELSE f[n - 1] \cup UNION {step[c] : c \in f[n - 1]}]
<1>1. Closure(S, step) = f[N]
  BY DEF Closure
<1>2. N \in Nat
  BY FS_CardinalityType
<1>3. \E g : Reached(g, S, step, N)
  BY <1>2, ReachExists
<1>4. f = [n \in 0..N |-> IF n = 0 THEN S
                          ELSE f[n - 1] \cup UNION {step[c] : c \in f[n - 1]}]
  BY <1>3, Zenon DEF Reached, Grown
<1> HIDE DEF f, N
<1>5. f[0] = S
  BY <1>2, <1>4
<1>6. ASSUME NEW n \in Nat, n + 1 <= N PROVE f[n + 1] = Grown(f[n], step)
  <2>1. n + 1 \in 0..N /\ n + 1 # 0 /\ (n + 1) - 1 = n
    BY <1>2, <1>6
  <2>2. QED
    BY <1>4, <2>1 DEF Grown
<1>7. QED
  BY <1>1, <1>5, <1>6 DEF N

LEMMA ClosureLeast ==
  ASSUME NEW S, NEW step, IsFiniteSet(Contexts),
         NEW P, S \subseteq P, \A c \in P : step[c] \subseteq P
  PROVE  Closure(S, step) \subseteq P
<1> DEFINE N == Cardinality(Contexts)
<1>1. PICK f : /\ Closure(S, step) = f[N] /\ f[0] = S
               /\ \A n \in Nat : n + 1 <= N => f[n + 1] = Grown(f[n], step)
  BY ClosureReach
<1>2. N \in Nat
  BY FS_CardinalityType
<1> HIDE DEF N
<1> DEFINE T == {n \in Nat : n <= N => f[n] \subseteq P}
<1>3. 0 \in T
  BY <1>1
<1>4. ASSUME NEW n \in Nat, n \in T PROVE n + 1 \in T
  <2>1. SUFFICES ASSUME n + 1 <= N PROVE f[n + 1] \subseteq P
    OBVIOUS
  <2>2. f[n] \subseteq P /\ f[n + 1] = Grown(f[n], step)
    BY <1>1, <1>2, <1>4, <2>1
  <2>3. QED
    BY <2>2 DEF Grown
<1>5. Nat \subseteq T
  <2> HIDE DEF T
  <2>1. QED
    BY <1>3, <1>4, NatInduct
<1>6. QED
  BY <1>1, <1>2, <1>5

LEMMA ClosureClosed ==
  ASSUME NEW S, NEW step, IsFiniteSet(Contexts), S \subseteq Contexts, S # {},
         \A c \in Contexts : step[c] \subseteq Contexts
  PROVE  S \subseteq Closure(S, step) /\ \A c \in Closure(S, step) : step[c] \subseteq Closure(S, step)
<1> DEFINE N == Cardinality(Contexts)
<1>1. PICK f : /\ Closure(S, step) = f[N] /\ f[0] = S
               /\ \A n \in Nat : n + 1 <= N => f[n + 1] = Grown(f[n], step)
  BY ClosureReach
<1>2. N \in Nat
  BY FS_CardinalityType
<1> HIDE DEF N
<1> DEFINE T == {n \in Nat : n <= N => /\ S \subseteq f[n] /\ f[n] \subseteq Contexts
                                       /\ \/ Grown(f[n], step) = f[n]
                                          \/ Cardinality(f[n]) >= n + 1}
<1>3. 0 \in T
  <2>1. IsFiniteSet(S) /\ Cardinality(S) \in Nat /\ Cardinality(S) # 0
    BY FS_Subset, FS_CardinalityType, FS_EmptySet
  <2>2. QED
    BY <1>1, <2>1
<1>4. ASSUME NEW n \in Nat, n \in T PROVE n + 1 \in T
  <2>1. SUFFICES ASSUME n + 1 <= N
                 PROVE  /\ S \subseteq f[n + 1] /\ f[n + 1] \subseteq Contexts
                        /\ \/ Grown(f[n + 1], step) = f[n + 1]
                           \/ Cardinality(f[n + 1]) >= (n + 1) + 1
    OBVIOUS
  <2>2. /\ S \subseteq f[n] /\ f[n] \subseteq Contexts /\ f[n + 1] = Grown(f[n], step)
        /\ \/ Grown(f[n], step) = f[n]
           \/ Cardinality(f[n]) >= n + 1
    BY <1>1, <1>2, <1>4, <2>1
  <2>3. S \subseteq f[n + 1] /\ f[n + 1] \subseteq Contexts /\ f[n] \subseteq f[n + 1]
    BY <2>2 DEF Grown
  <2>4. CASE Grown(f[n], step) = f[n]
    BY <2>2, <2>3, <2>4
  <2>5. CASE Grown(f[n], step) # f[n]
    <3>1. f[n] # f[n + 1]
      BY <2>2, <2>5
    <3>2. IsFiniteSet(f[n + 1]) /\ f[n] \in SUBSET f[n + 1]
      BY <2>3, FS_Subset
    <3>3. Cardinality(f[n]) <= Cardinality(f[n + 1]) /\ Cardinality(f[n]) # Cardinality(f[n + 1])
          /\ IsFiniteSet(f[n])
      BY <3>1, <3>2, FS_Subset
    <3>4. Cardinality(f[n]) \in Nat /\ Cardinality(f[n + 1]) \in Nat
      BY <3>2, <3>3, FS_CardinalityType
    <3>5. QED
      BY <2>2, <2>3, <2>5, <3>3, <3>4
  <2>6. QED
    BY <2>4, <2>5
<1>5. Nat \subseteq T
  <2> HIDE DEF T
  <2>1. QED
    BY <1>3, <1>4, NatInduct
<1>6. /\ S \subseteq f[N] /\ f[N] \subseteq Contexts
      /\ Grown(f[N], step) = f[N] \/ Cardinality(f[N]) >= N + 1
  BY <1>2, <1>5
<1>7. Cardinality(f[N]) <= N /\ Cardinality(f[N]) \in Nat
  BY <1>6, FS_Subset, FS_CardinalityType DEF N
<1>8. Grown(f[N], step) = f[N]
  BY <1>2, <1>6, <1>7
<1>9. QED
  BY <1>1, <1>6, <1>8 DEF Grown

---------------------------------------------------------------------------
(* Types, without signs: what no guard has to be known for.                 *)

CtxType(C) ==
  [parent : Nat, slots : SUBSET Nat, key : Nat, window : 1..NumWindows, inputs : Nat,
   cached : SUBSET {"hit", "miss", "revalidate"}, state : States, preds : Int, chained : BOOLEAN,
   successors : [C -> Nat], fetches : Int, next : Int, revalidate : Int, revalidateOk : BOOLEAN,
   waits : BOOLEAN, nested : Int, slow : BOOLEAN, busy : BOOLEAN,
   place : {"none", "taken", "refused"}, spent : BOOLEAN, partitions : BOOLEAN, lock : BOOLEAN,
   repeated : Seq(C)]

TaskOf(C) == [op : Ops, c : C, arg : Args]
WaitOf(C) == [op : Resumptions, c : C, arg : {""}]
BudgetOf(C) == [contexts : 0..MaxContexts, loads : Int, bytes : Nat, entries : 0..MaxEntries,
                waiting : Seq(WaitOf(C))]

TypesOf(C) ==
  /\ ctx \in [C -> CtxType(C)]
  /\ tasks \in Seq(TaskOf(C))
  /\ asked \subseteq {"lookup", "lock", "rewrite"} \X C
  /\ loading \in [C -> Int]
  /\ \A k \in DOMAIN primary : primary[k] \in C \cup {NoContext}
  /\ \A c \in C : ctx[c].key \in DOMAIN primary
  /\ budget \in BudgetOf(C)
  /\ drv.detached \subseteq C
  /\ drv.waiting \in {"kNoWait", "kWaitForCompletion", "kWaitForCachedRender"}
  /\ drv.canRewrite \in BOOLEAN /\ drv.fully \in BOOLEAN /\ drv.reached \in BOOLEAN
  /\ html.window \in 1..NumWindows
  /\ rendered \subseteq C
  /\ disabled \subseteq Nat

\* The fixed parts of the contexts are those of a document.
Shapes ==
  \A c \in Contexts :
    /\ ctx[c].parent \in Contexts \cup {NoContext}
    /\ ctx[c].parent < c
    /\ IsFiniteSet(ctx[c].slots)
    /\ \A d \in Contexts : ctx[c].slots \cap ctx[d].slots # {} =>
         ctx[c].parent = ctx[d].parent /\ ctx[c].window = ctx[d].window
    /\ Chained(c) <=> Predecessors(ctx, c) # {}

Types == TypesOf(Contexts) /\ Shapes

LEMMA ShapesKept == ASSUME Shapes, Frame PROVE Shapes'
<1>1. Contexts' = Contexts
  BY DEF Frame, Contexts
<1>2. /\ \A c \in Contexts : ctx'[c].slots = ctx[c].slots /\ ctx'[c].parent = ctx[c].parent
      /\ \A c \in Contexts : ctx'[c].window = ctx[c].window /\ ctx'[c].chained = ctx[c].chained
      /\ DOMAIN ctx' = DOMAIN ctx /\ DOMAIN ctx = Contexts
  BY DEF Frame, Keeps, Contexts
<1>3. ASSUME NEW c \in Contexts, NEW d \in Contexts PROVE Links(ctx', c, d) = Links(ctx, c, d)
  BY <1>2 DEF Links
<1>4. ASSUME NEW d \in Contexts PROVE Predecessors(ctx', d) = Predecessors(ctx, d)
  BY <1>2, <1>3 DEF Predecessors
<1>5. QED
  BY <1>1, <1>2, <1>4 DEF Shapes, Chained

LEMMA TypesFrom ==
  ASSUME NEW C, TypesOf(C), Frame, Contexts = C,
         ctx' \in [C -> CtxType(C)],
         tasks' \in Seq(TaskOf(C)),
         asked' \subseteq {"lookup", "lock", "rewrite"} \X C,
         loading' \in [C -> Int],
         DOMAIN primary' = DOMAIN primary,
         \A k \in DOMAIN primary : primary'[k] \in C \cup {NoContext},
         budget' \in BudgetOf(C),
         drv'.detached \subseteq C,
         drv'.waiting \in {"kNoWait", "kWaitForCompletion", "kWaitForCachedRender"},
         drv'.canRewrite \in BOOLEAN, drv'.fully \in BOOLEAN, drv'.reached \in BOOLEAN,
         html'.window \in 1..NumWindows, rendered' \subseteq C, disabled' \subseteq Nat
  PROVE  TypesOf(C)'
<1>1. \A c \in C : ctx'[c].key = ctx[c].key
  BY DEF Frame, Keeps, Contexts
<1>2. QED
  BY <1>1 DEF TypesOf

\* The parts of the driver that the rewrite sequence leaves alone.
SameDriver ==
  /\ drv'.canRewrite = drv.canRewrite /\ drv'.fully = drv.fully /\ drv'.reached = drv.reached
  /\ drv'.waiting = drv.waiting /\ drv'.rewrites = drv.rewrites
  /\ drv'.detached \subseteq drv.detached

LEMMA SequenceDriver == ASSUME Records, RewriteSequence PROVE SameDriver
<1>1. ASSUME NEW e, DOMAIN e = DrvFields, drv' = SignalIfRequired(drv, e),
             e.canRewrite = drv.canRewrite, e.fully = drv.fully, e.reached = drv.reached,
             e.waiting = drv.waiting, e.rewrites = drv.rewrites, e.detached \subseteq drv.detached
      PROVE  SameDriver
  <2>1. \A f \in DrvFields \ {"woken"} : drv'[f] = e[f]
    BY <1>1, SignalKeeps
  <2>2. /\ drv'.canRewrite = e.canRewrite /\ drv'.fully = e.fully /\ drv'.reached = e.reached
        /\ drv'.waiting = e.waiting /\ drv'.rewrites = e.rewrites /\ drv'.detached = e.detached
    BY <2>1 DEF DrvFields
  <2>3. QED
    BY <1>1, <2>2 DEF SameDriver
<1>2. CASE drv' = drv
  BY <1>2 DEF SameDriver
<1>3. ASSUME NEW c, drv' = ReportSlow(c) PROVE SameDriver
  <2> DEFINE m == Cardinality(NewlySlow(c))
             e == [drv EXCEPT !.quick = @ - m]
  <2>1. drv' = drv \/ drv' = SignalIfRequired(drv, e)
    BY <1>3 DEF ReportSlow, ReportSlowRewrites
  <2> HIDE DEF m
  <2>2. /\ DOMAIN e = DrvFields /\ e.canRewrite = drv.canRewrite /\ e.fully = drv.fully
        /\ e.reached = drv.reached /\ e.waiting = drv.waiting /\ e.rewrites = drv.rewrites
        /\ e.detached = drv.detached
    BY DEF Records, DrvFields
  <2> HIDE DEF e
  <2>3. QED
    BY <1>1, <1>2, <2>1, <2>2
<1>4. CASE RewriteComplete
  <2> DEFINE c == Running
             e == IF c \in drv.initiated THEN CompleteAttached(c) ELSE CompleteDetached(c)
  <2>1. drv' = SignalIfRequired(drv, e)
    BY <1>4 DEF RewriteComplete
  <2> HIDE DEF c
  <2>2. /\ DOMAIN e = DrvFields /\ e.canRewrite = drv.canRewrite /\ e.fully = drv.fully
        /\ e.reached = drv.reached /\ e.waiting = drv.waiting /\ e.rewrites = drv.rewrites
        /\ e.detached \subseteq drv.detached
    BY DEF Records, DrvFields, RefKinds, CompleteAttached, CompleteDetached
  <2> HIDE DEF e
  <2>3. QED
    BY <1>1, <2>1, <2>2
<1>5. CASE DeleteRewriteContext
  <2> DEFINE a == [drv EXCEPT !.refs["deleting"] = @ - 1]
             r == IF Unreferenced(a.refs) THEN a.released + 1 ELSE a.released
             e == [a EXCEPT !.released = r]
  <2>1. drv' = SignalIfRequired(drv, e)
    BY <1>5 DEF DeleteRewriteContext, DropReference
  <2> HIDE DEF r
  <2>2. /\ DOMAIN e = DrvFields /\ e.canRewrite = drv.canRewrite /\ e.fully = drv.fully
        /\ e.reached = drv.reached /\ e.waiting = drv.waiting /\ e.rewrites = drv.rewrites
        /\ e.detached = drv.detached
    BY DEF Records, DrvFields
  <2> HIDE DEF e
  <2>3. QED
    BY <1>1, <2>1, <2>2
<1>6. CASE OutputCacheNotOk
  BY <1>3, <1>6 DEF OutputCacheNotOk
<1>7. CASE StartRepeated
  BY <1>2, <1>3, <1>7, ZenonT(30) DEF StartRepeated
<1>8. QED
  BY <1>2, <1>4, <1>5, <1>6, <1>7, ZenonT(30)
  DEF RewriteSequence, StartDisabled, StartRefused, StartPrimary,
     OutputCacheHit, OutputCacheMiss, LockFailed, FetchInputs, RevalidateInputs, ResourceFetchDone,
     ResourceRevalidateDone, StopForPageInputBytes, PartitionDone, StartNestedTasksImpl,
     RewriteDoneImpl, Finalize, RepeatedSuccess, RepeatedFailure, RetireNested
LEMMA Min2 ==
  ASSUME NEW a \in Int, NEW b \in Int
  PROVE  Min({a, b}) = IF a <= b THEN a ELSE b
<1>1. \E x \in {a, b} : \A y \in {a, b} : x <= y
  BY DEF Min
<1>2. Min({a, b}) \in {a, b} /\ \A y \in {a, b} : Min({a, b}) <= y
  BY <1>1 DEF Min
<1>3. QED
  BY <1>2

LEMMA HeadType ==
  ASSUME NEW C, tasks \in Seq(TaskOf(C)), tasks # <<>>
  PROVE  /\ Head(tasks) \in TaskOf(C) /\ Running \in C /\ Argument \in Args /\ Head(tasks).op \in Ops
         /\ Tail(tasks) \in Seq(TaskOf(C))
         /\ \A x \in TaskOf(C) : Call(x) \in Seq(TaskOf(C))
<1>1. Head(tasks) \in TaskOf(C) /\ Tail(tasks) \in Seq(TaskOf(C))
  BY HeadTailProperties
<1>2. \A x \in TaskOf(C) : <<x>> \o Tail(tasks) \in Seq(TaskOf(C))
  BY <1>1
<1>3. QED
  BY <1>1, <1>2 DEF TaskOf, Call, Running, Argument

LEMMA TaskIn ==
  ASSUME NEW C, NEW o \in Ops, NEW c \in C, NEW a \in Args
  PROVE  /\ Task(o, c, a) \in TaskOf(C)
         /\ Task(o, c, a).op = o /\ Task(o, c, a).c = c /\ Task(o, c, a).arg = a
  BY DEF Task, TaskOf

\* The operations and arguments.
LEMMA OpsArgs ==
  /\ "Start" \in Ops /\ "OutputCacheDone" \in Ops /\ "OutputCacheMiss" \in Ops
  /\ "LockFailed" \in Ops /\ "RevalidateInputs" \in Ops /\ "ResumeRevalidateInputs" \in Ops
  /\ "ResourceRevalidateDone" \in Ops /\ "FetchInputs" \in Ops /\ "ResumeFetchInputs" \in Ops
  /\ "ResourceFetchDone" \in Ops /\ "StopForPageInputBytes" \in Ops /\ "PartitionAsync" \in Ops
  /\ "StartNestedTasksImpl" \in Ops /\ "RewriteDoneImpl" \in Ops /\ "Finalize" \in Ops
  /\ "RepeatedSuccess" \in Ops /\ "RepeatedFailure" \in Ops /\ "Retire" \in Ops
  /\ "Delete" \in Ops
  /\ "" \in Args /\ "kRender" \in Args /\ "kDontRender" \in Args /\ "kRewriteOk" \in Args
  /\ "kTooBusy" \in Args /\ "same" \in Args /\ "failed" \in Args /\ "changed" \in Args
  BY DEF Ops, Args

LEMMA WaitIn ==
  ASSUME NEW C
  PROVE  /\ \A x \in WaitOf(C) : x \in TaskOf(C)
         /\ \A o \in Resumptions : \A c \in C : Task(o, c, "") \in WaitOf(C)
  BY DEF Task, TaskOf, WaitOf, Resumptions, Ops, Args

\* The ways in which the record of a context changes.
LEMMA CtxChanges ==
  ASSUME NEW C, NEW x \in CtxType(C)
  PROVE  /\ \A v \in States : [x EXCEPT !.state = v] \in CtxType(C)
         /\ \A v \in States, b \in BOOLEAN : [x EXCEPT !.state = v, !.busy = b] \in CtxType(C)
         /\ \A v \in States, b \in BOOLEAN : [x EXCEPT !.state = v, !.lock = b] \in CtxType(C)
         /\ \A v \in States, a, b \in BOOLEAN :
              [x EXCEPT !.state = v, !.partitions = a, !.busy = b] \in CtxType(C)
         /\ \A b \in BOOLEAN : [x EXCEPT !.partitions = b] \in CtxType(C)
         /\ \A b \in BOOLEAN : [x EXCEPT !.busy = b] \in CtxType(C)
         /\ \A b \in BOOLEAN : [x EXCEPT !.lock = b] \in CtxType(C)
         /\ \A b \in BOOLEAN : [x EXCEPT !.spent = b] \in CtxType(C)
         /\ [x EXCEPT !.slow = TRUE] \in CtxType(C)
         /\ \A n \in Int : [x EXCEPT !.revalidate = n] \in CtxType(C)
         /\ \A n \in Int : [x EXCEPT !.nested = n] \in CtxType(C)
         /\ \A n \in Int : [x EXCEPT !.fetches = n] \in CtxType(C)
         /\ \A n \in Int : [x EXCEPT !.next = n] \in CtxType(C)
         /\ \A n \in Int : [x EXCEPT !.preds = n] \in CtxType(C)
         /\ \A n, m \in Int : [x EXCEPT !.next = n, !.fetches = m] \in CtxType(C)
         /\ \A n, m \in Int : [x EXCEPT !.revalidate = n, !.fetches = m] \in CtxType(C)
         /\ \A n \in Int, b \in BOOLEAN : [x EXCEPT !.revalidate = n, !.revalidateOk = b] \in CtxType(C)
         /\ \A n \in Int, b \in BOOLEAN : [x EXCEPT !.fetches = n, !.revalidateOk = b] \in CtxType(C)
         /\ \A n \in Int, b \in BOOLEAN : [x EXCEPT !.waits = b, !.preds = n] \in CtxType(C)
         /\ \A n, m \in Int, b \in BOOLEAN :
              [x EXCEPT !.fetches = n, !.waits = b, !.preds = m] \in CtxType(C)
         /\ \A v \in States, p \in {"none", "taken", "refused"} :
              [x EXCEPT !.state = v, !.place = p] \in CtxType(C)
         /\ \A v \in States, f \in [C -> Nat] : [x EXCEPT !.state = v, !.successors = f] \in CtxType(C)
         /\ \A n \in Int, b \in BOOLEAN : [x EXCEPT !.nested = n, !.busy = b] \in CtxType(C)
         /\ \A s \in Seq(C) : [x EXCEPT !.repeated = s] \in CtxType(C)
<1>1. \A v \in States : [x EXCEPT !.state = v] \in CtxType(C)
  BY DEF CtxType
<1>2. \A v \in States, b \in BOOLEAN : [x EXCEPT !.state = v, !.busy = b] \in CtxType(C)
  BY DEF CtxType
<1>3. \A v \in States, b \in BOOLEAN : [x EXCEPT !.state = v, !.lock = b] \in CtxType(C)
  BY DEF CtxType
<1>4. \A v \in States, a, b \in BOOLEAN :
        [x EXCEPT !.state = v, !.partitions = a, !.busy = b] \in CtxType(C)
  BY DEF CtxType
<1>5. \A b \in BOOLEAN : [x EXCEPT !.partitions = b] \in CtxType(C)
  BY DEF CtxType
<1>6. \A b \in BOOLEAN : [x EXCEPT !.busy = b] \in CtxType(C)
  BY DEF CtxType
<1>7. \A b \in BOOLEAN : [x EXCEPT !.lock = b] \in CtxType(C)
  BY DEF CtxType
<1>8. \A b \in BOOLEAN : [x EXCEPT !.spent = b] \in CtxType(C)
  BY DEF CtxType
<1>9. [x EXCEPT !.slow = TRUE] \in CtxType(C)
  BY DEF CtxType
<1>10. \A n \in Int : [x EXCEPT !.revalidate = n] \in CtxType(C)
  BY DEF CtxType
<1>11. \A n \in Int : [x EXCEPT !.nested = n] \in CtxType(C)
  BY DEF CtxType
<1>12. \A n \in Int : [x EXCEPT !.fetches = n] \in CtxType(C)
  BY DEF CtxType
<1>13. \A n \in Int : [x EXCEPT !.next = n] \in CtxType(C)
  BY DEF CtxType
<1>14. \A n \in Int : [x EXCEPT !.preds = n] \in CtxType(C)
  BY DEF CtxType
<1>15. \A n, m \in Int : [x EXCEPT !.next = n, !.fetches = m] \in CtxType(C)
  BY DEF CtxType
<1>16. \A n, m \in Int : [x EXCEPT !.revalidate = n, !.fetches = m] \in CtxType(C)
  BY DEF CtxType
<1>17. \A n \in Int, b \in BOOLEAN : [x EXCEPT !.revalidate = n, !.revalidateOk = b] \in CtxType(C)
  BY DEF CtxType
<1>18. \A n \in Int, b \in BOOLEAN : [x EXCEPT !.fetches = n, !.revalidateOk = b] \in CtxType(C)
  BY DEF CtxType
<1>19. \A n \in Int, b \in BOOLEAN : [x EXCEPT !.waits = b, !.preds = n] \in CtxType(C)
  BY DEF CtxType
<1>20. \A n, m \in Int, b \in BOOLEAN :
        [x EXCEPT !.fetches = n, !.waits = b, !.preds = m] \in CtxType(C)
  BY DEF CtxType
<1>21. \A v \in States, p \in {"none", "taken", "refused"} :
        [x EXCEPT !.state = v, !.place = p] \in CtxType(C)
  BY DEF CtxType
<1>22. \A v \in States, f \in [C -> Nat] : [x EXCEPT !.state = v, !.successors = f] \in CtxType(C)
  BY DEF CtxType
<1>23. \A n \in Int, b \in BOOLEAN : [x EXCEPT !.nested = n, !.busy = b] \in CtxType(C)
  BY DEF CtxType
<1>24. \A s \in Seq(C) : [x EXCEPT !.repeated = s] \in CtxType(C)
  BY DEF CtxType
<1>25. QED
  BY <1>1, <1>2, <1>3, <1>4, <1>5, <1>6, <1>7, <1>8, <1>9, <1>10, <1>11, <1>12, <1>13, <1>14,
     <1>15, <1>16, <1>17, <1>18, <1>19, <1>20, <1>21, <1>22, <1>23, <1>24, ZenonT(30)

TypedStep(C) ==
  /\ ctx' \in [C -> CtxType(C)] /\ tasks' \in Seq(TaskOf(C))
  /\ asked' \subseteq {"lookup", "lock", "rewrite"} \X C
  /\ loading' \in [C -> Int]
  /\ DOMAIN primary' = DOMAIN primary
  /\ \A k \in DOMAIN primary : primary'[k] \in C \cup {NoContext}
  /\ budget' \in BudgetOf(C)
  /\ rendered' \subseteq C /\ disabled' \subseteq Nat

LEMMA OneTyped ==
  ASSUME NEW C, ctx \in [C -> CtxType(C)], NEW c \in C, NEW y \in CtxType(C)
  PROVE  [ctx EXCEPT ![c] = y] \in [C -> CtxType(C)]
  OBVIOUS

LEMMA MarkSlowTyped ==
  ASSUME NEW C, Contexts = C, ctx \in [C -> CtxType(C)], NEW c
  PROVE  MarkSlow(c) \in [C -> CtxType(C)]
<1>1. \A d \in C : [ctx[d] EXCEPT !.slow = TRUE] \in CtxType(C)
  BY CtxChanges, ZenonT(30)
<1>2. QED
  BY <1>1 DEF MarkSlow

LEMMA StartStepsTyped ==
  ASSUME NEW C, Contexts = C, TypesOf(C),
         StartDisabled \/ StartRefused \/ StartPrimary \/ StartRepeated
  PROVE  TypedStep(C)
<1> DEFINE c == Running
<1>1. AtHead("Start")
  BY ZenonT(30) DEF StartDisabled, StartRefused, StartPrimary, StartRepeated
<1>2. c \in C /\ Tail(tasks) \in Seq(TaskOf(C)) /\ \A x \in TaskOf(C) : Call(x) \in Seq(TaskOf(C))
  BY <1>1, HeadType DEF TypesOf, AtHead
<1>3. ctx[c] \in CtxType(C) /\ ctx[c].key \in DOMAIN primary
  BY <1>2 DEF TypesOf
<1>4. /\ \A y \in CtxType(C) : [ctx EXCEPT ![c] = y] \in [C -> CtxType(C)]
      /\ Task("Retire", c, "kDontRender") \in TaskOf(C)
      /\ Task("Retire", c, "kRender") \in TaskOf(C)
  BY <1>2 DEF TypesOf, Task, TaskOf, Ops, Args
<1>5. ASSUME TakeContext(c), HasPlace(c) PROVE budget' \in BudgetOf(C)
  <2> DEFINE k == IF ctx[c].place = "none" THEN budget.contexts + 1 ELSE budget.contexts
  <2>1. budget \in BudgetOf(C)
    BY DEF TypesOf
  <2>2. budget.contexts \in 0..MaxContexts
    BY <2>1 DEF BudgetOf
  <2>3. k \in 0..MaxContexts
    BY <1>5, <2>2, LimitsAssumption DEF HasPlace
  <2>4. budget' = [budget EXCEPT !.contexts = k]
    BY <1>5 DEF TakeContext
  <2> HIDE DEF k
  <2>5. QED
    BY <2>1, <2>3, <2>4 DEF BudgetOf
<1>6. "done" \in States /\ "started" \in States
  BY DEF States
<1> HIDE DEF c
<1>7. CASE StartDisabled
  <2>1. ctx' = [ctx EXCEPT ![c] = [ctx[c] EXCEPT !.state = "done"]]
        /\ tasks' = Call(Task("Retire", c, "kDontRender"))
    BY <1>7 DEF StartDisabled, c
  <2>2. ctx' \in [C -> CtxType(C)] /\ tasks' \in Seq(TaskOf(C))
    BY <1>2, <1>3, <1>4, <1>6, <2>1, CtxChanges, ZenonT(30)
  <2>3. QED
    BY <1>7, <2>2 DEF StartDisabled, TypesOf, TypedStep
<1>8. CASE StartRefused
  <2>1. ctx' = [ctx EXCEPT ![c] = [ctx[c] EXCEPT !.state = "done", !.busy = TRUE]]
        /\ tasks' = Call(Task("Retire", c, "kRender"))
    BY <1>3, <1>8, ZenonT(30) DEF StartRefused, c, TypesOf, CtxType
  <2>2. ctx' \in [C -> CtxType(C)] /\ tasks' \in Seq(TaskOf(C))
    BY <1>2, <1>3, <1>4, <1>6, <2>1, CtxChanges, ZenonT(30)
  <2>3. QED
    BY <1>8, <2>2 DEF StartRefused, TypesOf, TypedStep
<1>9. CASE StartPrimary
  <2>1. ctx' = [ctx EXCEPT ![c] = [ctx[c] EXCEPT !.state = "started"]] /\ tasks' = Tail(tasks)
        /\ asked' = asked \cup {<<"lookup", c>>} /\ primary' = [primary EXCEPT ![ctx[c].key] = c]
        /\ HasPlace(c) /\ TakeContext(c)
    BY <1>9 DEF StartPrimary, c
  <2>2. ctx' \in [C -> CtxType(C)] /\ tasks' \in Seq(TaskOf(C))
    BY <1>2, <1>3, <1>4, <1>6, <2>1, CtxChanges, ZenonT(30)
  <2>3. QED
    BY <1>2, <1>3, <1>5, <1>9, <2>1, <2>2 DEF StartPrimary, TypesOf, TypedStep
<1>10. CASE StartRepeated
  <2> DEFINE p == primary[ctx[c].key]
             g == IF ctx[p].slow THEN MarkSlow(c) ELSE ctx
  <2>1. /\ p # NoContext /\ HasPlace(c) /\ TakeContext(c)
        /\ \/ /\ ctx' = [ctx EXCEPT ![c] = [ctx[c] EXCEPT !.state = "done"]]
              /\ tasks' = Call(Task("Retire", c, "kRender"))
           \/ /\ ctx' = [g EXCEPT ![c].state = "started", ![p].repeated = Append(@, c)]
              /\ tasks' = Tail(tasks)
    BY <1>10, ZenonT(30) DEF StartRepeated, c
  <2>2. p \in C
    BY <1>3, <2>1 DEF TypesOf
  <2>3. g \in [C -> CtxType(C)]
    BY MarkSlowTyped DEF TypesOf
  <2> HIDE DEF p, g
  <2>4. [g EXCEPT ![c].state = "started", ![p].repeated = Append(@, c)] \in [C -> CtxType(C)]
    <3> DEFINE y == [g[c] EXCEPT !.state = "started"]
               f == [g EXCEPT ![c] = y]
               z == [f[p] EXCEPT !.repeated = Append(f[p].repeated, c)]
    <3>1. y \in CtxType(C)
      BY <1>2, <1>6, <2>3, CtxChanges, ZenonT(30)
    <3> HIDE DEF y
    <3>2. f \in [C -> CtxType(C)]
      BY <2>3, <3>1
    <3> HIDE DEF f
    <3>5. f[p] \in CtxType(C) /\ f[p].repeated \in Seq(C)
      BY <2>2, <3>2 DEF CtxType
    <3>3. z \in CtxType(C)
      BY <1>2, <3>5, CtxChanges, AppendProperties, ZenonT(30)
    <3> HIDE DEF z
    <3>4. [f EXCEPT ![p] = z] \in [C -> CtxType(C)]
      BY <3>2, <3>3, ZenonT(30)
    <3>6. QED
      BY <3>4 DEF y, f, z
  <2>5. ctx' \in [C -> CtxType(C)] /\ tasks' \in Seq(TaskOf(C))
    BY <1>2, <1>3, <1>4, <1>6, <2>1, <2>4, CtxChanges, ZenonT(30)
  <2>6. QED
    BY <1>5, <1>10, <2>1, <2>5, ZenonT(30) DEF StartRepeated, TypesOf, TypedStep
<1>11. QED
  BY <1>7, <1>8, <1>9, <1>10

LEMMA RunningTyped ==
  ASSUME NEW C, TypesOf(C), tasks # <<>>
  PROVE  /\ Running \in C /\ ctx[Running] \in CtxType(C) /\ ctx[Running].key \in DOMAIN primary
         /\ Tail(tasks) \in Seq(TaskOf(C)) /\ Argument \in Args /\ Head(tasks).op \in Ops
         /\ \A o \in Ops, a \in Args : Call(Task(o, Running, a)) \in Seq(TaskOf(C))
         /\ \A y \in CtxType(C) : [ctx EXCEPT ![Running] = y] \in [C -> CtxType(C)]
<1>1. /\ Running \in C /\ Tail(tasks) \in Seq(TaskOf(C)) /\ Argument \in Args /\ Head(tasks).op \in Ops
      /\ \A x \in TaskOf(C) : Call(x) \in Seq(TaskOf(C))
  BY HeadType DEF TypesOf
<1>2. \A o \in Ops, a \in Args : Task(o, Running, a) \in TaskOf(C)
  BY <1>1, TaskIn
<1>3. QED
  BY <1>1, <1>2, OneTyped DEF TypesOf

LEMMA CacheStepsTyped ==
  ASSUME NEW C, Contexts = C, TypesOf(C),
         \/ OutputCacheHit \/ OutputCacheNotOk \/ OutputCacheMiss \/ LockFailed
         \/ StopForPageInputBytes \/ PartitionDone \/ RewriteDoneImpl
  PROVE  TypedStep(C)
<1> DEFINE c == Running
<1>1. tasks # <<>>
  BY DEF OutputCacheHit, OutputCacheNotOk, OutputCacheMiss, LockFailed,
     StopForPageInputBytes, PartitionDone, RewriteDoneImpl, AtHead
<1>2. /\ c \in C /\ ctx[c] \in CtxType(C) /\ Tail(tasks) \in Seq(TaskOf(C))
      /\ \A o \in Ops, a \in Args : Call(Task(o, c, a)) \in Seq(TaskOf(C))
      /\ \A y \in CtxType(C) : [ctx EXCEPT ![c] = y] \in [C -> CtxType(C)]
  BY <1>1, RunningTyped
<1>3. /\ Call(Task("Finalize", c, "")) \in Seq(TaskOf(C))
      /\ Call(Task("OutputCacheMiss", c, "")) \in Seq(TaskOf(C))
      /\ Call(Task("LockFailed", c, "")) \in Seq(TaskOf(C))
      /\ Call(Task("RevalidateInputs", c, "")) \in Seq(TaskOf(C))
  BY <1>2 DEF Ops, Args
<1>4. ctx[c].busy \in BOOLEAN /\ ctx[c].slots \subseteq Nat
  BY <1>2 DEF CtxType
<1>5. /\ \A b \in BOOLEAN : [ctx EXCEPT ![c] = [ctx[c] EXCEPT !.busy = b]] \in [C -> CtxType(C)]
      /\ \A b \in BOOLEAN : [ctx EXCEPT ![c] = [ctx[c] EXCEPT !.partitions = b]] \in [C -> CtxType(C)]
  BY <1>2, CtxChanges, ZenonT(30)
<1>6. CASE OutputCacheHit
  <2>1. PICK b \in BOOLEAN, e \in MayDisable :
          /\ ctx' = [ctx EXCEPT ![c] = [ctx[c] EXCEPT !.partitions = b]]
          /\ disabled' = IF e THEN disabled \cup ctx[c].slots ELSE disabled
    BY <1>6 DEF OutputCacheHit
  <2>2. tasks' = Call(Task("Finalize", c, ""))
    BY <1>6 DEF OutputCacheHit
  <2> HIDE DEF c
  <2>3. QED
    BY <1>3, <1>4, <1>5, <1>6, <2>1, <2>2 DEF OutputCacheHit, TypesOf, TypedStep
<1>7. CASE OutputCacheNotOk
  <2> DEFINE g == MarkSlow(c)
  <2>1. g \in [C -> CtxType(C)]
    BY MarkSlowTyped DEF TypesOf
  <2>2. /\ \/ ctx' = g /\ tasks' = Call(Task("OutputCacheMiss", c, ""))
           \/ /\ \E n \in 1..ctx[c].inputs : ctx' = [g EXCEPT ![c] = [g[c] EXCEPT !.revalidate = n]]
              /\ tasks' = Call(Task("RevalidateInputs", c, ""))
    BY <1>7 DEF OutputCacheNotOk
  <2>10. disabled' = disabled \cup ctx[c].slots \/ disabled' = disabled
    BY <1>7 DEF OutputCacheNotOk
  <2> HIDE DEF g, c
  <2>3. \A n \in Int : [g[c] EXCEPT !.revalidate = n] \in CtxType(C)
    BY <1>2, <2>1, CtxChanges, ZenonT(30)
  <2>4. ctx[c].inputs \in Nat
    BY <1>2 DEF CtxType
  <2>7. \A n \in Int : [g EXCEPT ![c] = [g[c] EXCEPT !.revalidate = n]] \in [C -> CtxType(C)]
    BY <1>2, <2>1, <2>3
  <2>8. \A n \in 1..ctx[c].inputs : n \in Int
    BY <2>4
  <2>9. ctx' = g \/ \E n \in Int : ctx' = [g EXCEPT ![c] = [g[c] EXCEPT !.revalidate = n]]
    BY <2>2, <2>8, Zenon
  <2>5. ctx' \in [C -> CtxType(C)]
    BY <2>1, <2>7, <2>9, Zenon
  <2>6. QED
    BY <1>3, <1>4, <1>7, <2>2, <2>5, <2>10 DEF OutputCacheNotOk, TypesOf, TypedStep
<1>8. CASE OutputCacheMiss
  <2>1. ctx' = [ctx EXCEPT ![c] = [ctx[c] EXCEPT !.partitions = FALSE]]
        /\ \/ asked' = asked \cup {<<"lock", c>>} /\ tasks' = Tail(tasks)
           \/ asked' = asked /\ tasks' = Call(Task("LockFailed", c, ""))
    BY <1>8 DEF OutputCacheMiss
  <2> HIDE DEF c
  <2>2. ctx' \in [C -> CtxType(C)]
    BY <1>5, <2>1
  <2>3. tasks' \in Seq(TaskOf(C))
    BY <1>2, <1>3, <2>1
  <2>7. asked \subseteq {"lookup", "lock", "rewrite"} \X C
    BY DEF TypesOf
  <2>8. <<"lock", c>> \in {"lookup", "lock", "rewrite"} \X C
        /\ <<"rewrite", c>> \in {"lookup", "lock", "rewrite"} \X C
    BY <1>2
  <2>4. asked' \subseteq {"lookup", "lock", "rewrite"} \X C
    BY <2>1, <2>7, <2>8
  <2>5. UNCHANGED <<loading, primary, budget, drv, html, disabled, rendered>>
    BY <1>8 DEF OutputCacheMiss
  <2>6. QED
    BY <2>2, <2>3, <2>4, <2>5 DEF TypesOf, TypedStep
<1>9. CASE LockFailed \/ StopForPageInputBytes
  <2>1. ctx' = [ctx EXCEPT ![c] = [ctx[c] EXCEPT !.busy = TRUE]]
        /\ tasks' = Call(Task("Finalize", c, ""))
    BY <1>9 DEF LockFailed, StopForPageInputBytes
  <2> HIDE DEF c
  <2>2. QED
    BY <1>3, <1>5, <1>9, <2>1 DEF LockFailed, StopForPageInputBytes, TypesOf, TypedStep
<1>10. CASE PartitionDone
  <2>1. \/ /\ ctx' = [ctx EXCEPT ![c] = [ctx[c] EXCEPT !.partitions = TRUE]]
           /\ asked' = asked \cup {<<"rewrite", c>>} /\ tasks' = Tail(tasks)
        \/ /\ \E b \in BOOLEAN : ctx' = [ctx EXCEPT ![c] = [ctx[c] EXCEPT !.busy = b]]
           /\ tasks' = Call(Task("Finalize", c, "")) /\ asked' = asked
    BY <1>10 DEF PartitionDone
  <2> HIDE DEF c
  <2>2. ctx' \in [C -> CtxType(C)]
    BY <1>5, <2>1
  <2>3. tasks' \in Seq(TaskOf(C))
    BY <1>2, <1>3, <2>1
  <2>7. asked \subseteq {"lookup", "lock", "rewrite"} \X C
    BY DEF TypesOf
  <2>8. <<"lock", c>> \in {"lookup", "lock", "rewrite"} \X C
        /\ <<"rewrite", c>> \in {"lookup", "lock", "rewrite"} \X C
    BY <1>2
  <2>4. asked' \subseteq {"lookup", "lock", "rewrite"} \X C
    BY <2>1, <2>7, <2>8
  <2>5. UNCHANGED <<loading, primary, budget, drv, html, disabled, rendered>>
    BY <1>10 DEF PartitionDone
  <2>6. QED
    BY <2>2, <2>3, <2>4, <2>5 DEF TypesOf, TypedStep
<1>11. CASE RewriteDoneImpl
  <2> DEFINE b == ctx[c].busy \/ Argument = "kTooBusy"
  <2>1. ctx' = [ctx EXCEPT ![c] = [ctx[c] EXCEPT !.busy = b]]
        /\ tasks' = Call(Task("Finalize", c, ""))
    BY <1>11 DEF RewriteDoneImpl
  <2>2. b \in BOOLEAN
    BY <1>4
  <2> HIDE DEF c, b
  <2>3. ctx' \in [C -> CtxType(C)] /\ tasks' \in Seq(TaskOf(C))
    BY <1>3, <1>5, <2>1, <2>2
  <2>4. QED
    BY <1>11, <2>3 DEF RewriteDoneImpl, TypesOf, TypedStep
<1>12. QED
  BY <1>6, <1>7, <1>8, <1>9, <1>10, <1>11

LEMMA StartsTyped ==
  ASSUME NEW C, Contexts = C, Records, NEW S, S \subseteq C
  PROVE  StartTasks(S) \in Seq(TaskOf(C)) /\ Starts(S, StartTasks(S)) /\ IsFiniteSet(S)
<1>1. IsFiniteSet(S) /\ S \subseteq Contexts /\ S \subseteq Nat
  BY FS_Subset DEF Records
<1>2. Tasks = TaskOf(C)
  BY DEF Tasks, TaskOf
<1>3. QED
  BY <1>1, <1>2, StartTasksOf

LEMMA RunSuccessorsTyped ==
  ASSUME NEW C, Contexts = C, TypesOf(C), NEW c \in C
  PROVE  RunSuccessors(c) \in [C -> CtxType(C)] /\ Unblocked(c) \subseteq C
<1>1. /\ \A d \in C : ctx[d] \in CtxType(C)
      /\ \A d \in C : ctx[d].preds \in Int /\ ctx[d].successors \in [C -> Nat]
  BY ZenonT(30) DEF TypesOf, CtxType
<1> DEFINE z == [e \in C |-> 0]
           y == [ctx[c] EXCEPT !.state = "retired", !.successors = z]
           w(d) == ctx[d].preds - ctx[c].successors[d]
<1>2. z \in [C -> Nat] /\ "retired" \in States
  BY DEF States
<1> HIDE DEF z
<1>3. y \in CtxType(C)
  BY <1>1, <1>2, CtxChanges, ZenonT(30)
<1>4. ASSUME NEW d \in C PROVE [ctx[d] EXCEPT !.preds = w(d)] \in CtxType(C)
  <2>1. w(d) \in Int
    BY <1>1
  <2> HIDE DEF w
  <2>2. QED
    BY <1>1, <2>1, CtxChanges, ZenonT(30)
<1>5. RunSuccessors(c) = [d \in C |-> IF d = c THEN y ELSE [ctx[d] EXCEPT !.preds = w(d)]]
  BY DEF RunSuccessors, z
<1> HIDE DEF y, w
<1>6. QED
  BY <1>3, <1>4, <1>5 DEF Unblocked, Successors

LEMMA EndStepsTyped ==
  ASSUME NEW C, Contexts = C, TypesOf(C), Records, Shapes,
         \/ StartNestedTasksImpl \/ Finalize \/ RepeatedSuccess \/ RepeatedFailure
         \/ RetireNested \/ RewriteComplete \/ DeleteRewriteContext
  PROVE  TypedStep(C)
<1> DEFINE c == Running
<1>1. tasks # <<>>
  BY DEF StartNestedTasksImpl, Finalize, RepeatedSuccess, RepeatedFailure, RetireNested,
     RewriteComplete, DeleteRewriteContext, AtHead
<1>2. /\ c \in C /\ ctx[c] \in CtxType(C) /\ Tail(tasks) \in Seq(TaskOf(C))
      /\ ctx[c].key \in DOMAIN primary
      /\ \A o \in Ops, a \in Args : Call(Task(o, c, a)) \in Seq(TaskOf(C))
      /\ \A y \in CtxType(C) : [ctx EXCEPT ![c] = y] \in [C -> CtxType(C)]
  BY <1>1, RunningTyped
<1>3. Call(Task("Retire", c, "kRender")) \in Seq(TaskOf(C)) /\ Task("Delete", c, "") \in TaskOf(C)
  BY <1>2, TaskIn, OpsArgs
<1>4. /\ "done" \in States /\ "deleted" \in States /\ ctx[c].slots \subseteq Nat
      /\ ctx[c].repeated \in Seq(C)
  BY <1>2 DEF States, CtxType
<1>5. CASE StartNestedTasksImpl
  <2> DEFINE S == {d \in Children(c) : ~Chained(d)}
  <2>1. S \subseteq C
    BY DEF Children
  <2>2. tasks' = StartTasks(S) \o Tail(tasks)
    BY <1>5 DEF StartNestedTasksImpl
  <2> HIDE DEF S, c
  <2>3. tasks' \in Seq(TaskOf(C))
    BY <1>2, <2>1, <2>2, StartsTyped, ConcatProperties
  <2>4. QED
    BY <1>5, <2>3 DEF StartNestedTasksImpl, TypesOf, TypedStep
<1>6. CASE Finalize
  <2> DEFINE o == IF ctx[c].partitions THEN "RepeatedSuccess" ELSE "RepeatedFailure"
             s == ctx[c].repeated
             a == [i \in DOMAIN s |-> Task(o, s[i], "")]
             b == <<Task("Retire", c, "kRender")>> \o Tail(tasks)
  <2>1. ctx' = [ctx EXCEPT ![c] = [ctx[c] EXCEPT !.state = "done", !.lock = FALSE]]
    BY <1>2, <1>6 DEF Finalize, TypesOf, CtxType
  <2>2. tasks' = a \o <<Task("Retire", c, "kRender")>> \o Tail(tasks)
    BY <1>6 DEF Finalize
  <2>3. a \in Seq(TaskOf(C))
    <3>1. o \in Ops /\ "" \in Args
      BY DEF Ops, Args
    <3> HIDE DEF o, s
    <3>2. s \in Seq(C) /\ DOMAIN s = 1..Len(s) /\ Len(s) \in Nat /\ \A i \in DOMAIN s : s[i] \in C
      BY <1>4, LenProperties, ElementOfSeq DEF s
    <3>3. \A i \in DOMAIN s : Task(o, s[i], "") \in TaskOf(C)
      BY <3>1, <3>2, TaskIn
    <3>4. a \in [1..Len(s) -> TaskOf(C)]
      BY <3>2, <3>3
    <3> HIDE DEF a
    <3>5. QED
      BY <3>2, <3>4, SeqDef
  <2>5. Task("Retire", c, "kRender") \in TaskOf(C)
    BY <1>2, TaskIn, OpsArgs
  <2> HIDE DEF a, c
  <2>6. tasks' \in Seq(TaskOf(C))
    BY <1>2, <2>2, <2>3, <2>5
  <2>4. ctx' \in [C -> CtxType(C)]
    BY <1>2, <1>4, <2>1, CtxChanges, ZenonT(30)
  <2>7. QED
    BY <1>6, <2>4, <2>6 DEF Finalize, TypesOf, TypedStep
<1>7. CASE RepeatedSuccess
  <2> DEFINE f == budget.entries < MaxEntries
             p == primary[ctx[c].key]
             v == ~f \/ ctx[p].busy
             k == IF f THEN budget.entries + 1 ELSE budget.entries
  <2>1. /\ ctx' = [ctx EXCEPT ![c] = [ctx[c] EXCEPT !.state = "done", !.partitions = f, !.busy = v]]
        /\ tasks' = Call(Task("Retire", c, "kRender"))
    BY <1>2, <1>7 DEF RepeatedSuccess, TypesOf, CtxType
  <2>2. budget' = [budget EXCEPT !.entries = k]
    BY <1>7 DEF RepeatedSuccess
  <2>3. disabled' = disabled \cup ctx[c].slots \/ disabled' = disabled
    BY <1>7 DEF RepeatedSuccess
  <2>4. f \in BOOLEAN /\ v \in BOOLEAN
    OBVIOUS
  <2>5. budget \in BudgetOf(C)
    BY DEF TypesOf
  <2>6. budget.entries \in 0..MaxEntries
    BY <2>5 DEF BudgetOf
  <2>7. k \in 0..MaxEntries
    BY <2>6, LimitsAssumption
  <2> HIDE DEF k, f, v, p, c
  <2>8. budget' \in BudgetOf(C)
    BY <2>2, <2>5, <2>7 DEF BudgetOf
  <2>9. ctx' \in [C -> CtxType(C)] /\ tasks' \in Seq(TaskOf(C))
    BY <1>2, <1>3, <1>4, <2>1, <2>4, CtxChanges, ZenonT(30)
  <2>10. UNCHANGED <<asked, loading, primary, drv, html, rendered>>
    BY <1>7 DEF RepeatedSuccess
  <2>11. QED
    BY <1>4, <2>3, <2>8, <2>9, <2>10 DEF TypesOf, TypedStep
<1>8. CASE RepeatedFailure
  <2>1. /\ ctx' = [ctx EXCEPT ![c] = [ctx[c] EXCEPT !.state = "done"]]
        /\ tasks' = Call(Task("Retire", c, "kRender"))
    BY <1>8 DEF RepeatedFailure
  <2> HIDE DEF c
  <2>2. ctx' \in [C -> CtxType(C)] /\ tasks' \in Seq(TaskOf(C))
    BY <1>2, <1>3, <1>4, <2>1, CtxChanges, ZenonT(30)
  <2>3. QED
    BY <1>8, <2>2 DEF RepeatedFailure, TypesOf, TypedStep
<1>9. /\ RunSuccessors(c) \in [C -> CtxType(C)]
      /\ Tail(tasks) \o StartTasks(Unblocked(c)) \in Seq(TaskOf(C))
  BY <1>2, RunSuccessorsTyped, StartsTyped, ConcatProperties
<1>10. ASSUME Deregister(c)
       PROVE  /\ DOMAIN primary' = DOMAIN primary
              /\ \A k \in DOMAIN primary : primary'[k] \in C \cup {NoContext}
  BY <1>10 DEF Deregister, TypesOf
<1>11. CASE RetireNested
  <2> DEFINE p == ctx[c].parent
             g == RunSuccessors(c)
             r == Tail(tasks) \o StartTasks(Unblocked(c))
             n == g[p].nested - 1
             b == g[p].busy \/ ctx[c].busy
  <2>1. /\ ctx' = [g EXCEPT ![p].nested = @ - 1, ![p].busy = @ \/ ctx[c].busy]
        /\ tasks' = Append(r, Task("RewriteDoneImpl", p, "kRewriteOk")) \/ tasks' = r
        /\ Deregister(c) /\ ctx[c].parent # NoContext
    BY <1>11 DEF RetireNested, Top
  <2>2. p \in C
    BY <1>2, <2>1 DEF Shapes
  <2>3. Task("RewriteDoneImpl", p, "kRewriteOk") \in TaskOf(C)
    BY <2>2, TaskIn, OpsArgs
  <2>4. g \in [C -> CtxType(C)] /\ r \in Seq(TaskOf(C))
    BY <1>9
  <2>5. g[p] \in CtxType(C) /\ n \in Int /\ b \in BOOLEAN
    <3> HIDE DEF g, p, c
    <3>1. g[p] \in CtxType(C)
      BY <2>2, <2>4
    <3>2. g[p].nested \in Int /\ g[p].busy \in BOOLEAN /\ ctx[c].busy \in BOOLEAN
      BY <1>2, <3>1 DEF CtxType
    <3>3. QED
      BY <3>1, <3>2
  <2>6. ctx' = [g EXCEPT ![p] = [g[p] EXCEPT !.nested = n, !.busy = b]]
    <3> HIDE DEF g, p, c
    <3>1. QED
      BY <2>1, <2>2, <2>4 DEF CtxType
  <2> HIDE DEF g, r, p, n, b, c
  <2>7. tasks' \in Seq(TaskOf(C))
    BY <2>1, <2>3, <2>4, AppendProperties
  <2>8. ctx' \in [C -> CtxType(C)]
    BY <2>2, <2>4, <2>5, <2>6, CtxChanges, ZenonT(30)
  <2>9. QED
    BY <1>10, <1>11, <2>1, <2>7, <2>8 DEF RetireNested, TypesOf, TypedStep
<1>12. CASE RewriteComplete
  <2> DEFINE r == Tail(tasks) \o StartTasks(Unblocked(c))
  <2>1. /\ ctx' = RunSuccessors(c) /\ tasks' = r \o <<Task("Delete", c, "")>> /\ Deregister(c)
        /\ rendered' \subseteq rendered \cup {c}
    BY <1>12 DEF RewriteComplete
  <2>2. r \in Seq(TaskOf(C))
    BY <1>9
  <2> HIDE DEF r, c
  <2>7. \A x \in TaskOf(C) : <<x>> \in Seq(TaskOf(C))
    OBVIOUS
  <2>6. <<Task("Delete", c, "")>> \in Seq(TaskOf(C))
    BY <1>3, <2>7
  <2>3. tasks' \in Seq(TaskOf(C))
    BY <2>1, <2>2, <2>6, ConcatProperties
  <2>4. UNCHANGED <<asked, loading, budget, html, disabled>>
    BY <1>12 DEF RewriteComplete
  <2>5. QED
    BY <1>2, <1>9, <1>10, <2>1, <2>3, <2>4 DEF TypesOf, TypedStep
<1>13. CASE DeleteRewriteContext
  <2>1. PICK S : ctx' = [d \in C |-> IF d \in S THEN [ctx[d] EXCEPT !.state = "deleted"] ELSE ctx[d]]
    BY <1>13, ZenonT(30) DEF DeleteRewriteContext
  <2>2. \A d \in C : ctx[d] \in CtxType(C) /\ [ctx[d] EXCEPT !.state = "deleted"] \in CtxType(C)
    BY <1>4, CtxChanges, ZenonT(30) DEF TypesOf
  <2>3. ctx' \in [C -> CtxType(C)]
    BY <2>1, <2>2
  <2>4. QED
    BY <1>2, <1>13, <2>3 DEF DeleteRewriteContext, TypesOf, TypedStep
<1>14. QED
  BY <1>5, <1>6, <1>7, <1>8, <1>11, <1>12, <1>13

LEMMA PopTyped ==
  ASSUME NEW C, NEW b \in BudgetOf(C), NEW t \in Seq(TaskOf(C))
  PROVE  PopWaiting(b, t).budget \in BudgetOf(C) /\ PopWaiting(b, t).tasks \in Seq(TaskOf(C))
<1>1. b.waiting \in Seq(WaitOf(C))
  BY DEF BudgetOf
<1>2. CASE b.waiting = <<>> \/ b.loads >= MaxLoads
  <2>1. PopWaiting(b, t) = [budget |-> b, tasks |-> t]
    BY <1>2 DEF PopWaiting
  <2>2. QED
    BY <2>1
<1>3. CASE ~(b.waiting = <<>> \/ b.loads >= MaxLoads)
  <2> DEFINE w == Tail(b.waiting)
             x == Head(b.waiting)
             e == [b EXCEPT !.waiting = w]
             s == Append(t, x)
  <2>1. PopWaiting(b, t) = [budget |-> e, tasks |-> s]
    BY <1>3 DEF PopWaiting
  <2>2. w \in Seq(WaitOf(C)) /\ x \in WaitOf(C)
    BY <1>1, <1>3, HeadTailProperties
  <2>3. x \in TaskOf(C)
    BY <2>2, WaitIn
  <2> HIDE DEF w, x
  <2>4. e \in BudgetOf(C)
    BY <2>2 DEF BudgetOf
  <2>5. s \in Seq(TaskOf(C))
    BY <2>3, AppendProperties
  <2> HIDE DEF e, s
  <2>6. QED
    BY <2>1, <2>4, <2>5
<1>4. QED
  BY <1>2, <1>3

LEMMA LoadStepsTyped ==
  ASSUME NEW C, Contexts = C, TypesOf(C),
         FetchInputs \/ RevalidateInputs \/ ResourceFetchDone \/ ResourceRevalidateDone
  PROVE  TypedStep(C)
<1> DEFINE c == Running
<1>1. tasks # <<>>
  BY DEF FetchInputs, RevalidateInputs, ResourceFetchDone, ResourceRevalidateDone, AtHead
<1>2. /\ c \in C /\ ctx[c] \in CtxType(C) /\ Tail(tasks) \in Seq(TaskOf(C))
      /\ \A y \in CtxType(C) : [ctx EXCEPT ![c] = y] \in [C -> CtxType(C)]
  BY <1>1, RunningTyped
<1>3. ASSUME NEW o \in Ops PROVE Task(o, c, "") \in TaskOf(C)
  BY <1>2, TaskIn, OpsArgs
<1>4. \A r : Resumed(c, r) \in CtxType(C)
  <2> DEFINE n == ctx[c].preds - 1
  <2>1. n \in Int
    BY <1>2 DEF CtxType
  <2>2. \A r : Resumed(c, r) = ctx[c] \/ Resumed(c, r) = [ctx[c] EXCEPT !.waits = FALSE, !.preds = n]
    BY DEF Resumed
  <2> HIDE DEF n
  <2>3. [ctx[c] EXCEPT !.waits = FALSE, !.preds = n] \in CtxType(C)
    BY <1>2, <2>1, CtxChanges, ZenonT(30)
  <2>4. QED
    BY <1>2, <2>2, <2>3
<1>5. budget \in BudgetOf(C) /\ budget.loads \in Int /\ MaxLoads \in Int /\ Room \in Int
  BY LimitsAssumption DEF TypesOf, BudgetOf, Room
<1>6. loading \in [C -> Int]
  BY DEF TypesOf
<1>7. PassTurn.budget \in BudgetOf(C) /\ PassTurn.tasks \in Seq(TaskOf(C))
  BY <1>2, <1>5, PopTyped DEF PassTurn
<1>8. ASSUME NEW x \in CtxType(C), NEW t \in Seq(TaskOf(C)), Activate(c, x, t)
      PROVE  ctx' \in [C -> CtxType(C)] /\ tasks' \in Seq(TaskOf(C))
  <2> HIDE DEF c
  <2>6. \A x1 \in TaskOf(C) : <<x1>> \o t \in Seq(TaskOf(C))
    BY <1>8
  <2>1. \A o \in Ops : <<Task(o, c, "")>> \o t \in Seq(TaskOf(C))
    BY <1>3, <2>6
  <2>2. ctx' = [ctx EXCEPT ![c] = x]
        /\ \/ tasks' = t
           \/ tasks' = <<Task("StopForPageInputBytes", c, "")>> \o t
           \/ tasks' = <<Task("PartitionAsync", c, "")>> \o t
    BY <1>8 DEF Activate
  <2>3. QED
    BY <1>2, <1>8, <2>1, <2>2, OpsArgs
<1>9. ASSUME NEW x \in CtxType(C), NEW t \in Seq(TaskOf(C)), FinishRevalidation(c, x, t)
      PROVE  ctx' \in [C -> CtxType(C)] /\ tasks' \in Seq(TaskOf(C))
  <2> HIDE DEF c
  <2> DEFINE b == x.fetches = 0 /\ x.revalidateOk
  <2>6. \A x1 \in TaskOf(C) : <<x1>> \o t \in Seq(TaskOf(C))
    BY <1>9
  <2>1. \A o \in Ops : <<Task(o, c, "")>> \o t \in Seq(TaskOf(C))
    BY <1>3, <2>6
  <2>2. ctx' = [ctx EXCEPT ![c] = [x EXCEPT !.partitions = b]]
        /\ \/ tasks' = t
           \/ tasks' = <<Task("Finalize", c, "")>> \o t
           \/ tasks' = <<Task("OutputCacheMiss", c, "")>> \o t
    BY <1>9 DEF FinishRevalidation
  <2>4. b \in BOOLEAN
    OBVIOUS
  <2> HIDE DEF b
  <2>5. [x EXCEPT !.partitions = b] \in CtxType(C)
    BY <1>9, <2>4, CtxChanges, ZenonT(30)
  <2>3. QED
    BY <1>2, <1>9, <2>1, <2>2, <2>5, OpsArgs
<1>10. ASSUME NEW n \in Int, StartLoads(c, n)
       PROVE  loading' \in [C -> Int] /\ budget' \in BudgetOf(C)
  <2> HIDE DEF c
  <2> DEFINE m == loading[c] + n
             l == budget.loads + n
  <2>1. loading' = [loading EXCEPT ![c] = m] /\ budget' = [budget EXCEPT !.loads = l]
    BY <1>10 DEF StartLoads
  <2>2. m \in Int /\ l \in Int
    BY <1>2, <1>5, <1>6, <1>10
  <2> HIDE DEF m, l
  <2>3. QED
    BY <1>5, <1>6, <2>1, <2>2 DEF BudgetOf
<1>11. ASSUME NEW x \in CtxType(C), NEW n \in Int, NEW r \in Resumptions, LoadAndWait(c, x, n, r)
       PROVE  /\ loading' \in [C -> Int] /\ budget' \in BudgetOf(C)
              /\ ctx' \in [C -> CtxType(C)] /\ tasks' \in Seq(TaskOf(C))
  <2> HIDE DEF c
  <2> DEFINE m == loading[c] + n
             l == budget.loads + n
             w == Append(budget.waiting, Task(r, c, ""))
             f == x.fetches + n
             p == x.preds + 1
  <2>1. /\ loading' = [loading EXCEPT ![c] = m]
        /\ budget' = [budget EXCEPT !.loads = l, !.waiting = w]
        /\ ctx' = [ctx EXCEPT ![c] = [x EXCEPT !.fetches = f, !.waits = TRUE, !.preds = p]]
        /\ tasks' = Tail(tasks)
    BY <1>11 DEF LoadAndWait
  <2>2. m \in Int /\ l \in Int
    BY <1>2, <1>5, <1>6, <1>11
  <2>3. f \in Int /\ p \in Int
    BY <1>11 DEF CtxType
  <2>4. w \in Seq(WaitOf(C))
    <3>1. budget.waiting \in Seq(WaitOf(C)) /\ Task(r, c, "") \in WaitOf(C)
      BY <1>2, <1>5, <1>11, WaitIn DEF BudgetOf
    <3>2. QED
      BY <3>1, AppendProperties
  <2> HIDE DEF m, l, w, f, p
  <2>5. budget' \in BudgetOf(C)
    BY <1>5, <2>1, <2>2, <2>4, ZenonT(30) DEF BudgetOf
  <2>6. [x EXCEPT !.fetches = f, !.waits = TRUE, !.preds = p] \in CtxType(C)
    BY <1>11, <2>3, CtxChanges, ZenonT(30)
  <2>7. QED
    BY <1>2, <1>6, <2>1, <2>2, <2>5, <2>6
<1>12. ASSUME ctx' \in [C -> CtxType(C)], tasks' \in Seq(TaskOf(C)), loading' \in [C -> Int],
              budget' \in BudgetOf(C), UNCHANGED <<asked, primary, drv, html, disabled, rendered>>
       PROVE  TypedStep(C)
  BY <1>12 DEF TypesOf, TypedStep
<1>13. CASE FetchInputs
  <2> DEFINE x == Resumed(c, "ResumeFetchInputs")
             need(found) == x.inputs - x.next - found
             n(found) == Min({need(found), Room})
             b(found) == need(found) > 0
             Stops(found) == [x EXCEPT !.spent = b(found)]
             Loads(found) == [x EXCEPT !.next = @ + found + n(found), !.fetches = @ + n(found)]
             Advances(found) == [x EXCEPT !.next = @ + found + n(found)]
  <2>1. PICK found \in 0..(x.inputs - x.next) :
          \/ /\ Activate(c, Stops(found), PassTurn.tasks)
             /\ budget' = PassTurn.budget /\ loading' = loading
          \/ StartLoads(c, n(found)) /\ Activate(c, Loads(found), Tail(tasks))
          \/ LoadAndWait(c, Advances(found), n(found), "ResumeFetchInputs")
    BY <1>13, Zenon DEF FetchInputs
  <2>2. x \in CtxType(C)
    BY <1>4
  <2> HIDE DEF x, c
  <2>3. x.inputs \in Int /\ x.next \in Int /\ x.fetches \in Int
    BY <2>2 DEF CtxType
  <2>4. found \in Int
    BY <2>3
  <2>5. need(found) \in Int
    BY <2>3, <2>4
  <2> HIDE DEF need
  <2>6. n(found) \in Int
    BY <1>5, <2>5, Min2
  <2>12. b(found) \in BOOLEAN
    OBVIOUS
  <2> HIDE DEF n, b
  <2>7. /\ Stops(found) \in CtxType(C) /\ Loads(found) \in CtxType(C) /\ Advances(found) \in CtxType(C)
    <3>1. x.next + found + n(found) \in Int /\ x.fetches + n(found) \in Int
      BY <2>3, <2>4, <2>6
    <3>2. QED
      BY <2>2, <2>12, <3>1, CtxChanges, ZenonT(30)
  <2> HIDE DEF Stops, Loads, Advances
  <2>8. UNCHANGED <<asked, primary, drv, html, disabled, rendered>>
    BY <1>13 DEF FetchInputs
  <2>9. "ResumeFetchInputs" \in Resumptions
    BY DEF Resumptions
  <2>10. ctx' \in [C -> CtxType(C)] /\ tasks' \in Seq(TaskOf(C)) /\ loading' \in [C -> Int]
         /\ budget' \in BudgetOf(C)
    BY <1>2, <1>6, <1>7, <1>8, <1>10, <1>11, <2>1, <2>6, <2>7, <2>9
  <2>11. QED
    BY <1>12, <2>8, <2>10
<1>14. CASE RevalidateInputs
  <2> DEFINE x == Resumed(c, "ResumeRevalidateInputs")
             n == Min({x.revalidate, Room})
             Stops == [x EXCEPT !.revalidate = 0, !.revalidateOk = FALSE]
             f == x.fetches + n
             m == x.revalidate - n
             Loads == [x EXCEPT !.revalidate = 0, !.fetches = f]
             Advances == [x EXCEPT !.revalidate = m]
  <2>1. \/ /\ FinishRevalidation(c, Stops, PassTurn.tasks)
           /\ budget' = PassTurn.budget /\ loading' = loading
        \/ StartLoads(c, n) /\ FinishRevalidation(c, Loads, Tail(tasks))
        \/ LoadAndWait(c, Advances, n, "ResumeRevalidateInputs")
    BY <1>14, Zenon DEF RevalidateInputs
  <2>2. x \in CtxType(C)
    BY <1>4
  <2> HIDE DEF x, c
  <2>3. x.revalidate \in Int /\ x.fetches \in Int
    BY <2>2 DEF CtxType
  <2>6. n \in Int
    BY <1>5, <2>3, Min2
  <2> HIDE DEF n
  <2>7. Stops \in CtxType(C) /\ Loads \in CtxType(C) /\ Advances \in CtxType(C)
    <3>1. m \in Int /\ f \in Int
      BY <2>3, <2>6
    <3> HIDE DEF m, f
    <3>2. \A k \in Int, j \in Int, b \in BOOLEAN :
            /\ [x EXCEPT !.revalidate = k, !.revalidateOk = b] \in CtxType(C)
            /\ [x EXCEPT !.revalidate = k, !.fetches = j] \in CtxType(C)
            /\ [x EXCEPT !.revalidate = k] \in CtxType(C)
      BY <2>2, CtxChanges, ZenonT(30)
    <3>7. 0 \in Int /\ FALSE \in BOOLEAN
      OBVIOUS
    <3>3. Stops \in CtxType(C)
      BY <3>2, <3>7, Zenon
    <3>4. Loads \in CtxType(C)
      BY <3>1, <3>2, <3>7, Zenon
    <3>5. Advances \in CtxType(C)
      BY <3>1, <3>2
    <3>6. QED
      BY <3>3, <3>4, <3>5
  <2> HIDE DEF Stops, Loads, Advances
  <2>8. UNCHANGED <<asked, primary, drv, html, disabled, rendered>>
    BY <1>14 DEF RevalidateInputs
  <2>9. "ResumeRevalidateInputs" \in Resumptions
    BY DEF Resumptions
  <2>10. ctx' \in [C -> CtxType(C)] /\ tasks' \in Seq(TaskOf(C)) /\ loading' \in [C -> Int]
         /\ budget' \in BudgetOf(C)
    BY <1>2, <1>6, <1>7, <1>9, <1>10, <1>11, <2>1, <2>6, <2>7, <2>9
  <2>11. QED
    BY <1>12, <2>8, <2>10
<1>15. /\ InputLoadDone(Argument).budget \in BudgetOf(C)
       /\ InputLoadDone(Argument).tasks \in Seq(TaskOf(C))
  <2> DEFINE l == budget.loads - 1
             k == IF Argument = "failed" THEN budget.bytes ELSE budget.bytes + 1
             b == [budget EXCEPT !.loads = l, !.bytes = k]
  <2>1. l \in Int /\ k \in Nat
    BY <1>5 DEF BudgetOf
  <2>2. InputLoadDone(Argument) = PopWaiting(b, Tail(tasks))
    BY <1>5 DEF InputLoadDone, BudgetOf
  <2> HIDE DEF l, k
  <2>3. b \in BudgetOf(C)
    BY <1>5, <2>1 DEF BudgetOf
  <2> HIDE DEF b
  <2>4. QED
    BY <1>2, <2>2, <2>3, PopTyped
<1>16. ctx[c].fetches \in Int /\ ctx[c].revalidateOk \in BOOLEAN
  BY <1>2 DEF CtxType
<1>17. CASE ResourceFetchDone
  <2> DEFINE f == ctx[c].fetches - 1
             y == [ctx[c] EXCEPT !.fetches = f]
  <2>1. Activate(c, y, InputLoadDone(Argument).tasks) /\ budget' = InputLoadDone(Argument).budget
        /\ UNCHANGED <<asked, loading, primary, drv, html, disabled, rendered>>
    BY <1>17 DEF ResourceFetchDone
  <2>5. f \in Int
    BY <1>16
  <2> HIDE DEF f
  <2>2. y \in CtxType(C)
    BY <1>2, <2>5, CtxChanges, ZenonT(30)
  <2> HIDE DEF y, c
  <2>3. ctx' \in [C -> CtxType(C)] /\ tasks' \in Seq(TaskOf(C)) /\ budget' \in BudgetOf(C)
    BY <1>8, <1>15, <2>1, <2>2
  <2>4. QED
    BY <1>6, <1>12, <2>1, <2>3
<1>18. CASE ResourceRevalidateDone
  <2> DEFINE b == ctx[c].revalidateOk /\ Argument = "same"
             f == ctx[c].fetches - 1
             y == [ctx[c] EXCEPT !.fetches = f, !.revalidateOk = b]
             t == InputLoadDone(Argument).tasks
  <2>1. /\ \/ ctx' = [ctx EXCEPT ![c] = y] /\ tasks' = t
           \/ FinishRevalidation(c, y, t)
        /\ budget' = InputLoadDone(Argument).budget
        /\ UNCHANGED <<asked, loading, primary, drv, html, disabled, rendered>>
    BY <1>18, Zenon DEF ResourceRevalidateDone
  <2>2. b \in BOOLEAN /\ f \in Int
    BY <1>16
  <2> HIDE DEF b, f
  <2>3. y \in CtxType(C)
    BY <1>2, <2>2, CtxChanges, ZenonT(30)
  <2>6. t \in Seq(TaskOf(C))
    BY <1>15
  <2> HIDE DEF y, c, t
  <2>4. ctx' \in [C -> CtxType(C)] /\ tasks' \in Seq(TaskOf(C)) /\ budget' \in BudgetOf(C)
    BY <1>2, <1>9, <1>15, <2>1, <2>3, <2>6
  <2>5. QED
    BY <1>6, <1>12, <2>1, <2>4
<1>19. QED
  BY <1>13, <1>14, <1>17, <1>18

LEMMA SequenceTyped ==
  ASSUME Records, Types, RewriteSequence PROVE Types'
<1> DEFINE C == Contexts
<1>1. Frame /\ Shapes' /\ html' = html
  BY SequenceFrame, SequenceSignals, ShapesKept DEF Types
<1>2. SameDriver
  BY SequenceDriver
<1>3. Contexts' = C
  BY <1>1 DEF Frame, Contexts
<1>4. ASSUME NEW D, Contexts = D PROVE TypesOf(D)'
  <2>1. TypesOf(D) /\ Shapes
    BY <1>4 DEF Types
  <2>2. TypedStep(D)
    BY <1>4, <2>1, StartStepsTyped, CacheStepsTyped, LoadStepsTyped, EndStepsTyped
       DEF RewriteSequence
  <2>3. /\ drv'.detached \subseteq D
        /\ drv'.waiting \in {"kNoWait", "kWaitForCompletion", "kWaitForCachedRender"}
        /\ drv'.canRewrite \in BOOLEAN /\ drv'.fully \in BOOLEAN /\ drv'.reached \in BOOLEAN
        /\ html'.window \in 1..NumWindows
    BY <1>1, <1>2, <2>1 DEF SameDriver, TypesOf
  <2>4. QED
    BY <1>1, <1>4, <2>1, <2>2, <2>3, TypesFrom DEF TypedStep
<1> HIDE DEF C
<1>5. QED
  BY <1>1, <1>3, <1>4 DEF Types, C

LEMMA OthersTyped ==
  ASSUME Records, Types, Lookups \/ Answers \/ LowPriority \/ Idle PROVE Types'
<1>1. Frame /\ Shapes' /\ html' = html /\ drv' = drv /\ rendered' = rendered
  BY OthersFrame, OthersSignal, ShapesKept DEF Types
<1>2. Contexts' = Contexts
  BY <1>1 DEF Frame, Contexts
<1>3. ASSUME NEW C, Contexts = C PROVE TypesOf(C)'
  <2>1. TypesOf(C)
    BY <1>3 DEF Types
  <2>2. ASSUME NEW c \in C, NEW o \in Ops, NEW a \in Args
        PROVE  AddRewriteTask(Task(o, c, a)) \in Seq(TaskOf(C))
    <3>1. Task(o, c, a) \in TaskOf(C) /\ tasks \in Seq(TaskOf(C))
      BY <2>1, TaskIn DEF TypesOf
    <3>2. QED
      BY <3>1, AppendProperties DEF AddRewriteTask
  <2>3. TypedStep(C)
    <3>1. ASSUME NEW c \in C, LookupDone(c) PROVE TypedStep(C)
      <4>1. ctx[c].cached \subseteq Args
        BY <2>1 DEF TypesOf, CtxType, Args
      <4>2. tasks' \in Seq(TaskOf(C))
        BY <2>2, <3>1, <4>1, OpsArgs DEF LookupDone
      <4>3. QED
        BY <2>1, <3>1, <4>2 DEF LookupDone, TypesOf, TypedStep
    <3>2. ASSUME NEW c \in C, LockDone(c) PROVE TypedStep(C)
      <4>1. PICK g \in BOOLEAN :
              /\ ctx' = [ctx EXCEPT ![c] = [ctx[c] EXCEPT !.lock = g]]
              /\ tasks' = AddRewriteTask(Task(IF g THEN "FetchInputs" ELSE "LockFailed", c, ""))
        BY <3>2 DEF LockDone
      <4>2. tasks' \in Seq(TaskOf(C))
        BY <2>2, <4>1, OpsArgs
      <4>3. ctx' \in [C -> CtxType(C)]
        <5>1. ctx \in [C -> CtxType(C)] /\ ctx[c] \in CtxType(C)
          BY <2>1 DEF TypesOf
        <5>2. [ctx[c] EXCEPT !.lock = g] \in CtxType(C)
          BY <5>1, CtxChanges, ZenonT(30)
        <5>3. QED
          BY <4>1, <5>1, <5>2
      <4>4. asked' \subseteq asked /\ UNCHANGED <<loading, primary, budget, drv, html, disabled, rendered>>
        BY <3>2 DEF LockDone
      <4>5. QED
        BY <2>1, <4>2, <4>3, <4>4 DEF TypesOf, TypedStep
    <3>3. ASSUME NEW c \in C, LoadDone(c) PROVE TypedStep(C)
      <4>1. tasks' \in Seq(TaskOf(C))
        BY <2>2, <3>3, OpsArgs DEF LoadDone
      <4>2. loading' \in [C -> Int]
        BY <2>1, <3>3 DEF LoadDone, TypesOf
      <4>3. QED
        BY <2>1, <3>3, <4>1, <4>2 DEF LoadDone, TypesOf, TypedStep
    <3>4. ASSUME NEW c \in C, Rewrite(c) PROVE TypedStep(C)
      <4>1. tasks' \in Seq(TaskOf(C))
        BY <2>2, <3>4, OpsArgs DEF Rewrite
      <4>2. ctx[c].slots \subseteq Nat
        BY <2>1 DEF TypesOf, CtxType
      <4>3. disabled' \subseteq Nat
        BY <2>1, <3>4, <4>2 DEF Rewrite, TypesOf
      <4>4. asked' \subseteq asked /\ UNCHANGED <<ctx, loading, primary, budget, drv, html, rendered>>
        BY <3>4 DEF Rewrite
      <4>5. QED
        BY <2>1, <4>1, <4>3, <4>4 DEF TypesOf, TypedStep
    <3>5. ASSUME NEW c \in C, RewriteNested(c) PROVE TypedStep(C)
      <4> DEFINE N == Cardinality(Children(c))
                 room == Min({N, MaxContexts - budget.contexts})
                 place(d) == IF Cardinality({e \in Children(c) : e <= d}) <= room
                             THEN "taken" ELSE "refused"
                 P(d) == [ctx[d] EXCEPT !.state = "built", !.place = place(d)]
                 Q(d) == [ctx[d] EXCEPT !.nested = N]
      <4>1. /\ ctx' = [d \in C |-> IF d \in Children(c) THEN P(d)
                                   ELSE IF d = c THEN Q(d) ELSE ctx[d]]
            /\ budget' = [budget EXCEPT !.contexts = @ + room]
        BY <1>3, <3>5 DEF RewriteNested
      <4>2. N \in Nat
        <5>1. Children(c) \subseteq Contexts
          BY DEF Children
        <5>2. QED
          BY <5>1, FS_Subset, FS_CardinalityType DEF Records
      <4>3. \A d \in C : place(d) \in {"none", "taken", "refused"}
        OBVIOUS
      <4>4. budget \in BudgetOf(C) /\ budget.contexts \in 0..MaxContexts
        BY <2>1 DEF TypesOf, BudgetOf
      <4>5. room \in 0..(MaxContexts - budget.contexts)
        <5>1. MaxContexts - budget.contexts \in Int
          BY <4>4, LimitsAssumption
        <5>2. QED
          BY <4>2, <4>4, <5>1, Min2, LimitsAssumption
      <4> HIDE DEF N, room, place
      <4>6. budget.contexts + room \in 0..MaxContexts
        BY <4>4, <4>5, LimitsAssumption
      <4>7. budget' \in BudgetOf(C)
        BY <4>1, <4>4, <4>6 DEF BudgetOf
      <4>8. ASSUME NEW d \in C PROVE ctx[d] \in CtxType(C) /\ P(d) \in CtxType(C) /\ Q(d) \in CtxType(C)
        <5>1. ctx[d] \in CtxType(C) /\ "built" \in States /\ N \in Int
          BY <2>1, <4>2 DEF TypesOf, States
        <5>2. QED
          BY <4>3, <5>1, CtxChanges, ZenonT(30)
      <4> HIDE DEF P, Q
      <4>9. ctx' \in [C -> CtxType(C)]
        BY <4>1, <4>8
      <4>10. tasks' \in Seq(TaskOf(C))
        BY <2>2, <3>5, OpsArgs DEF RewriteNested
      <4>11. asked' \subseteq asked /\ UNCHANGED <<loading, primary, drv, html, disabled, rendered>>
        BY <3>5 DEF RewriteNested
      <4>12. QED
        BY <2>1, <4>7, <4>9, <4>10, <4>11 DEF TypesOf, TypedStep
    <3>6. CASE UNCHANGED vars
      BY <2>1, <3>6 DEF TypesOf, TypedStep, vars
    <3>7. QED
      BY <1>3, <3>1, <3>2, <3>3, <3>4, <3>5, <3>6 DEF Lookups, Answers, LowPriority, Idle
  <2>4. /\ drv'.detached \subseteq C
        /\ drv'.waiting \in {"kNoWait", "kWaitForCompletion", "kWaitForCachedRender"}
        /\ drv'.canRewrite \in BOOLEAN /\ drv'.fully \in BOOLEAN /\ drv'.reached \in BOOLEAN
        /\ html'.window \in 1..NumWindows
    BY <1>1, <2>1 DEF TypesOf
  <2>5. QED
    BY <1>1, <1>3, <2>1, <2>3, <2>4, TypesFrom DEF TypedStep
<1>4. QED
  BY <1>1, <1>2, <1>3 DEF Types

LEMMA HtmlTyped ==
  ASSUME FlushInv, Types, Html PROVE Types'
<1>1. Records /\ Frame /\ Shapes'
  BY HtmlFrame, ShapesKept DEF Types, FlushInv
<1>2. Contexts' = Contexts
  BY <1>1 DEF Frame, Contexts
<1>3. ASSUME NEW C, Contexts = C PROVE TypesOf(C)'
  <2>1. TypesOf(C)
    BY <1>3 DEF Types
  <2>2. /\ ctx \in [C -> CtxType(C)] /\ drv.detached \subseteq C
        /\ drv.canRewrite \in BOOLEAN /\ drv.fully \in BOOLEAN /\ drv.reached \in BOOLEAN
        /\ drv.waiting \in {"kNoWait", "kWaitForCompletion", "kWaitForCachedRender"}
        /\ html.window \in 1..NumWindows
    BY <2>1 DEF TypesOf
  <2> DEFINE Driver == /\ drv'.detached \subseteq C
                       /\ drv'.waiting \in {"kNoWait", "kWaitForCompletion", "kWaitForCachedRender"}
                       /\ drv'.canRewrite \in BOOLEAN /\ drv'.fully \in BOOLEAN
                       /\ drv'.reached \in BOOLEAN
                       /\ html'.window \in 1..NumWindows
  <2>3. ASSUME UNCHANGED <<ctx, asked, loading, primary, budget, disabled, rendered>>,
               tasks' \in Seq(TaskOf(C))
        PROVE  TypedStep(C)
    BY <2>1, <2>3 DEF TypesOf, TypedStep
  <2>4. ASSUME tasks' = tasks PROVE tasks' \in Seq(TaskOf(C))
    BY <2>1, <2>4 DEF TypesOf
  <2>5. CASE InitiateRewrite
    <3> DEFINE c == Min(NextContext)
    <3>1. c \in C
      BY <1>1, <1>3, <2>5, MinIn DEF InitiateRewrite, NextContext, Records
    <3>2. \/ ctx' = [ctx EXCEPT ![c] = [ctx[c] EXCEPT !.state = "built"]]
          \/ ctx' = [ctx EXCEPT ![c] = [ctx[c] EXCEPT !.state = "deleted"]]
      BY <2>5 DEF InitiateRewrite
    <3>3. \/ drv' = drv
          \/ drv' = [drv EXCEPT !.rewrites = @ \cup {c}, !.refs.pending = @ + 1, !.quick = @ + 1]
      BY <2>5 DEF InitiateRewrite
    <3> HIDE DEF c
    <3>4. "built" \in States /\ "deleted" \in States
      BY DEF States
    <3>10. ctx[c] \in CtxType(C)
      BY <2>2, <3>1
    <3>11. [ctx[c] EXCEPT !.state = "built"] \in CtxType(C)
           /\ [ctx[c] EXCEPT !.state = "deleted"] \in CtxType(C)
      BY <3>4, <3>10, CtxChanges, ZenonT(30)
    <3>5. ctx' \in [C -> CtxType(C)]
      BY <2>2, <3>1, <3>2, <3>11, OneTyped
    <3>6. UNCHANGED <<tasks, asked, loading, primary, budget, html, disabled, rendered>>
      BY <2>5 DEF InitiateRewrite
    <3>7. TypedStep(C)
      BY <2>1, <3>5, <3>6 DEF TypesOf, TypedStep
    <3>8. Driver
      BY <1>1, <2>2, <3>3, <3>6 DEF Records, DrvFields, RefKinds
    <3>9. QED
      BY <1>1, <1>3, <2>1, <3>7, <3>8, TypesFrom DEF TypedStep
  <2>6. CASE FlushAsync
    <3> DEFINE S == {c \in drv.rewrites : ~Chained(c)}
    <3>1. /\ tasks' = tasks \o StartTasks(S) /\ html' = [html EXCEPT !.pc = "flushing"]
          /\ drv' = [drv EXCEPT !.initiated = @ \cup drv.rewrites, !.rewrites = {}]
          /\ UNCHANGED <<ctx, asked, loading, primary, budget, disabled, rendered>>
      BY <2>6 DEF FlushAsync
    <3>2. S \subseteq C
      BY <1>3 DEF FlushInv, WindowInv
    <3> HIDE DEF S
    <3>3. tasks' \in Seq(TaskOf(C))
      <4>1. tasks \in Seq(TaskOf(C)) /\ StartTasks(S) \in Seq(TaskOf(C))
        BY <1>1, <1>3, <2>1, <3>2, StartsTyped DEF TypesOf
      <4>2. QED
        BY <3>1, <4>1, ConcatProperties
    <3>4. TypedStep(C)
      BY <2>3, <3>1, <3>3
    <3>5. Driver
      BY <1>1, <2>2, <3>1 DEF Records, DrvFields
    <3>6. QED
      BY <1>1, <1>3, <2>1, <3>4, <3>5, TypesFrom DEF TypedStep
  <2>7. ASSUME NEW d, NEW b \in BOOLEAN, TryCheckForCompletion(d, b), DOMAIN d = DrvFields,
               d.detached \subseteq C, d.canRewrite \in BOOLEAN, d.fully \in BOOLEAN,
               d.waiting \in {"kNoWait", "kWaitForCompletion", "kWaitForCachedRender"}
        PROVE  Driver
    <3> DEFINE e == [d EXCEPT !.reached = b, !.woken = FALSE]
               g == [e EXCEPT !.waiting = "kNoWait"]
    <3>1. /\ e.detached = d.detached /\ e.canRewrite = d.canRewrite /\ e.fully = d.fully
          /\ e.waiting = d.waiting /\ e.reached = b
      BY <2>7 DEF DrvFields
    <3>2. /\ g.detached = d.detached /\ g.canRewrite = d.canRewrite /\ g.fully = d.fully
          /\ g.waiting = "kNoWait" /\ g.reached = b
      BY <2>7 DEF DrvFields
    <3>3. /\ drv' = g \/ drv' = e
          /\ html' = [html EXCEPT !.pc = "flushed"] \/ html' = [html EXCEPT !.pc = "waiting"]
      BY <2>7 DEF TryCheckForCompletion
    <3>4. html'.window = html.window
      BY <1>1, <3>3 DEF Records
    <3> HIDE DEF e, g
    <3>5. QED
      BY <2>2, <2>7, <3>1, <3>2, <3>3, <3>4
  <2>8. CASE CheckForCompletionAsync
    <3> DEFINE d == [drv EXCEPT !.waiting = IF drv.fully THEN "kWaitForCompletion"
                                                         ELSE "kWaitForCachedRender"]
    <3>1. /\ DOMAIN d = DrvFields /\ d.detached = drv.detached /\ d.canRewrite = drv.canRewrite
          /\ d.fully = drv.fully /\ d.waiting \in {"kWaitForCompletion", "kWaitForCachedRender"}
      BY <1>1 DEF Records, DrvFields
    <3>2. /\ TryCheckForCompletion(d, FALSE)
          /\ UNCHANGED <<ctx, tasks, asked, loading, primary, budget, disabled, rendered>>
      BY <2>8 DEF CheckForCompletionAsync
    <3> HIDE DEF d
    <3>3. Driver
      BY <2>2, <2>7, <3>1, <3>2
    <3>4. QED
      BY <1>1, <1>3, <2>1, <2>3, <2>4, <3>2, <3>3, TypesFrom DEF TypedStep
  <2>9. CASE Woken \/ Deadline
    <3>1. PICK b : b \in {drv.reached, drv.waiting = "kWaitForCachedRender", TRUE}
                   /\ TryCheckForCompletion(drv, b)
      BY <2>9 DEF Woken, Deadline
    <3>2. b \in BOOLEAN
      BY <2>2, <3>1
    <3>3. UNCHANGED <<ctx, tasks, asked, loading, primary, budget, disabled, rendered>>
      BY <2>9 DEF Woken, Deadline
    <3>4. Driver
      BY <1>1, <2>2, <2>7, <3>1, <3>2 DEF Records
    <3>5. QED
      BY <1>1, <1>3, <2>1, <2>3, <2>4, <3>3, <3>4, TypesFrom DEF TypedStep
  <2>10. CASE FlushAsyncDone
    <3> DEFINE m == Cardinality(drv.initiated)
    <3>1. /\ drv' = [drv EXCEPT !.detached = @ \cup drv.initiated, !.initiated = {},
                        !.refs.detached = @ + m, !.refs.pending = @ - m]
          /\ html' = IF html.window = NumWindows
                     THEN [html EXCEPT !.pc = "finishing"]
                     ELSE [pc |-> "parsing", window |-> html.window + 1]
          /\ UNCHANGED <<ctx, tasks, asked, loading, primary, budget, disabled, rendered>>
      BY <2>10 DEF FlushAsyncDone
    <3> HIDE DEF m
    <3>2. /\ drv'.detached = drv.detached \cup drv.initiated /\ drv'.waiting = drv.waiting
          /\ drv'.canRewrite = drv.canRewrite /\ drv'.fully = drv.fully /\ drv'.reached = drv.reached
      BY <1>1, <3>1 DEF Records, DrvFields
    <3>3. drv.initiated \subseteq C
      BY <1>3 DEF FlushInv, WindowInv
    <3>4. html'.window \in 1..NumWindows
      BY <1>1, <2>2, <3>1, LimitsAssumption DEF Records
    <3>5. Driver
      BY <2>2, <3>2, <3>3, <3>4
    <3>6. QED
      BY <1>1, <1>3, <2>1, <2>3, <2>4, <3>1, <3>5, TypesFrom DEF TypedStep
  <2>11. CASE FinishParseAfterFlush \/ Cleanup
    <3>1. PICK k \in {"parsing", "user"} : drv' = DropReference(drv, k)
      BY <2>11 DEF FinishParseAfterFlush, Cleanup
    <3> DEFINE a == [drv EXCEPT !.refs[k] = @ - 1]
               r == IF Unreferenced(a.refs) THEN a.released + 1 ELSE a.released
               e == [a EXCEPT !.released = r]
    <3>2. drv' = SignalIfRequired(drv, e)
      BY <3>1 DEF DropReference
    <3> HIDE DEF r
    <3>3. /\ DOMAIN e = DrvFields /\ e.canRewrite = drv.canRewrite /\ e.fully = drv.fully
          /\ e.reached = drv.reached /\ e.waiting = drv.waiting /\ e.detached = drv.detached
      BY <1>1 DEF Records, DrvFields
    <3> HIDE DEF e
    <3>4. \A f \in DrvFields \ {"woken"} : drv'[f] = e[f]
      BY <3>2, <3>3, SignalKeeps
    <3>5. /\ drv'.canRewrite = drv.canRewrite /\ drv'.fully = drv.fully
          /\ drv'.reached = drv.reached /\ drv'.waiting = drv.waiting /\ drv'.detached = drv.detached
      BY <3>3, <3>4 DEF DrvFields
    <3>6. html'.window = html.window
          /\ UNCHANGED <<ctx, tasks, asked, loading, primary, budget, disabled, rendered>>
      BY <1>1, <2>11 DEF FinishParseAfterFlush, Cleanup, Records
    <3>7. Driver
      BY <2>2, <3>5, <3>6
    <3>8. QED
      BY <1>1, <1>3, <2>1, <2>3, <2>4, <3>6, <3>7, TypesFrom DEF TypedStep
  <2>12. QED
    BY <2>5, <2>6, <2>8, <2>9, <2>10, <2>11 DEF Html
<1>4. QED
  BY <1>1, <1>2, <1>3 DEF Types

LEMMA LinksFinite ==
  ASSUME NEW f, NEW c, NEW d, IsFiniteSet(f[d].slots)
  PROVE  IsFiniteSet(Links(f, c, d)) /\ Links(f, c, d) \subseteq f[d].slots
         /\ Cardinality(Links(f, c, d)) \in Nat
<1>1. Links(f, c, d) \subseteq f[d].slots
  BY DEF Links
<1>2. QED
  BY <1>1, FS_Subset, FS_CardinalityType

LEMMA InitTyped == Init => Types
<1> SUFFICES ASSUME Init PROVE Types
  OBVIOUS
<1>1. PICK f \in Documents : /\ ctx = [c \in DOMAIN f |-> NewContext(f, c)]
                             /\ loading = [c \in DOMAIN f |-> 0]
                             /\ primary = [k \in {f[c].key : c \in DOMAIN f} |-> NoContext]
  BY DEF Init
<1>2. PICK n \in Nat : DOMAIN f = 1..n /\ \A c \in 1..n : f[c] \in Shape(f)
  BY LimitsAssumption
<1>3. Contexts = DOMAIN f
  BY <1>1 DEF Contexts
<1>4. ASSUME NEW c \in DOMAIN f
      PROVE  /\ f[c].parent \in {NoContext} \cup DOMAIN f /\ f[c].slots \subseteq Nat /\ f[c].key \in Nat
             /\ f[c].window \in 1..NumWindows /\ f[c].inputs \in Nat
             /\ f[c].cached \subseteq {"hit", "miss", "revalidate"}
             /\ f[c].parent < c /\ IsFiniteSet(f[c].slots)
             /\ \A d \in DOMAIN f : f[c].slots \cap f[d].slots # {} =>
                  f[c].parent = f[d].parent /\ f[c].window = f[d].window
  <2>1. f[c] \in Shape(f)
    BY <1>2
  <2>2. QED
    BY <2>1, SlotsAssumption DEF Shape
<1>5. ASSUME NEW c \in DOMAIN f PROVE Predecessors(f, c) \subseteq f[c].slots
  BY DEF Predecessors, Links
<1>6. ASSUME NEW c \in DOMAIN f PROVE NewContext(f, c) \in CtxType(DOMAIN f)
  <2> DEFINE p == Cardinality(Predecessors(f, c))
             b == Predecessors(f, c) # {}
             s == [d \in DOMAIN f |-> Cardinality(Links(f, c, d))]
             e == <<>>
  <2>1. IsFiniteSet(Predecessors(f, c))
    BY <1>4, <1>5, FS_Subset
  <2>2. p \in Int /\ b \in BOOLEAN
    BY <2>1, FS_CardinalityType
  <2>3. \A d \in DOMAIN f : Cardinality(Links(f, c, d)) \in Nat
    BY <1>4, LinksFinite
  <2>4. s \in [DOMAIN f -> Nat] /\ e \in Seq(DOMAIN f)
    BY <2>3
  <2>5. NewContext(f, c) =
          [parent |-> f[c].parent, slots |-> f[c].slots, key |-> f[c].key,
           window |-> f[c].window, inputs |-> f[c].inputs, cached |-> f[c].cached,
           state |-> "unborn", preds |-> p, chained |-> b, successors |-> s,
           fetches |-> 0, next |-> 0, revalidate |-> 0, revalidateOk |-> TRUE,
           waits |-> FALSE, nested |-> 0, slow |-> FALSE, busy |-> FALSE,
           place |-> "none", spent |-> FALSE, partitions |-> FALSE, lock |-> FALSE,
           repeated |-> e]
    BY DEF NewContext
  <2> HIDE DEF p, b, s, e
  <2>6. f[c].parent \in Nat
    BY <1>2, <1>4 DEF NoContext
  <2>7. QED
    BY <1>4, <2>2, <2>4, <2>5, <2>6 DEF CtxType, States
<1>7. TypesOf(DOMAIN f)
  <2>1. ctx \in [DOMAIN f -> CtxType(DOMAIN f)]
    BY <1>1, <1>6
  <2>2. tasks \in Seq(TaskOf(DOMAIN f)) /\ asked = {} /\ rendered = {} /\ disabled = {}
    BY DEF Init
  <2>3. loading \in [DOMAIN f -> Int]
    BY <1>1
  <2>4. /\ \A k \in DOMAIN primary : primary[k] \in DOMAIN f \cup {NoContext}
        /\ \A c \in DOMAIN f : ctx[c].key \in DOMAIN primary
    BY <1>1 DEF NewContext
  <2>5. budget \in BudgetOf(DOMAIN f)
    <3>1. budget = [contexts |-> 0, loads |-> 0, bytes |-> 0, entries |-> 0, waiting |-> <<>>]
      BY DEF Init
    <3>2. <<>> \in Seq(WaitOf(DOMAIN f)) /\ 0 \in 0..MaxContexts /\ 0 \in 0..MaxEntries
      BY LimitsAssumption
    <3>3. QED
      BY <3>1, <3>2 DEF BudgetOf
  <2>6. /\ drv.detached = {} /\ drv.waiting = "kNoWait" /\ drv.canRewrite \in BOOLEAN
        /\ drv.fully \in BOOLEAN /\ drv.reached = FALSE /\ html.window = 1
    BY DEF Init
  <2>9. NumWindows \in Nat /\ NumWindows # 0
    BY LimitsAssumption
  <2>8. /\ asked \subseteq {"lookup", "lock", "rewrite"} \X DOMAIN f
        /\ drv.reached \in BOOLEAN /\ html.window \in 1..NumWindows
    <3>1. asked \subseteq {"lookup", "lock", "rewrite"} \X DOMAIN f
      BY <2>2
    <3>2. drv.reached \in BOOLEAN
      BY <2>6
    <3>3. html.window \in 1..NumWindows
      BY <2>6, <2>9
    <3>4. QED
      BY <3>1, <3>2, <3>3
  <2>7. QED
    BY <2>1, <2>2, <2>3, <2>4, <2>5, <2>6, <2>8 DEF TypesOf
<1>8. Shapes
  <2>1. DOMAIN ctx = DOMAIN f /\ \A c \in DOMAIN f : /\ ctx[c].slots = f[c].slots
             /\ ctx[c].parent = f[c].parent /\ ctx[c].window = f[c].window
             /\ ctx[c].chained = (Predecessors(f, c) # {})
    BY <1>1 DEF NewContext
  <2>2. ASSUME NEW c \in DOMAIN f, NEW d \in DOMAIN f PROVE Links(ctx, c, d) = Links(f, c, d)
    BY <2>1 DEF Links
  <2>3. ASSUME NEW d \in DOMAIN f PROVE Predecessors(ctx, d) = Predecessors(f, d)
    BY <2>1, <2>2 DEF Predecessors
  <2>4. \A c \in DOMAIN f : Chained(c) <=> Predecessors(ctx, c) # {}
    BY <2>1, <2>3 DEF Chained
  <2>5. \A c \in DOMAIN f :
          /\ ctx[c].parent \in {NoContext} \cup DOMAIN f /\ ctx[c].parent < c
          /\ IsFiniteSet(ctx[c].slots)
          /\ \A d \in DOMAIN f : ctx[c].slots \cap ctx[d].slots # {} =>
               ctx[c].parent = ctx[d].parent /\ ctx[c].window = ctx[d].window
    BY <1>4, <2>1
  <2>6. QED
    BY <1>3, <2>4, <2>5 DEF Shapes
<1>9. QED
  BY <1>3, <1>7, <1>8 DEF Types

Typed == FlushInv /\ Types

LEMMA NextTyped == Typed /\ [Next]_vars => Typed'
<1> SUFFICES ASSUME Typed, [Next]_vars PROVE Typed'
  OBVIOUS
<1>1. FlushInv' /\ Records
  BY NextFlush DEF Typed, FlushInv
<1>2. CASE UNCHANGED vars
  BY <1>1, <1>2 DEF Typed, Types, TypesOf, Shapes, vars, Contexts, Chained, Predecessors, Links
<1>3. Next => Types'
  BY <1>1, HtmlTyped, SequenceTyped, OthersTyped DEF Next, Typed
<1>4. QED
  BY <1>1, <1>2, <1>3 DEF Typed

(* The types of all that the threads share, the signs of counters aside. *)
THEOREM Typing == Spec => []Typed
<1>1. Init => Typed
  BY InitFlush, InitTyped DEF Typed
<1>2. QED
  BY <1>1, NextTyped, PTL DEF Spec

---------------------------------------------------------------------------
(* Places.  A task of a context is one of its loads, the resumption of a    *)
(* wait for room to load, or its one control task.                          *)

LoadOps == {"ResourceFetchDone", "ResourceRevalidateDone"}
ControlOps == Ops \ (LoadOps \cup Resumptions)
NestedOps == {"StartNestedTasksImpl"}
LastOps == {"RewriteDoneImpl", "Finalize"}
RepeatedOps == {"RepeatedSuccess", "RepeatedFailure"}
EndingOps == RepeatedOps \cup {"Retire"}
StartedOps == ControlOps \ ({"Start", "Retire", "Delete"} \cup NestedOps)

Live == {"built", "started", "done"}
Dead == {"unborn", "retired", "deleted"}

Repeating(c) == \E p \in Contexts : ctx[p].state = "started" /\ c \in Repeats(p)

(* What goes on with c: a control task among K, and of S what is asked, the *)
(* end of the context that has its key, its loads, its nested contexts.     *)
Holds(c, K, S) ==
  /\ Num(tasks, {c}, ControlOps) = (IF K = {} THEN 0 ELSE 1)
  /\ Num(tasks, {c}, K) = Num(tasks, {c}, ControlOps)
  /\ \A k \in {"lookup", "lock", "rewrite"} : <<k, c>> \in asked <=> k \in S
  /\ Repeating(c) <=> "repeats" \in S
  /\ (ctx[c].fetches > 0 \/ ctx[c].waits) <=> "loads" \in S
  /\ ctx[c].nested > 0 <=> "nests" \in S

Still(c, K) == Holds(c, K, {})

Started(c) ==
  \/ Still(c, StartedOps)
  \/ \E k \in {"lookup", "lock", "rewrite", "repeats", "loads", "nests"} : Holds(c, {}, {k})
  \/ Holds(c, NestedOps, {"nests"})

(* Each context has one continuation, and its state goes with it. *)
Continuation(c) ==
  /\ ctx[c].state \in {"unborn", "deleted"} => Still(c, {})
  /\ ctx[c].state = "built" => Still(c, {}) \/ Still(c, {"Start"})
  /\ ctx[c].state = "started" => Started(c)
  /\ ctx[c].state = "done" => Still(c, {"Retire"})
  /\ ctx[c].state = "retired" => Still(c, IF Top(c) THEN {"Delete"} ELSE {})

OneContinuation == \A c \in Contexts : Continuation(c)

(* The loads of c: those in flight and those answered; the place it has in  *)
(* the queue of the budget, or the resumption that has left the queue.      *)
LoadsOf(c) ==
  /\ ctx[c].fetches = loading[c] + Num(tasks, {c}, LoadOps)
  /\ (IF ctx[c].waits THEN 1 ELSE 0)
       = Num(tasks, {c}, Resumptions) + Num(budget.waiting, {c}, Resumptions)
  /\ Num(tasks, {c}, {"ResumeRevalidateInputs"}) + Num(budget.waiting, {c}, {"ResumeRevalidateInputs"}) > 0
       => ctx[c].revalidate > 0
  /\ loading[c] >= 0 /\ ctx[c].next >= 0 /\ ctx[c].revalidate >= 0

InFlight == {a \in Contexts \X (1..MaxLoads) : a[2] <= ctx[a[1]].fetches}

LoadsInv ==
  /\ \A c \in Contexts : LoadsOf(c) /\ ctx[c].fetches <= MaxLoads
  /\ budget.loads = Cardinality(InFlight)
  /\ budget.loads <= MaxLoads
  /\ NoWaiterForgotten

(* The slots of d at which an earlier context has not let it go on. *)
OpenLinks(d) == UNION {Links(ctx, c, d) : c \in {c \in Contexts : ctx[c].successors[d] # 0}}

LinksInv ==
  \A d \in Contexts :
    /\ \A c \in Contexts : ctx[c].successors[d] \in {0, Cardinality(Links(ctx, c, d))}
    /\ ctx[d].preds = Cardinality(OpenLinks(d)) + (IF ctx[d].waits THEN 1 ELSE 0)
    /\ (ctx[d].state \in {"started", "done", "retired"} \/ Num(tasks, {d}, {"Start"}) > 0)
         => OpenLinks(d) = {}

NestedInv ==
  \A c \in Contexts :
    /\ ctx[c].nested = Cardinality({d \in Children(c) : ctx[d].state \in Live})
    /\ (\A d \in Children(c) : ctx[d].state = "unborn")
         \/ /\ \A d \in Children(c) : ctx[d].state # "unborn"
            /\ ctx[c].state \notin {"unborn", "built"}
            /\ ctx[c].state = "started" => ctx[c].nested > 0 \/ Num(tasks, {c}, LastOps) > 0
    /\ \A d \in Children(c) : ctx[d].state = "deleted" => ctx[c].state = "deleted"
    /\ ctx[c].state = "deleted" => \A d \in Children(c) : ctx[d].state \in {"unborn", "deleted"}
    /\ Num(tasks, {c}, NestedOps) > 0 =>
         \A d \in Children(c) : ctx[d].state = "built" /\ Num(tasks, {d}, ControlOps) = 0

(* The windows: what is born of each, and what was handed to the driver.    *)
WindowsInv ==
  /\ \A c \in Contexts : Top(c) =>
       /\ ctx[c].state = "unborn" =>
            ctx[c].window > html.window \/ (ctx[c].window = html.window /\ html.pc = "parsing")
       /\ ctx[c].state # "unborn" =>
            /\ ctx[c].window <= html.window
            /\ drv.canRewrite /\ ctx[c].window = html.window /\ html.pc = "parsing"
                 => c \in drv.rewrites
       /\ ctx[c].state = "deleted" /\ drv.canRewrite => OpenLinks(c) = {}
  /\ \A c \in drv.rewrites : Top(c) /\ ctx[c].state = "built" /\ Num(tasks, {c}, ControlOps) = 0
  /\ ~drv.canRewrite => \A c \in Contexts : ctx[c].state \in {"unborn", "deleted"}

(* The contexts that have a key, and those that repeat them. *)
PrimaryInv ==
  /\ \A k \in DOMAIN primary : primary[k] # NoContext =>
       /\ ctx[primary[k]].key = k
       /\ ctx[primary[k]].state \in {"started", "done"}
  /\ \A p \in Contexts :
       /\ ctx[p].state \in {"unborn", "built"} => ctx[p].repeated = <<>>
       /\ ctx[p].repeated # <<>> /\ ctx[p].state = "started" => primary[ctx[p].key] = p
       /\ \A i, j \in DOMAIN ctx[p].repeated :
            ctx[p].repeated[i] = ctx[p].repeated[j] => i = j
       /\ \A c \in Repeats(p) : ctx[c].key = ctx[p].key

(* The ends of rewrites come first, each after those that repeat it. *)
EndsFirst ==
  /\ \A i, j \in DOMAIN tasks : i < j /\ tasks[j].op \in EndingOps => tasks[i].op \in EndingOps
  /\ \A i \in DOMAIN tasks : tasks[i].op \in RepeatedOps =>
       \E j \in DOMAIN tasks : /\ i < j /\ tasks[j].op = "Retire"
                               /\ tasks[j].c = primary[ctx[tasks[i].c].key]

DriverInv ==
  /\ drv.rewrites \cup drv.initiated \cup drv.detached
       = {c \in Contexts : Top(c) /\ ctx[c].state \in Live}
  /\ drv.rewrites \cap drv.detached = {}
  /\ RefsAccounted
  /\ drv.refs.user = (IF html.pc = "finished" THEN 0 ELSE 1)
  /\ drv.refs.parsing = (IF html.pc \in {"cleanup", "finished"} THEN 0 ELSE 1)
  /\ drv.released = (IF Unreferenced(drv.refs) THEN 1 ELSE 0)

QuickInv ==
  /\ QuickAccounted
  /\ \A c \in Contexts : Top(c) /\ ctx[c].state = "unborn" => ~ctx[c].slow
  /\ \A c \in drv.detached : ctx[c].slow
  /\ html.pc = "flushed" => \A c \in drv.initiated : ctx[c].slow
  /\ html.pc = "waiting" /\ drv.reached => drv.waiting = "kWaitForCachedRender"

Core ==
  /\ OneContinuation /\ LoadsInv /\ LinksInv /\ NestedInv
  /\ WindowsInv /\ PrimaryInv /\ EndsFirst

---------------------------------------------------------------------------
(* Tasks.                                                                   *)

LEMMA TaskNums ==
  ASSUME NEW C, tasks \in Seq(TaskOf(C)), NEW D, NEW K
  PROVE  /\ Num(tasks, D, K) \in Nat
         /\ tasks # <<>> =>
              /\ Num(Tail(tasks), D, K) \in Nat
              /\ Num(tasks, D, K) = (IF Running \in D /\ Head(tasks).op \in K THEN 1 ELSE 0) + Num(Tail(tasks), D, K)
         /\ tasks # <<>> => \A x \in TaskOf(C) :
              Num(Call(x), D, K) = (IF x.c \in D /\ x.op \in K THEN 1 ELSE 0) + Num(Tail(tasks), D, K)
         /\ \A x \in TaskOf(C) :
              Num(Append(tasks, x), D, K) = Num(tasks, D, K) + (IF x.c \in D /\ x.op \in K THEN 1 ELSE 0)
<1>1. Num(tasks, D, K) \in Nat
  BY NumPlaces
<1>2. ASSUME tasks # <<>>
      PROVE  /\ Num(Tail(tasks), D, K) \in Nat
             /\ Num(tasks, D, K) = (IF Running \in D /\ Head(tasks).op \in K THEN 1 ELSE 0) + Num(Tail(tasks), D, K)
  <2>1. Tail(tasks) \in Seq(TaskOf(C))
    BY <1>2, HeadTailProperties
  <2>2. Num(Tail(tasks), D, K) \in Nat
    BY <2>1, NumPlaces
  <2>3. QED
    BY <1>2, <2>2, NumTail DEF Running
<1>3. ASSUME tasks # <<>>, NEW x \in TaskOf(C)
      PROVE  Num(Call(x), D, K) = (IF x.c \in D /\ x.op \in K THEN 1 ELSE 0) + Num(Tail(tasks), D, K)
  <2> DEFINE h == <<x>>
             r == Tail(tasks)
  <2>1. h \in Seq(TaskOf(C)) /\ r \in Seq(TaskOf(C)) /\ Num(h, D, K) = (IF x.c \in D /\ x.op \in K THEN 1 ELSE 0)
    BY <1>3, HeadTailProperties, NumOne
  <2> HIDE DEF h, r
  <2>2. Num(h \o r, D, K) = Num(h, D, K) + Num(r, D, K)
    BY <2>1, NumConcat
  <2>3. QED
    BY <2>1, <2>2 DEF Call, h, r
<1>4. ASSUME NEW x \in TaskOf(C)
      PROVE  Num(Append(tasks, x), D, K) = Num(tasks, D, K) + (IF x.c \in D /\ x.op \in K THEN 1 ELSE 0)
  BY <1>4, NumAppend
<1>5. QED
  BY <1>1, <1>2, <1>3, <1>4

LEMMA NumNone ==
  ASSUME NEW T, NEW t \in Seq(T), NEW D, NEW K, NEW L, K \subseteq L, Num(t, D, L) = 0
  PROVE  Num(t, D, K) = 0
<1>1. Num(t, D, K) \in Nat /\ Num(t, D, K) <= Num(t, D, L)
  BY NumPlaces, NumParts
<1>2. QED
  BY <1>1

LEMMA NumEmpty == ASSUME NEW t, NEW D PROVE Num(t, D, {}) = 0
<1>1. {i \in DOMAIN t : t[i].c \in D /\ t[i].op \in {}} = {}
  OBVIOUS
<1>2. QED
  BY <1>1, FS_EmptySet DEF Num

ControlKinds ==
  {{}, {"Start"}, StartedOps, NestedOps, LastOps, {"Retire"}, {"Delete"}, ControlOps}
LoadKinds == {LoadOps, Resumptions, {"ResumeRevalidateInputs"}}

LEMMA Kinds ==
  /\ {} \in ControlKinds /\ {"Start"} \in ControlKinds /\ StartedOps \in ControlKinds
  /\ NestedOps \in ControlKinds /\ LastOps \in ControlKinds /\ {"Retire"} \in ControlKinds
  /\ {"Delete"} \in ControlKinds /\ ControlOps \in ControlKinds
  /\ LoadOps \in LoadKinds /\ Resumptions \in LoadKinds
  /\ {"ResumeRevalidateInputs"} \in LoadKinds
  BY DEF ControlKinds, LoadKinds

LEMMA KindsApart ==
  /\ \A K \in ControlKinds : K \subseteq ControlOps
  /\ \A K \in LoadKinds : \A o \in K : o \notin ControlOps
  /\ \A K \in LoadKinds : \A L \in ControlKinds : \A o \in K : o \notin L
<1>1. \A K \in ControlKinds : K \subseteq ControlOps
  BY DEF ControlKinds, ControlOps, StartedOps, NestedOps, LastOps, Ops, LoadOps, Resumptions
<1>2. \A K \in LoadKinds : \A o \in K : o \notin ControlOps
  BY DEF LoadKinds, ControlOps, LoadOps, Resumptions
<1>3. QED
  BY <1>1, <1>2

\* What is known of a context whose control task runs.
Runs(c, o) ==
  /\ \A k \in {"lookup", "lock", "rewrite"} : <<k, c>> \notin asked
  /\ ~Repeating(c) /\ ctx[c].fetches = 0 /\ ~ctx[c].waits
  /\ \A K \in ControlKinds : Num(Tail(tasks), {c}, K) = 0
  /\ Num(tasks, {c}, ControlOps) = 1
  /\ o = "Start" => ctx[c].state = "built" /\ ctx[c].nested = 0
  /\ o \in StartedOps => ctx[c].state = "started" /\ ctx[c].nested = 0
  /\ o \in NestedOps => ctx[c].state = "started" /\ ctx[c].nested > 0
  /\ o = "Retire" => ctx[c].state = "done" /\ ctx[c].nested = 0
  /\ o = "Delete" => ctx[c].state = "retired" /\ ctx[c].nested = 0 /\ Top(c)

LEMMA Naturals ==
  ASSUME Typed, LoadsInv, NestedInv, NEW c \in Contexts
  PROVE  ctx[c].fetches \in Nat /\ ctx[c].nested \in Nat /\ loading[c] \in Nat
<1>1. LoadsOf(c) /\ tasks \in Seq(TaskOf(Contexts)) /\ loading[c] \in Int
  BY DEF LoadsInv, Typed, Types, TypesOf
<1>2. Num(tasks, {c}, LoadOps) \in Nat /\ loading[c] >= 0
  BY <1>1, NumPlaces DEF LoadsOf
<1>3. ctx[c].nested = Cardinality({d \in Children(c) : ctx[d].state \in Live})
  BY DEF NestedInv
<1>4. {d \in Children(c) : ctx[d].state \in Live} \subseteq Contexts
  BY DEF Children
<1>5. ctx[c].nested \in Nat
  BY <1>3, <1>4, FS_Subset, FS_CardinalityType DEF Typed, FlushInv, Records
<1>6. QED
  BY <1>1, <1>2, <1>5 DEF LoadsOf

LEMMA HeadRuns ==
  ASSUME Typed, OneContinuation, LoadsInv, NestedInv, tasks # <<>>, Head(tasks).op \in ControlOps
  PROVE  Running \in Contexts /\ Runs(Running, Head(tasks).op)
<1> DEFINE c == Running
           o == Head(tasks).op
           r == Tail(tasks)
<1>1. /\ tasks \in Seq(TaskOf(Contexts)) /\ r \in Seq(TaskOf(Contexts)) /\ c \in Contexts
      /\ ctx[c] \in CtxType(Contexts)
  BY RunningTyped DEF Typed, Types, TypesOf
<1>2. ctx[c].state \in States /\ ctx[c].waits \in BOOLEAN
  BY <1>1 DEF CtxType
<1>3. \A K : /\ Num(r, {c}, K) \in Nat
             /\ Num(tasks, {c}, K) = (IF o \in K THEN 1 ELSE 0) + Num(r, {c}, K)
  BY <1>1, TaskNums
<1>12. o \in ControlOps
  OBVIOUS
<1> HIDE DEF c, o, r
<1>4. ASSUME NEW K \in ControlKinds, NEW S, Holds(c, K, S)
      PROVE  /\ o \in K
             /\ \A L \in ControlKinds : Num(r, {c}, L) = 0
             /\ Num(tasks, {c}, ControlOps) = 1
  <2>1. Num(tasks, {c}, ControlOps) = 1 + Num(r, {c}, ControlOps)
    BY <1>3, <1>12
  <2>2. Num(tasks, {c}, ControlOps) \in {0, 1} /\ Num(tasks, {c}, K) = Num(tasks, {c}, ControlOps)
    BY <1>4 DEF Holds
  <2>7. Num(r, {c}, ControlOps) \in Nat /\ Num(r, {c}, K) \in Nat
    BY <1>3
  <2>3. Num(r, {c}, ControlOps) = 0 /\ Num(tasks, {c}, K) = 1 /\ Num(tasks, {c}, ControlOps) = 1
    BY <2>1, <2>2, <2>7
  <2>4. ASSUME NEW L \in ControlKinds PROVE Num(r, {c}, L) = 0
    BY <1>1, <2>3, NumNone, KindsApart
  <2>5. Num(tasks, {c}, K) = (IF o \in K THEN 1 ELSE 0) + Num(r, {c}, K) /\ Num(r, {c}, K) = 0
    BY <1>3, <1>4, <2>4
  <2>8. o \in K
    BY <2>3, <2>5
  <2>6. QED
    BY <2>3, <2>4, <2>8
<1>6. Continuation(c) /\ ctx[c].fetches \in Nat /\ ctx[c].nested \in Nat
  BY <1>1, Naturals DEF OneContinuation
<1>5. \A S : ~Holds(c, {}, S)
  BY <1>4, Kinds
<1>7. ASSUME NEW K \in ControlKinds, Holds(c, K, {})
      PROVE  /\ \A k \in {"lookup", "lock", "rewrite"} : <<k, c>> \notin asked
             /\ ~Repeating(c) /\ ctx[c].fetches = 0 /\ ~ctx[c].waits
             /\ ctx[c].nested = 0
  BY <1>2, <1>6, <1>7 DEF Holds
<1>8. ASSUME Holds(c, NestedOps, {"nests"})
      PROVE  /\ \A k \in {"lookup", "lock", "rewrite"} : <<k, c>> \notin asked
             /\ ~Repeating(c) /\ ctx[c].fetches = 0 /\ ~ctx[c].waits
             /\ ctx[c].nested > 0
  BY <1>2, <1>6, <1>8 DEF Holds
<1>9. /\ {"Start", "Retire", "Delete"} \cap StartedOps = {}
      /\ {"Start", "Retire", "Delete"} \cap NestedOps = {} /\ StartedOps \cap NestedOps = {}
  BY DEF ControlOps, StartedOps, NestedOps, Ops, LoadOps, Resumptions
<1> DEFINE Idle0 == /\ \A k \in {"lookup", "lock", "rewrite"} : <<k, c>> \notin asked
                    /\ ~Repeating(c) /\ ctx[c].fetches = 0 /\ ~ctx[c].waits
           One0 == /\ \A K \in ControlKinds : Num(r, {c}, K) = 0
                   /\ Num(tasks, {c}, ControlOps) = 1
<1>10. Idle0 /\ One0
       /\ \/ ctx[c].state = "built" /\ o = "Start" /\ ctx[c].nested = 0
          \/ ctx[c].state = "started" /\ o \in StartedOps /\ ctx[c].nested = 0
          \/ ctx[c].state = "started" /\ o \in NestedOps /\ ctx[c].nested > 0
          \/ ctx[c].state = "done" /\ o = "Retire" /\ ctx[c].nested = 0
          \/ ctx[c].state = "retired" /\ o = "Delete" /\ ctx[c].nested = 0 /\ Top(c)
  <2>3. CASE ctx[c].state \in {"unborn", "deleted"}
    BY <1>5, <1>6, <2>3 DEF Continuation, Still
  <2>4. CASE ctx[c].state = "built"
    <3>1. Holds(c, {"Start"}, {})
      BY <1>5, <1>6, <2>4 DEF Continuation, Still
    <3>2. QED
      BY <1>4, <1>7, <2>4, <3>1, Kinds
  <2>5. CASE ctx[c].state = "started"
    <3>1. Holds(c, StartedOps, {}) \/ Holds(c, NestedOps, {"nests"})
      BY <1>5, <1>6, <2>5 DEF Continuation, Started, Still
    <3>2. CASE Holds(c, StartedOps, {})
      BY <1>4, <1>7, <2>5, <3>2, Kinds
    <3>3. CASE Holds(c, NestedOps, {"nests"})
      BY <1>4, <1>8, <2>5, <3>3, Kinds
    <3>4. QED
      BY <3>1, <3>2, <3>3
  <2>6. CASE ctx[c].state = "done"
    <3>1. Holds(c, {"Retire"}, {})
      BY <1>5, <1>6, <2>6 DEF Continuation, Still
    <3>2. QED
      BY <1>4, <1>7, <2>6, <3>1, Kinds
  <2>7. CASE ctx[c].state = "retired"
    <3>1. Top(c) /\ Holds(c, {"Delete"}, {})
      BY <1>5, <1>6, <2>7 DEF Continuation, Still
    <3>2. QED
      BY <1>4, <1>7, <2>7, <3>1, Kinds
  <2>8. QED
    BY <1>2, <2>3, <2>4, <2>5, <2>6, <2>7 DEF States
<1>11. QED
  BY <1>1, <1>9, <1>10 DEF Runs, c, o, r

\* What is known of a context that something is asked for, that loads, that
\* repeats another one, or that has nested ones.
Awaits(c, k) == ctx[c].state = "started" /\ Holds(c, {}, {k})

LEMMA Awaiting ==
  ASSUME Typed, OneContinuation, NEW c \in Contexts
  PROVE  /\ \A k \in {"lookup", "lock", "rewrite"} : <<k, c>> \in asked => Awaits(c, k)
         /\ Repeating(c) => Awaits(c, "repeats")
         /\ ctx[c].fetches > 0 \/ ctx[c].waits => Awaits(c, "loads")
         /\ ctx[c].nested > 0 => \/ Awaits(c, "nests")
                                 \/ ctx[c].state = "started" /\ Holds(c, NestedOps, {"nests"})
<1>1. ctx[c].state \in States /\ Continuation(c)
  BY DEF Typed, Types, TypesOf, CtxType, OneContinuation
<1>2. \/ \E K : Holds(c, K, {})
      \/ ctx[c].state = "started" /\ \E k \in {"lookup", "lock", "rewrite", "repeats", "loads", "nests"} :
                                       Holds(c, {}, {k})
      \/ ctx[c].state = "started" /\ Holds(c, NestedOps, {"nests"})
  BY <1>1 DEF Continuation, Still, Started, States
<1>3. ASSUME NEW K, Holds(c, K, {})
      PROVE  /\ \A k \in {"lookup", "lock", "rewrite"} : <<k, c>> \notin asked
             /\ ~Repeating(c) /\ ~(ctx[c].fetches > 0 \/ ctx[c].waits) /\ ~(ctx[c].nested > 0)
  BY <1>3 DEF Holds
<1>4. ASSUME NEW k \in {"lookup", "lock", "rewrite", "repeats", "loads", "nests"}, NEW K,
             Holds(c, K, {k})
      PROVE  /\ \A j \in {"lookup", "lock", "rewrite"} : <<j, c>> \in asked => j = k
             /\ Repeating(c) => k = "repeats"
             /\ ctx[c].fetches > 0 \/ ctx[c].waits => k = "loads"
             /\ ctx[c].nested > 0 => k = "nests"
  BY <1>4 DEF Holds
<1>5. QED
  BY <1>2, <1>3, <1>4 DEF Awaits

---------------------------------------------------------------------------
(* What a step leaves as it is.                                             *)

SameAsked(d) == \A k \in {"lookup", "lock", "rewrite"} : <<k, d>> \in asked' <=> <<k, d>> \in asked
SameTasks(d) == \A K \in ControlKinds : Num(tasks', {d}, K) = Num(tasks, {d}, K)
SameLoad(d) == ctx'[d].fetches = ctx[d].fetches /\ ctx'[d].waits = ctx[d].waits

LEMMA ContinuationKept ==
  ASSUME NEW d \in Contexts, Frame, Continuation(d), ctx'[d].state = ctx[d].state,
         SameTasks(d), SameAsked(d), Repeating(d)' <=> Repeating(d), SameLoad(d),
         ctx'[d].nested = ctx[d].nested
  PROVE  Continuation(d)'
<1>1. ASSUME NEW K \in ControlKinds, NEW S, Holds(d, K, S) PROVE Holds(d, K, S)'
  <2>1. Num(tasks', {d}, ControlOps) = Num(tasks, {d}, ControlOps)
        /\ Num(tasks', {d}, K) = Num(tasks, {d}, K)
    BY Kinds DEF SameTasks
  <2>2. QED
    BY <1>1, <2>1 DEF Holds, SameAsked, SameLoad
<1>2. ctx'[d].parent = ctx[d].parent
  BY DEF Frame, Keeps, Contexts
<1>3. /\ \A K \in ControlKinds : Still(d, K) => Still(d, K)'
      /\ Started(d) => Started(d)'
  BY <1>1, Kinds DEF Still, Started
<1>4. QED
  BY <1>2, <1>3, Kinds DEF Continuation, Top

LEMMA RepeatingKept ==
  ASSUME Frame,
         \A p \in Contexts : ctx'[p].repeated = ctx[p].repeated,
         \A p \in Contexts : \/ ctx'[p].state = "started" <=> ctx[p].state = "started"
                             \/ ctx[p].repeated = <<>>,
         NEW d
  PROVE  Repeating(d)' <=> Repeating(d)
<1>1. Contexts' = Contexts
  BY DEF Frame, Contexts
<1>2. \A p \in Contexts : Repeats(p)' = Repeats(p)
  BY DEF Repeats
<1>3. \A p \in Contexts : ctx[p].repeated = <<>> => Repeats(p) = {}
  BY DEF Repeats
<1>4. QED
  BY <1>1, <1>2, <1>3 DEF Repeating

LEMMA LinksKept ==
  ASSUME Frame
  PROVE  /\ Contexts' = Contexts
         /\ \A c, d \in Contexts : Links(ctx', c, d) = Links(ctx, c, d)
         /\ \A d \in Contexts : Predecessors(ctx', d) = Predecessors(ctx, d)
         /\ \A c \in Contexts : Children(c)' = Children(c) /\ (Top(c)' <=> Top(c))
<1>1. Contexts' = Contexts
  BY DEF Frame, Contexts
<1>2. /\ \A c \in Contexts : ctx'[c].slots = ctx[c].slots /\ ctx'[c].parent = ctx[c].parent
      /\ DOMAIN ctx' = DOMAIN ctx /\ DOMAIN ctx = Contexts
  BY DEF Frame, Keeps, Contexts
<1>3. ASSUME NEW c \in Contexts, NEW d \in Contexts PROVE Links(ctx', c, d) = Links(ctx, c, d)
  BY <1>2 DEF Links
<1>4. ASSUME NEW d \in Contexts PROVE Predecessors(ctx', d) = Predecessors(ctx, d)
  BY <1>2, <1>3 DEF Predecessors
<1>5. ASSUME NEW c \in Contexts PROVE Children(c)' = Children(c) /\ (Top(c)' <=> Top(c))
  BY <1>1, <1>2 DEF Children, Top
<1>6. QED
  BY <1>1, <1>3, <1>4, <1>5

LEMMA OpenLinksKept ==
  ASSUME Frame, NEW d \in Contexts, \A c \in Contexts : ctx'[c].successors = ctx[c].successors
  PROVE  OpenLinks(d)' = OpenLinks(d)
<1>1. Contexts' = Contexts /\ \A c \in Contexts : Links(ctx', c, d) = Links(ctx, c, d)
  BY LinksKept
<1>2. QED
  BY <1>1 DEF OpenLinks

---------------------------------------------------------------------------
(* What becomes of the tasks.                                               *)

\* After the step, o is the only control task of c; "none" is no task.
Now(c, o) == \A K \in ControlKinds : Num(tasks', {c}, K) = IF o \in K THEN 1 ELSE 0

SameLoads ==
  /\ \A d \in Contexts : \A K \in LoadKinds : Num(tasks', {d}, K) = Num(tasks, {d}, K)
  /\ Num(tasks', Contexts, Resumptions) = Num(tasks, Contexts, Resumptions)

LEMMA ControlMoved ==
  ASSUME NEW C, Contexts = C, tasks \in Seq(TaskOf(C)), tasks # <<>>, Head(tasks).op \in ControlOps,
         \A K \in ControlKinds : Num(Tail(tasks), {Running}, K) = 0,
         NEW o, \/ o = "none" /\ tasks' = Tail(tasks)
                \/ o \in ControlOps /\ \E a \in Args : tasks' = Call(Task(o, Running, a))
  PROVE  Now(Running, o) /\ (\A d \in Contexts \ {Running} : SameTasks(d)) /\ SameLoads
<1> DEFINE c == Running
           r == Tail(tasks)
           h == Head(tasks).op
<1>1. \A D, K : /\ Num(r, D, K) \in Nat
                /\ Num(tasks, D, K) = (IF c \in D /\ h \in K THEN 1 ELSE 0) + Num(r, D, K)
  BY TaskNums
<1>2. c \in C /\ "none" \notin Ops /\ ControlOps \subseteq Ops
  BY HeadType DEF Ops, ControlOps
<1>3. \A D, K : Num(tasks', D, K) = (IF c \in D /\ o \in K /\ o # "none" THEN 1 ELSE 0) + Num(r, D, K)
  <2>1. CASE o = "none" /\ tasks' = Tail(tasks)
    BY <1>1, <2>1
  <2>2. CASE o \in ControlOps /\ \E a \in Args : tasks' = Call(Task(o, c, a))
    <3>1. PICK a \in Args : tasks' = Call(Task(o, c, a))
      BY <2>2
    <3>2. o \in Ops /\ o # "none"
      BY <1>2, <2>2
    <3>3. Task(o, c, a) \in TaskOf(C) /\ Task(o, c, a).op = o /\ Task(o, c, a).c = c
      BY <1>2, <3>2, TaskIn
    <3> DEFINE x == Task(o, c, a)
    <3> HIDE DEF x
    <3>4. \A D, K : Num(Call(x), D, K) = (IF x.c \in D /\ x.op \in K THEN 1 ELSE 0) + Num(r, D, K)
      BY <3>3, TaskNums DEF x
    <3>5. QED
      BY <3>1, <3>2, <3>3, <3>4 DEF x
  <2>3. QED
    BY <2>1, <2>2
<1>4. h \in ControlOps /\ (o = "none" \/ o \in ControlOps)
  OBVIOUS
<1>11. \A K \in ControlKinds : Num(r, {c}, K) = 0
  OBVIOUS
<1> HIDE DEF c, r, h
<1>5. ASSUME NEW K \in ControlKinds PROVE Num(tasks', {c}, K) = IF o \in K THEN 1 ELSE 0
  <2>1. K \subseteq Ops /\ Num(r, {c}, K) = 0
    BY <1>2, <1>11, KindsApart
  <2>2. o \in K => o # "none"
    BY <1>2, <2>1
  <2>3. QED
    BY <1>3, <2>1, <2>2
<1>6. ASSUME NEW d \in Contexts \ {c}, NEW K PROVE Num(tasks', {d}, K) = Num(tasks, {d}, K)
  BY <1>1, <1>3
<1>7. ASSUME NEW D, NEW K \in LoadKinds PROVE Num(tasks', D, K) = Num(tasks, D, K)
  <2>1. h \notin K /\ (o # "none" => o \notin K)
    BY <1>4, KindsApart
  <2>2. QED
    BY <1>1, <1>3, <2>1
<1>8. Now(c, o)
  BY <1>5 DEF Now
<1>9. \A d \in Contexts \ {c} : SameTasks(d)
  BY <1>6 DEF SameTasks
<1>10. QED
  BY <1>7, <1>8, <1>9, Kinds DEF SameLoads, c

LEMMA TaskAdded ==
  ASSUME NEW C, Contexts = C, tasks \in Seq(TaskOf(C)), NEW c \in C, NEW o \in Ops, NEW a \in Args,
         tasks' = AddRewriteTask(Task(o, c, a))
  PROVE  /\ Num(tasks, {c}, ControlOps) = 0 => Now(c, o)
         /\ \A d \in Contexts \ {c} : SameTasks(d)
         /\ o \in ControlOps => SameLoads
         /\ o \notin ControlOps => SameTasks(c)
<1> DEFINE x == Task(o, c, a)
<1>1. x \in TaskOf(C) /\ x.op = o /\ x.c = c /\ tasks' = Append(tasks, x)
  BY TaskIn DEF AddRewriteTask
<1> HIDE DEF x
<1>2. \A D, K : /\ Num(tasks, D, K) \in Nat
                /\ Num(tasks', D, K) = Num(tasks, D, K) + (IF c \in D /\ o \in K THEN 1 ELSE 0)
  BY <1>1, TaskNums
<1>3. ASSUME Num(tasks, {c}, ControlOps) = 0 PROVE Now(c, o)
  <2>1. ASSUME NEW K \in ControlKinds PROVE Num(tasks', {c}, K) = IF o \in K THEN 1 ELSE 0
    <3>1. Num(tasks, {c}, K) = 0
      BY <1>3, NumNone, KindsApart
    <3>2. QED
      BY <1>2, <3>1
  <2>2. QED
    BY <2>1 DEF Now
<1>4. ASSUME NEW d \in Contexts \ {c}, NEW K PROVE Num(tasks', {d}, K) = Num(tasks, {d}, K)
  BY <1>2
<1>5. ASSUME o \in ControlOps, NEW D, NEW K \in LoadKinds PROVE Num(tasks', D, K) = Num(tasks, D, K)
  <2>1. o \notin K
    BY <1>5, KindsApart
  <2>2. QED
    BY <1>2, <2>1
<1>6. ASSUME o \notin ControlOps, NEW K \in ControlKinds PROVE Num(tasks', {c}, K) = Num(tasks, {c}, K)
  <2>1. o \notin K
    BY <1>6, KindsApart
  <2>2. QED
    BY <1>2, <2>1
<1>7. (o \in ControlOps => SameLoads) /\ \A d \in Contexts \ {c} : SameTasks(d)
  BY <1>4, <1>5, Kinds DEF SameLoads, SameTasks
<1>8. QED
  BY <1>3, <1>6, <1>7 DEF SameTasks

---------------------------------------------------------------------------
(* What becomes of a context.                                               *)

\* After the step, of what c may wait for it waits for S.
Became(c, S) ==
  /\ \A k \in {"lookup", "lock", "rewrite"} : <<k, c>> \in asked' <=> k \in S
  /\ Repeating(c)' <=> "repeats" \in S
  /\ (ctx'[c].fetches > 0 \/ ctx'[c].waits) <=> "loads" \in S
  /\ ctx'[c].nested > 0 <=> "nests" \in S

LEMMA Becomes ==
  ASSUME NEW c, NEW o, NEW K \in ControlKinds, NEW S, Now(c, o), Became(c, S),
         \/ K = {} /\ o = "none"
         \/ o \in K
  PROVE  Holds(c, K, S)'
<1>1. /\ Num(tasks', {c}, K) = IF o \in K THEN 1 ELSE 0
      /\ Num(tasks', {c}, ControlOps) = IF o \in ControlOps THEN 1 ELSE 0
  BY Kinds DEF Now
<1>2. "none" \notin ControlOps /\ K \subseteq ControlOps
  BY KindsApart DEF ControlOps, Ops
<1>3. QED
  BY <1>1, <1>2 DEF Holds, Became

\* The continuations that a step of a context may leave it with.
LEMMA Continued ==
  ASSUME NEW c, NEW o, NEW S, Now(c, o), Became(c, S),
         \/ ctx'[c].state = "started" /\ o \in StartedOps /\ S = {}
         \/ /\ ctx'[c].state = "started" /\ o = "none"
            /\ \E k \in {"lookup", "lock", "rewrite", "repeats", "loads", "nests"} : S = {k}
         \/ ctx'[c].state = "started" /\ o \in NestedOps /\ S = {"nests"}
         \/ ctx'[c].state = "done" /\ o = "Retire" /\ S = {}
         \/ ctx'[c].state = "built" /\ o \in {"none", "Start"} /\ S = {}
         \/ ctx'[c].state \in {"unborn", "deleted"} /\ o = "none" /\ S = {}
         \/ ctx'[c].state = "retired" /\ S = {} /\ o = IF Top(c)' THEN "Delete" ELSE "none"
  PROVE  Continuation(c)'
<1>1. \A K \in ControlKinds : (K = {} /\ o = "none") \/ o \in K => Holds(c, K, S)'
  BY Becomes
<1>2. CASE ctx'[c].state = "started" /\ o \in StartedOps /\ S = {}
  <2>1. Holds(c, StartedOps, {})'
    BY <1>1, <1>2, Kinds
  <2>2. QED
    BY <1>2, <2>1 DEF Continuation, Started, Still
<1>3. ASSUME ctx'[c].state = "started", o = "none",
             NEW k \in {"lookup", "lock", "rewrite", "repeats", "loads", "nests"}, S = {k}
      PROVE  Continuation(c)'
  <2>1. Holds(c, {}, {k})'
    BY <1>1, <1>3, Kinds
  <2>2. QED
    BY <1>3, <2>1 DEF Continuation, Started
<1>4. CASE ctx'[c].state = "started" /\ o \in NestedOps /\ S = {"nests"}
  <2>1. Holds(c, NestedOps, {"nests"})'
    BY <1>1, <1>4, Kinds
  <2>2. QED
    BY <1>4, <2>1 DEF Continuation, Started
<1>5. CASE ctx'[c].state = "done" /\ o = "Retire" /\ S = {}
  <2>1. Holds(c, {"Retire"}, {})'
    BY <1>1, <1>5, Kinds
  <2>2. QED
    BY <1>5, <2>1 DEF Continuation, Still
<1>6. CASE ctx'[c].state = "built" /\ o \in {"none", "Start"} /\ S = {}
  <2>1. Holds(c, {"Start"}, {})' \/ Holds(c, {}, {})'
    BY <1>1, <1>6, Kinds
  <2>2. QED
    BY <1>6, <2>1 DEF Continuation, Still
<1>7. CASE ctx'[c].state \in {"unborn", "deleted"} /\ o = "none" /\ S = {}
  <2>1. Holds(c, {}, {})'
    BY <1>1, <1>7, Kinds
  <2>2. QED
    BY <1>7, <2>1 DEF Continuation, Still
<1>8. CASE ctx'[c].state = "retired" /\ S = {} /\ o = IF Top(c)' THEN "Delete" ELSE "none"
  <2>1. IF Top(c)' THEN Holds(c, {"Delete"}, {})' ELSE Holds(c, {}, {})'
    BY <1>1, <1>8, Kinds
  <2>2. QED
    BY <1>8, <2>1 DEF Continuation, Still
<1>9. QED
  BY <1>2, <1>3, <1>4, <1>5, <1>6, <1>7, <1>8

---------------------------------------------------------------------------
(* A step that moves one context on.                                        *)

Waiting(x) == IF x.waits THEN 1 ELSE 0

SameChains ==
  \A d \in Contexts :
    /\ ctx'[d].successors = ctx[d].successors
    /\ ctx'[d].preds - Waiting(ctx'[d]) = ctx[d].preds - Waiting(ctx[d])

Moves(c) ==
  /\ SameChains
  /\ \A d \in Contexts : ctx'[d].nested = ctx[d].nested /\ ctx'[d].repeated = ctx[d].repeated
  /\ \A d \in Contexts \ {c} : ctx'[d].state = ctx[d].state /\ SameLoad(d) /\ SameTasks(d) /\ SameAsked(d)
  /\ \/ /\ ctx[c].state = "built" /\ Num(tasks, {c}, {"Start"}) > 0
        /\ ctx'[c].state \in {"started", "done"}
     \/ ctx[c].state = "started" /\ ctx'[c].state = "started"
     \/ ctx[c].state = "started" /\ ctx'[c].state = "done" /\ ctx[c].repeated = <<>>
  /\ Num(tasks', {c}, {"Start"}) = 0 /\ Num(tasks', {c}, NestedOps) = 0
  /\ Num(tasks, {c}, LastOps) > 0 /\ ctx'[c].state = "started" => Num(tasks', {c}, LastOps) > 0
  /\ drv'.rewrites = drv.rewrites /\ drv'.canRewrite = drv.canRewrite /\ html' = html

\* What the chains, the nesting and the windows show of such a step.
MovesOn(c) ==
  /\ SameChains
  /\ \A d \in Contexts : ctx'[d].nested = ctx[d].nested
  /\ \A d \in Contexts \ {c} :
       /\ ctx'[d].state = ctx[d].state
       /\ \A K \in {{"Start"}, LastOps, NestedOps} : Num(tasks', {d}, K) = Num(tasks, {d}, K)
       /\ ctx[d].state # "started" => Num(tasks', {d}, ControlOps) = Num(tasks, {d}, ControlOps)
  /\ \/ /\ ctx[c].state = "built" /\ Num(tasks, {c}, {"Start"}) > 0
        /\ ctx'[c].state \in {"started", "done"}
     \/ ctx[c].state = "started" /\ ctx'[c].state \in {"started", "done"}
  /\ Num(tasks', {c}, {"Start"}) = 0 /\ Num(tasks', {c}, NestedOps) = 0
  /\ Num(tasks, {c}, LastOps) > 0 /\ ctx'[c].state = "started" => Num(tasks', {c}, LastOps) > 0
  /\ drv'.rewrites = drv.rewrites /\ drv'.canRewrite = drv.canRewrite /\ html' = html

LEMMA MovesAre == ASSUME NEW c, Moves(c) PROVE MovesOn(c)
<1>1. \A d \in Contexts \ {c} :
        /\ \A K \in {{"Start"}, LastOps, NestedOps} : Num(tasks', {d}, K) = Num(tasks, {d}, K)
        /\ Num(tasks', {d}, ControlOps) = Num(tasks, {d}, ControlOps)
  BY Kinds DEF Moves, SameTasks
<1>2. QED
  BY <1>1 DEF Moves, MovesOn

LEMMA MoveRepeating ==
  ASSUME Frame, PrimaryInv, NEW c \in Contexts, Moves(c), NEW d
  PROVE  Repeating(d)' <=> Repeating(d)
<1>1. \A p \in Contexts : ctx[p].state \in {"unborn", "built"} => ctx[p].repeated = <<>>
  BY DEF PrimaryInv
<1>2. ctx[c].state = "built" => ctx[c].repeated = <<>>
  BY <1>1
<1>3. \A p \in Contexts : ctx'[p].repeated = ctx[p].repeated
  BY DEF Moves
<1>4. \A p \in Contexts : \/ ctx'[p].state = "started" <=> ctx[p].state = "started"
                          \/ ctx[p].repeated = <<>>
  BY <1>2 DEF Moves
<1>5. QED
  BY <1>3, <1>4, RepeatingKept

LEMMA MoveContinues ==
  ASSUME Frame, OneContinuation, PrimaryInv, NEW c \in Contexts, Moves(c), Continuation(c)'
  PROVE  OneContinuation'
<1>1. ASSUME NEW d \in Contexts, d # c PROVE Continuation(d)'
  <2>1. Repeating(d)' <=> Repeating(d)
    BY MoveRepeating
  <2>2. /\ ctx'[d].state = ctx[d].state /\ SameLoad(d) /\ SameTasks(d) /\ SameAsked(d)
        /\ ctx'[d].nested = ctx[d].nested /\ Continuation(d)
    BY <1>1 DEF Moves, OneContinuation
  <2>3. QED
    BY <2>1, <2>2, ContinuationKept
<1>2. Contexts' = Contexts
  BY LinksKept
<1>3. QED
  BY <1>1, <1>2 DEF OneContinuation

LEMMA ChainsKept ==
  ASSUME NEW C, Contexts = C, Typed, Typed', Frame, LinksInv, SameChains,
         \A d \in Contexts :
           ctx'[d].state \in {"started", "done", "retired"} \/ Num(tasks', {d}, {"Start"}) > 0 =>
             OpenLinks(d) = {}
  PROVE  LinksInv'
<1>1. Contexts' = Contexts /\ \A c, d \in Contexts : Links(ctx', c, d) = Links(ctx, c, d)
  BY LinksKept
<1>2. ASSUME NEW d \in Contexts
      PROVE  /\ \A c \in Contexts : ctx'[c].successors[d] \in {0, Cardinality(Links(ctx', c, d))}
             /\ ctx'[d].preds = Cardinality(OpenLinks(d)') + Waiting(ctx'[d])
             /\ (ctx'[d].state \in {"started", "done", "retired"} \/ Num(tasks', {d}, {"Start"}) > 0)
                  => OpenLinks(d)' = {}
  <2>1. OpenLinks(d)' = OpenLinks(d)
    BY OpenLinksKept DEF SameChains
  <2>2. /\ \A c \in Contexts : ctx[c].successors[d] \in {0, Cardinality(Links(ctx, c, d))}
        /\ ctx[d].preds = Cardinality(OpenLinks(d)) + Waiting(ctx[d])
        /\ (ctx[d].state \in {"started", "done", "retired"} \/ Num(tasks, {d}, {"Start"}) > 0)
             => OpenLinks(d) = {}
    BY DEF LinksInv, Waiting
  <2>3. \A c \in Contexts : ctx'[c].successors[d] \in {0, Cardinality(Links(ctx', c, d))}
    BY <1>1, <2>2 DEF SameChains
  <2>4. ctx'[d].preds = Cardinality(OpenLinks(d)) + Waiting(ctx'[d])
    <3>1. ctx'[d] \in CtxType(C) /\ ctx[d] \in CtxType(C)
      BY <1>1 DEF Typed, Types, TypesOf
    <3>2. ctx'[d].preds \in Int /\ Waiting(ctx'[d]) \in Int /\ ctx[d].preds \in Int /\ Waiting(ctx[d]) \in Int
      <4>1. ctx'[d].preds \in Int /\ ctx[d].preds \in Int
        BY <3>1 DEF CtxType
      <4>2. \A x : Waiting(x) \in Int
        BY DEF Waiting
      <4>3. QED
        BY <4>1, <4>2
    <3>3. OpenLinks(d) \subseteq ctx[d].slots
      BY DEF OpenLinks, Links
    <3>4. Cardinality(OpenLinks(d)) \in Int
      BY <3>3, FS_Subset, FS_CardinalityType DEF Typed, Types, Shapes
    <3>5. ctx'[d].preds - Waiting(ctx'[d]) = ctx[d].preds - Waiting(ctx[d])
      BY DEF SameChains
    <3>6. QED
      BY <2>2, <3>2, <3>4, <3>5
  <2>5. QED
    BY <2>1, <2>2, <2>3, <2>4
<1>3. QED
  BY <1>1, <1>2 DEF LinksInv, Waiting

LEMMA MoveLinks ==
  ASSUME Typed, Typed', Frame, LinksInv, NEW c \in Contexts, MovesOn(c)
  PROVE  LinksInv'
<1>1. \A d \in Contexts \ {c} : ctx'[d].state = ctx[d].state
                                /\ Num(tasks', {d}, {"Start"}) = Num(tasks, {d}, {"Start"})
  BY DEF MovesOn
<1>2. ctx[c].state \in {"started", "done", "retired"} \/ Num(tasks, {c}, {"Start"}) > 0
  BY DEF MovesOn
<1>3. SameChains
  BY DEF MovesOn
<1>4. QED
  <2>1. \A d \in Contexts :
          ctx'[d].state \in {"started", "done", "retired"} \/ Num(tasks', {d}, {"Start"}) > 0 =>
            OpenLinks(d) = {}
    BY <1>1, <1>2 DEF LinksInv
  <2>2. QED
    BY <1>3, <2>1, ChainsKept

LEMMA MoveNested ==
  ASSUME Typed, Typed', Frame, NestedInv, NEW c \in Contexts, MovesOn(c)
  PROVE  NestedInv'
<1>1. Contexts' = Contexts /\ \A d \in Contexts : Children(d)' = Children(d) /\ Children(d) \subseteq Contexts
  BY LinksKept DEF Children
<1>2. /\ ctx[c].state \in {"built", "started"} /\ ctx'[c].state \in {"started", "done"}
      /\ Num(tasks', {c}, NestedOps) = 0
      /\ ctx'[c].state = "started" /\ ctx[c].state = "started" =>
           (Num(tasks, {c}, LastOps) > 0 => Num(tasks', {c}, LastOps) > 0)
      /\ ctx[c].state = "started" \/ Num(tasks, {c}, {"Start"}) > 0
  BY DEF MovesOn
<1>3. \A d \in Contexts \ {c} :
        /\ ctx'[d].state = ctx[d].state
        /\ Num(tasks', {d}, LastOps) = Num(tasks, {d}, LastOps)
        /\ Num(tasks', {d}, NestedOps) = Num(tasks, {d}, NestedOps)
        /\ ctx[d].state # "started" => Num(tasks', {d}, ControlOps) = Num(tasks, {d}, ControlOps)
  BY DEF MovesOn
<1>4. \A d \in Contexts : ctx'[d].nested = ctx[d].nested
  BY DEF MovesOn
<1>5. \A d \in Contexts : /\ (ctx'[d].state \in Live) <=> (ctx[d].state \in Live)
                          /\ (ctx'[d].state = "unborn") <=> (ctx[d].state = "unborn")
                          /\ (ctx'[d].state = "deleted") <=> (ctx[d].state = "deleted")
                          /\ ctx'[d].state = "built" => ctx[d].state = "built"
  BY <1>2, <1>3 DEF Live
<1>6. Num(tasks, {c}, ControlOps) = 0 => Num(tasks, {c}, {"Start"}) = 0
  <2>1. tasks \in Seq(TaskOf(Contexts)) /\ {"Start"} \subseteq ControlOps
    BY KindsApart, Kinds DEF Typed, Types, TypesOf
  <2>2. QED
    BY <2>1, NumNone
<1> DEFINE Q(p, Ch) ==
             /\ ctx'[p].nested = Cardinality({d \in Ch : ctx'[d].state \in Live})
             /\ (\A d \in Ch : ctx'[d].state = "unborn")
                  \/ /\ \A d \in Ch : ctx'[d].state # "unborn"
                     /\ ctx'[p].state \notin {"unborn", "built"}
                     /\ ctx'[p].state = "started" => ctx'[p].nested > 0 \/ Num(tasks', {p}, LastOps) > 0
             /\ \A d \in Ch : ctx'[d].state = "deleted" => ctx'[p].state = "deleted"
             /\ ctx'[p].state = "deleted" => \A d \in Ch : ctx'[d].state \in {"unborn", "deleted"}
             /\ Num(tasks', {p}, NestedOps) > 0 =>
                  \A d \in Ch : ctx'[d].state = "built" /\ Num(tasks', {d}, ControlOps) = 0
<1>7. ASSUME NEW p \in Contexts PROVE Q(p, Children(p))
  <2>1. /\ ctx[p].nested = Cardinality({d \in Children(p) : ctx[d].state \in Live})
        /\ (\A d \in Children(p) : ctx[d].state = "unborn")
             \/ /\ \A d \in Children(p) : ctx[d].state # "unborn"
                /\ ctx[p].state \notin {"unborn", "built"}
                /\ ctx[p].state = "started" => ctx[p].nested > 0 \/ Num(tasks, {p}, LastOps) > 0
        /\ \A d \in Children(p) : ctx[d].state = "deleted" => ctx[p].state = "deleted"
        /\ ctx[p].state = "deleted" => \A d \in Children(p) : ctx[d].state \in {"unborn", "deleted"}
        /\ Num(tasks, {p}, NestedOps) > 0 =>
             \A d \in Children(p) : ctx[d].state = "built" /\ Num(tasks, {d}, ControlOps) = 0
    BY DEF NestedInv
  <2>2. {d \in Children(p) : ctx'[d].state \in Live} = {d \in Children(p) : ctx[d].state \in Live}
    BY <1>1, <1>5
  <2>3. ctx'[p].nested = Cardinality({d \in Children(p) : ctx'[d].state \in Live})
    BY <1>4, <2>1, <2>2
  <2>4. (\A d \in Children(p) : ctx'[d].state = "unborn")
          \/ /\ \A d \in Children(p) : ctx'[d].state # "unborn"
             /\ ctx'[p].state \notin {"unborn", "built"}
             /\ ctx'[p].state = "started" => ctx'[p].nested > 0 \/ Num(tasks', {p}, LastOps) > 0
    <3>1. CASE \A d \in Children(p) : ctx[d].state = "unborn"
      BY <1>1, <1>5, <3>1
    <3>2. CASE /\ \A d \in Children(p) : ctx[d].state # "unborn"
               /\ ctx[p].state \notin {"unborn", "built"}
               /\ ctx[p].state = "started" => ctx[p].nested > 0 \/ Num(tasks, {p}, LastOps) > 0
      <4>1. \A d \in Children(p) : ctx'[d].state # "unborn"
        BY <1>1, <1>5, <3>2
      <4>2. ctx'[p].state \notin {"unborn", "built"}
        BY <1>2, <1>3, <3>2
      <4>3. ctx'[p].state = "started" => ctx'[p].nested > 0 \/ Num(tasks', {p}, LastOps) > 0
        <5>1. CASE p = c
          BY <1>2, <1>4, <3>2, <5>1
        <5>2. CASE p # c
          BY <1>3, <1>4, <3>2, <5>2
        <5>3. QED
          BY <5>1, <5>2
      <4>4. QED
        BY <4>1, <4>2, <4>3
    <3>3. QED
      BY <2>1, <3>1, <3>2
  <2>5. \A d \in Children(p) : ctx'[d].state = "deleted" => ctx'[p].state = "deleted"
    BY <1>1, <1>5, <2>1
  <2>6. ctx'[p].state = "deleted" => \A d \in Children(p) : ctx'[d].state \in {"unborn", "deleted"}
    BY <1>1, <1>5, <2>1
  <2>7. Num(tasks', {p}, NestedOps) > 0 =>
          \A d \in Children(p) : ctx'[d].state = "built" /\ Num(tasks', {d}, ControlOps) = 0
    <3>1. SUFFICES ASSUME Num(tasks', {p}, NestedOps) > 0, NEW d \in Children(p)
                   PROVE  ctx'[d].state = "built" /\ Num(tasks', {d}, ControlOps) = 0
      OBVIOUS
    <3>2. p # c
      BY <1>2, <3>1
    <3>3. ctx[d].state = "built" /\ Num(tasks, {d}, ControlOps) = 0
      BY <1>3, <2>1, <3>1, <3>2
    <3>4. d # c
      BY <1>2, <1>6, <3>3
    <3>5. QED
      BY <1>1, <1>3, <3>3, <3>4
  <2>8. QED
    BY <2>3, <2>4, <2>5, <2>6, <2>7
<1> HIDE DEF Q
<1>8. \A p \in Contexts : Q(p, Children(p)')
  BY <1>1, <1>7
<1>9. QED
  BY <1>1, <1>8 DEF NestedInv, Q

LEMMA MoveWindows ==
  ASSUME Typed, Frame, WindowsInv, NEW c \in Contexts, MovesOn(c)
  PROVE  WindowsInv'
<1>1. Contexts' = Contexts /\ \A d \in Contexts : (Top(d)' <=> Top(d)) /\ ctx'[d].window = ctx[d].window
  BY LinksKept DEF Frame, Keeps, Contexts
<1>2. /\ ctx[c].state \in {"built", "started"} /\ ctx'[c].state \in {"started", "done"}
      /\ ctx[c].state = "started" \/ Num(tasks, {c}, {"Start"}) > 0
      /\ drv'.rewrites = drv.rewrites /\ drv'.canRewrite = drv.canRewrite /\ html' = html
  BY DEF MovesOn
<1>3. \A d \in Contexts \ {c} : /\ ctx'[d].state = ctx[d].state
                                /\ ctx[d].state # "started" => Num(tasks', {d}, ControlOps) = Num(tasks, {d}, ControlOps)
  BY DEF MovesOn
<1>4. Num(tasks, {c}, ControlOps) = 0 => Num(tasks, {c}, {"Start"}) = 0
  <2>1. tasks \in Seq(TaskOf(Contexts)) /\ {"Start"} \subseteq ControlOps
    BY KindsApart, Kinds DEF Typed, Types, TypesOf
  <2>2. QED
    BY <2>1, NumNone
<1>5. \A d \in Contexts : OpenLinks(d)' = OpenLinks(d)
  BY OpenLinksKept DEF MovesOn, SameChains
<1>6. c \notin drv.rewrites /\ drv.canRewrite
  <2>1. c \notin drv.rewrites
    BY <1>2, <1>4 DEF WindowsInv
  <2>2. drv.canRewrite \in BOOLEAN
    BY DEF Typed, Types, TypesOf
  <2>3. drv.canRewrite
    BY <1>2, <2>2 DEF WindowsInv
  <2>4. QED
    BY <2>1, <2>3
<1>7. \A d \in drv.rewrites : d \in Contexts
  BY DEF Typed, FlushInv, WindowInv
<1>8. ASSUME NEW d \in Contexts, Top(d)
      PROVE  /\ ctx'[d].state = "unborn" =>
                 ctx[d].window > html.window \/ (ctx[d].window = html.window /\ html.pc = "parsing")
             /\ ctx'[d].state # "unborn" =>
                 /\ ctx[d].window <= html.window
                 /\ drv.canRewrite /\ ctx[d].window = html.window /\ html.pc = "parsing"
                      => d \in drv.rewrites
             /\ ctx'[d].state = "deleted" /\ drv.canRewrite => OpenLinks(d) = {}
  <2>1. /\ ctx'[d].state = "unborn" => ctx[d].state = "unborn"
        /\ ctx'[d].state # "unborn" => ctx[d].state # "unborn"
        /\ ctx'[d].state = "deleted" => ctx[d].state = "deleted"
    BY <1>2, <1>3
  <2>2. QED
    BY <1>8, <2>1 DEF WindowsInv
<1>9. \A d \in drv.rewrites : Top(d) /\ ctx'[d].state = "built" /\ Num(tasks', {d}, ControlOps) = 0
  BY <1>3, <1>6, <1>7 DEF WindowsInv
<1>10. QED
  BY <1>1, <1>2, <1>5, <1>6, <1>7, <1>8, <1>9 DEF WindowsInv

LEMMA PrimaryKept ==
  ASSUME NEW C, Contexts = C, Typed, Frame, PrimaryInv, primary' = primary,
         \A d \in C : /\ ctx'[d].repeated = ctx[d].repeated
                      /\ ctx'[d].state \in {"unborn", "built"} => ctx[d].state \in {"unborn", "built"}
                      /\ ctx[d].state \in {"started", "done"} => ctx'[d].state \in {"started", "done"}
                      /\ ctx'[d].state = "started" => ctx[d].state \in {"started", "built"}
  PROVE  PrimaryInv'
<1>1. Contexts' = C /\ \A d \in C : ctx'[d].key = ctx[d].key /\ Repeats(d)' = Repeats(d)
  BY DEF Frame, Keeps, Contexts, Repeats
<1>2. \A k \in DOMAIN primary : primary[k] \in C \cup {NoContext}
  BY DEF Typed, Types, TypesOf
<1>3. \A k \in DOMAIN primary : primary[k] # NoContext =>
        ctx'[primary[k]].key = k /\ ctx'[primary[k]].state \in {"started", "done"}
  BY <1>1, <1>2 DEF PrimaryInv
<1>4. ASSUME NEW p \in C
      PROVE  /\ ctx'[p].state \in {"unborn", "built"} => ctx'[p].repeated = <<>>
             /\ ctx'[p].repeated # <<>> /\ ctx'[p].state = "started" => primary[ctx[p].key] = p
             /\ \A i, j \in DOMAIN ctx'[p].repeated :
                  ctx'[p].repeated[i] = ctx'[p].repeated[j] => i = j
             /\ \A c \in Repeats(p) : ctx'[c].key = ctx'[p].key
  <2>1. /\ ctx[p].state \in {"unborn", "built"} => ctx[p].repeated = <<>>
        /\ ctx[p].repeated # <<>> /\ ctx[p].state = "started" => primary[ctx[p].key] = p
        /\ \A i, j \in DOMAIN ctx[p].repeated : ctx[p].repeated[i] = ctx[p].repeated[j] => i = j
        /\ \A c \in Repeats(p) : ctx[c].key = ctx[p].key
    BY DEF PrimaryInv
  <2>2. Repeats(p) \subseteq C
    <3>1. ctx[p] \in CtxType(C)
      BY DEF Typed, Types, TypesOf
    <3>2. ctx[p].repeated \in Seq(C)
      BY <3>1 DEF CtxType
    <3>3. QED
      BY <3>2, ElementOfSeq, LenProperties DEF Repeats
  <2>3. QED
    BY <1>1, <2>1, <2>2
<1>5. QED
  BY <1>1, <1>3, <1>4 DEF PrimaryInv

LEMMA MovePrimary ==
  ASSUME Typed, Frame, PrimaryInv, NEW c \in Contexts, Moves(c), primary' = primary
  PROVE  PrimaryInv'
<1>1. \A d \in Contexts :
        /\ ctx'[d].repeated = ctx[d].repeated
        /\ ctx'[d].state \in {"unborn", "built"} => ctx[d].state \in {"unborn", "built"}
        /\ ctx[d].state \in {"started", "done"} => ctx'[d].state \in {"started", "done"}
        /\ ctx'[d].state = "started" => ctx[d].state \in {"started", "built"}
  BY DEF Moves
<1>2. QED
  BY <1>1, PrimaryKept

---------------------------------------------------------------------------
(* Steps that start and end no load.                                        *)

LEMMA ResumptionsCount ==
  ASSUME NEW C, NEW t \in Seq(TaskOf(C))
  PROVE  Cardinality({i \in DOMAIN t : t[i].op \in Resumptions}) = Num(t, C, Resumptions)
<1>2. \A i \in DOMAIN t : t[i] \in TaskOf(C)
  BY ElementOfSeq, LenProperties
<1>3. \A i \in DOMAIN t : t[i].c \in C
  BY <1>2 DEF TaskOf
<1>4. {i \in DOMAIN t : t[i].op \in Resumptions}
        = {i \in DOMAIN t : t[i].c \in C /\ t[i].op \in Resumptions}
  BY <1>3
<1>5. QED
  BY <1>4 DEF Num

LEMMA LoadsKept ==
  ASSUME NEW C, Contexts = C, Typed, Typed', Frame, LoadsInv, SameLoads, loading' = loading,
         budget'.loads = budget.loads, budget'.waiting = budget.waiting,
         \A d \in C : /\ SameLoad(d) /\ ctx'[d].next = ctx[d].next
                      /\ \/ ctx'[d].revalidate = ctx[d].revalidate
                         \/ ~ctx[d].waits /\ ctx'[d].revalidate >= 0
  PROVE  LoadsInv'
<1>1. Contexts' = Contexts
  BY LinksKept
<1>2. ASSUME NEW d \in C PROVE LoadsOf(d)' /\ ctx'[d].fetches <= MaxLoads
  <2>1. LoadsOf(d) /\ ctx[d].fetches <= MaxLoads /\ SameLoad(d) /\ ctx'[d].next = ctx[d].next
    BY DEF LoadsInv
  <2>2. /\ Num(tasks', {d}, LoadOps) = Num(tasks, {d}, LoadOps)
        /\ Num(tasks', {d}, Resumptions) = Num(tasks, {d}, Resumptions)
        /\ Num(tasks', {d}, {"ResumeRevalidateInputs"}) = Num(tasks, {d}, {"ResumeRevalidateInputs"})
    BY Kinds DEF SameLoads
  <2>3. CASE ctx'[d].revalidate = ctx[d].revalidate
    BY <2>1, <2>2, <2>3 DEF LoadsOf, SameLoad
  <2>4. CASE ~ctx[d].waits /\ ctx'[d].revalidate >= 0
    <3>1. tasks \in Seq(TaskOf(C)) /\ budget.waiting \in Seq(WaitOf(C))
      BY DEF Typed, Types, TypesOf, BudgetOf
    <3>2. Num(tasks, {d}, Resumptions) \in Nat /\ Num(budget.waiting, {d}, Resumptions) \in Nat
      BY <3>1, NumPlaces
    <3>3. Num(tasks, {d}, Resumptions) = 0 /\ Num(budget.waiting, {d}, Resumptions) = 0
      BY <2>1, <2>4, <3>2 DEF LoadsOf
    <3>4. {"ResumeRevalidateInputs"} \subseteq Resumptions
      BY DEF Resumptions
    <3>5. Num(tasks, {d}, {"ResumeRevalidateInputs"}) = 0
          /\ Num(budget.waiting, {d}, {"ResumeRevalidateInputs"}) = 0
      BY <3>1, <3>3, <3>4, NumNone
    <3>6. QED
      BY <2>1, <2>2, <2>4, <3>5 DEF LoadsOf, SameLoad
  <2>5. QED
    BY <2>3, <2>4
<1>3. InFlight' = InFlight
  BY <1>1 DEF InFlight, SameLoad
<1>4. NoWaiterForgotten'
  <2>1. /\ Cardinality({i \in DOMAIN tasks : tasks[i].op \in Resumptions}) = Num(tasks, Contexts, Resumptions)
        /\ Cardinality({i \in DOMAIN tasks' : tasks'[i].op \in Resumptions}) = Num(tasks', Contexts', Resumptions)
    <3>1. tasks \in Seq(TaskOf(Contexts)) /\ tasks' \in Seq(TaskOf(Contexts'))
      BY DEF Typed, Types, TypesOf
    <3>2. QED
      BY <3>1, ResumptionsCount
  <2>2. Num(tasks', Contexts', Resumptions) = Num(tasks, Contexts, Resumptions)
    BY <1>1 DEF SameLoads
  <2>3. NoWaiterForgotten
    BY DEF LoadsInv
  <2>4. QED
    BY <2>1, <2>2, <2>3 DEF NoWaiterForgotten, Room
<1>5. QED
  BY <1>1, <1>2, <1>3, <1>4 DEF LoadsInv

---------------------------------------------------------------------------
(* The order of the ends.                                                   *)

NoEnds(t) == \A i \in DOMAIN t : t[i].op \notin EndingOps

LEMMA NoneEnds ==
  ASSUME NEW C, tasks \in Seq(TaskOf(C)), tasks # <<>>, EndsFirst, Head(tasks).op \notin EndingOps
  PROVE  NoEnds(tasks) /\ NoEnds(Tail(tasks))
<1>1. /\ Len(tasks) \in Nat /\ DOMAIN tasks = 1..Len(tasks) /\ Head(tasks) = tasks[1] /\ Len(tasks) > 0
      /\ DOMAIN Tail(tasks) = 1..(Len(tasks) - 1) /\ \A i \in 1..(Len(tasks) - 1) : Tail(tasks)[i] = tasks[i + 1]
  OBVIOUS
<1>2. ASSUME NEW i \in DOMAIN tasks PROVE tasks[i].op \notin EndingOps
  <2>1. CASE i = 1
    BY <1>1, <2>1
  <2>2. CASE i # 1
    <3>1. 1 < i /\ 1 \in DOMAIN tasks
      BY <1>1, <2>2
    <3>2. QED
      BY <1>1, <3>1 DEF EndsFirst
  <2>3. QED
    BY <2>1, <2>2
<1>3. ASSUME NEW i \in DOMAIN Tail(tasks) PROVE Tail(tasks)[i].op \notin EndingOps
  <2>1. i + 1 \in DOMAIN tasks
    BY <1>1
  <2>2. QED
    BY <1>1, <1>2, <2>1
<1>4. QED
  BY <1>2, <1>3 DEF NoEnds

LEMMA NoEndsFirst == ASSUME NoEnds(tasks') PROVE EndsFirst'
  BY DEF NoEnds, EndsFirst, EndingOps

LEMMA NoEndsConcat ==
  ASSUME NEW T, NEW s \in Seq(T), NEW t \in Seq(T), NoEnds(s), NoEnds(t)
  PROVE  NoEnds(s \o t)
<1> DEFINE u == s \o t
<1>1. /\ Len(s) \in Nat /\ Len(t) \in Nat /\ DOMAIN s = 1..Len(s) /\ DOMAIN t = 1..Len(t)
      /\ DOMAIN u = 1..(Len(s) + Len(t))
      /\ \A i \in 1..(Len(s) + Len(t)) : u[i] = IF i <= Len(s) THEN s[i] ELSE t[i - Len(s)]
  BY ConcatProperties, LenProperties
<1> HIDE DEF u
<1>2. ASSUME NEW i \in DOMAIN u PROVE u[i].op \notin EndingOps
  <2>1. CASE i <= Len(s)
    BY <1>1, <2>1 DEF NoEnds
  <2>2. CASE ~(i <= Len(s))
    <3>1. i - Len(s) \in DOMAIN t
      BY <1>1, <2>2
    <3>2. QED
      BY <1>1, <2>2, <3>1 DEF NoEnds
  <2>3. QED
    BY <2>1, <2>2
<1>3. QED
  BY <1>2 DEF NoEnds, u

LEMMA NoEndsOne == ASSUME NEW x, x.op \notin EndingOps PROVE NoEnds(<<x>>)
<1>1. DOMAIN <<x>> = {1} /\ <<x>>[1] = x
  OBVIOUS
<1>2. QED
  BY <1>1 DEF NoEnds

LEMMA RetireFirst ==
  ASSUME NEW T, NEW x \in T, NEW t \in Seq(T), tasks' = <<x>> \o t, x.op = "Retire", NoEnds(t)
  PROVE  EndsFirst'
<1>1. /\ Len(t) \in Nat /\ DOMAIN t = 1..Len(t) /\ DOMAIN tasks' = 1..(1 + Len(t)) /\ tasks'[1] = x
      /\ \A i \in 1..(1 + Len(t)) : i # 1 => tasks'[i] = t[i - 1] /\ i - 1 \in 1..Len(t)
  OBVIOUS
<1>2. \A i \in DOMAIN tasks' : i # 1 => tasks'[i].op \notin EndingOps
  BY <1>1 DEF NoEnds
<1>3. "Retire" \notin RepeatedOps /\ RepeatedOps \subseteq EndingOps
  BY DEF RepeatedOps, EndingOps
<1>4. ASSUME NEW i \in DOMAIN tasks', NEW j \in DOMAIN tasks', i < j, tasks'[j].op \in EndingOps
      PROVE  tasks'[i].op \in EndingOps
  <2>1. j # 1
    BY <1>1, <1>4
  <2>2. QED
    BY <1>2, <1>4, <2>1
<1>5. \A i \in DOMAIN tasks' : tasks'[i].op \notin RepeatedOps
  BY <1>1, <1>2, <1>3
<1>6. QED
  BY <1>4, <1>5 DEF EndsFirst

LEMMA EndsAppended ==
  ASSUME NEW C, Contexts = C, TypesOf(C), Frame, EndsFirst, NEW s \in Seq(TaskOf(C)), NoEnds(s),
         tasks' = tasks \o s, primary' = primary
  PROVE  EndsFirst'
<1> DEFINE n == Len(tasks)
<1>1. /\ n \in Nat /\ Len(s) \in Nat /\ DOMAIN tasks = 1..n /\ DOMAIN s = 1..Len(s)
      /\ DOMAIN tasks' = 1..(n + Len(s))
      /\ \A i \in 1..(n + Len(s)) : tasks'[i] = IF i <= n THEN tasks[i] ELSE s[i - n]
  <2>1. tasks \in Seq(TaskOf(C))
    BY DEF TypesOf
  <2>2. QED
    BY <2>1, ConcatProperties, LenProperties
<1> HIDE DEF n
<1>2. \A i \in DOMAIN tasks' : tasks'[i].op \in EndingOps => i \in DOMAIN tasks /\ tasks'[i] = tasks[i]
  <2>1. ASSUME NEW i \in DOMAIN tasks', ~(i <= n) PROVE tasks'[i].op \notin EndingOps
    <3>1. i - n \in DOMAIN s
      BY <1>1, <2>1
    <3>2. QED
      BY <1>1, <2>1, <3>1 DEF NoEnds
  <2>2. QED
    BY <1>1, <2>1
<1>3. \A i \in DOMAIN tasks : i \in DOMAIN tasks' /\ tasks'[i] = tasks[i] /\ tasks[i].c \in C
  <2>1. \A i \in DOMAIN tasks : tasks[i] \in TaskOf(C)
    BY <1>1, ElementOfSeq DEF TypesOf
  <2>2. QED
    BY <1>1, <2>1 DEF TaskOf
<1>4. \A d \in C : ctx'[d].key = ctx[d].key
  BY DEF Frame, Keeps, Contexts
<1>5. ASSUME NEW i \in DOMAIN tasks', NEW j \in DOMAIN tasks', i < j, tasks'[j].op \in EndingOps
      PROVE  tasks'[i].op \in EndingOps
  <2>1. j \in DOMAIN tasks /\ tasks'[j] = tasks[j] /\ i \in DOMAIN tasks
    BY <1>1, <1>2, <1>5
  <2>2. QED
    BY <1>3, <1>5, <2>1 DEF EndsFirst
<1>6. ASSUME NEW i \in DOMAIN tasks', tasks'[i].op \in RepeatedOps
      PROVE  \E j \in DOMAIN tasks' : /\ i < j /\ tasks'[j].op = "Retire"
                                      /\ tasks'[j].c = primary'[ctx'[tasks'[i].c].key]
  <2>1. i \in DOMAIN tasks /\ tasks'[i] = tasks[i]
    BY <1>2, <1>6 DEF EndingOps
  <2>2. PICK j \in DOMAIN tasks : /\ i < j /\ tasks[j].op = "Retire"
                                  /\ tasks[j].c = primary[ctx[tasks[i].c].key]
    BY <1>6, <2>1 DEF EndsFirst
  <2>3. QED
    BY <1>3, <1>4, <2>1, <2>2
<1>7. QED
  BY <1>5, <1>6 DEF EndsFirst

\* The first task, itself an end, becomes a Retire or goes.
LEMMA EndsReplaced ==
  ASSUME NEW C, Contexts = C, TypesOf(C), Frame, EndsFirst, tasks # <<>>,
         Head(tasks).op \in RepeatedOps, NEW x \in TaskOf(C), x.op = "Retire", tasks' = Call(x),
         primary' = primary
  PROVE  EndsFirst'
<1>1. /\ Len(tasks) \in Nat /\ DOMAIN tasks = 1..Len(tasks) /\ Len(tasks) > 0 /\ Head(tasks) = tasks[1]
      /\ DOMAIN tasks' = DOMAIN tasks /\ tasks'[1] = x
      /\ \A i \in DOMAIN tasks : i # 1 => tasks'[i] = tasks[i]
  <2>1. tasks \in Seq(TaskOf(C))
    BY DEF TypesOf
  <2>2. QED
    BY <2>1 DEF Call
<1>2. \A i \in DOMAIN tasks : tasks[i].c \in C
  <2>1. \A i \in DOMAIN tasks : tasks[i] \in TaskOf(C)
    BY <1>1, ElementOfSeq DEF TypesOf
  <2>2. QED
    BY <2>1 DEF TaskOf
<1>3. \A d \in C : ctx'[d].key = ctx[d].key
  BY DEF Frame, Keeps, Contexts
<1>4. "Retire" \in EndingOps /\ "Retire" \notin RepeatedOps
  BY DEF EndingOps, RepeatedOps
<1>5. ASSUME NEW i \in DOMAIN tasks', NEW j \in DOMAIN tasks', i < j, tasks'[j].op \in EndingOps
      PROVE  tasks'[i].op \in EndingOps
  <2>1. j # 1
    BY <1>1, <1>5
  <2>2. QED
    BY <1>1, <1>4, <1>5, <2>1 DEF EndsFirst
<1>6. ASSUME NEW i \in DOMAIN tasks', tasks'[i].op \in RepeatedOps
      PROVE  \E j \in DOMAIN tasks' : /\ i < j /\ tasks'[j].op = "Retire"
                                      /\ tasks'[j].c = primary'[ctx'[tasks'[i].c].key]
  <2>1. i # 1 /\ i \in DOMAIN tasks /\ tasks'[i] = tasks[i]
    BY <1>1, <1>4, <1>6
  <2>2. PICK j \in DOMAIN tasks : /\ i < j /\ tasks[j].op = "Retire"
                                  /\ tasks[j].c = primary[ctx[tasks[i].c].key]
    BY <1>6, <2>1 DEF EndsFirst
  <2>3. j # 1
    BY <1>1, <2>1, <2>2
  <2>4. QED
    BY <1>1, <1>2, <1>3, <2>1, <2>2, <2>3
<1>7. QED
  BY <1>5, <1>6 DEF EndsFirst

LEMMA EndsRetired ==
  ASSUME NEW C, Contexts = C, TypesOf(C), Frame, EndsFirst, tasks # <<>>, Head(tasks).op = "Retire",
         Num(Tail(tasks), {Running}, {"Retire"}) = 0,
         NEW s \in Seq(TaskOf(C)), NoEnds(s), tasks' = Tail(tasks) \o s,
         \A k \in DOMAIN primary : primary'[k] = primary[k] \/ primary[k] = Running
  PROVE  EndsFirst'
<1> DEFINE n == Len(tasks) - 1
           r == Tail(tasks)
<1>1. /\ n \in Nat /\ DOMAIN tasks = 1..(n + 1) /\ r \in Seq(TaskOf(C)) /\ Len(r) = n /\ DOMAIN r = 1..n
      /\ \A i \in 1..n : r[i] = tasks[i + 1]
  <2>1. tasks \in Seq(TaskOf(C))
    BY DEF TypesOf
  <2>2. QED
    BY <2>1
<1> HIDE DEF n, r
<1>2. /\ Len(s) \in Nat /\ DOMAIN s = 1..Len(s) /\ DOMAIN tasks' = 1..(n + Len(s))
      /\ \A i \in 1..(n + Len(s)) : tasks'[i] = IF i <= n THEN r[i] ELSE s[i - n]
  BY <1>1, ConcatProperties, LenProperties DEF r
<1>3. ASSUME NEW i \in DOMAIN tasks', tasks'[i].op \in EndingOps
      PROVE  i \in 1..n /\ i + 1 \in DOMAIN tasks /\ tasks'[i] = tasks[i + 1]
  <2>1. CASE ~(i <= n)
    <3>1. i - n \in DOMAIN s
      BY <1>1, <1>2, <2>1
    <3>2. QED
      BY <1>2, <1>3, <2>1, <3>1 DEF NoEnds
  <2>2. CASE i <= n
    BY <1>1, <1>2, <2>2
  <2>3. QED
    BY <2>1, <2>2
<1>4. \A i \in 1..n : i \in DOMAIN tasks' /\ tasks'[i] = tasks[i + 1] /\ i + 1 \in DOMAIN tasks
  BY <1>1, <1>2
<1>5. \A i \in DOMAIN tasks : tasks[i].c \in C
  <2>1. \A i \in DOMAIN tasks : tasks[i] \in TaskOf(C)
    BY ElementOfSeq, LenProperties DEF TypesOf
  <2>2. QED
    BY <2>1 DEF TaskOf
<1>6. \A d \in C : ctx'[d].key = ctx[d].key /\ ctx[d].key \in DOMAIN primary
  BY DEF Frame, Keeps, Contexts, TypesOf
<1>7. \A i \in 1..n : ~(r[i].c = Running /\ r[i].op = "Retire")
  <2>1. Num(r, {Running}, {"Retire"}) = 0
    BY DEF r
  <2>2. \A i \in DOMAIN r : ~(r[i].c \in {Running} /\ r[i].op \in {"Retire"})
    BY <1>1, <2>1, NumPlaces
  <2>3. QED
    BY <1>1, <2>2
<1>8. ASSUME NEW i \in DOMAIN tasks', NEW j \in DOMAIN tasks', i < j, tasks'[j].op \in EndingOps
      PROVE  tasks'[i].op \in EndingOps
  <2>1. j \in 1..n /\ j + 1 \in DOMAIN tasks /\ tasks'[j] = tasks[j + 1]
    BY <1>3, <1>8
  <2>2. i \in 1..n /\ i + 1 < j + 1
    BY <1>1, <1>2, <1>8, <2>1
  <2>3. tasks'[i] = tasks[i + 1] /\ i + 1 \in DOMAIN tasks
    BY <1>4, <2>2
  <2>4. QED
    BY <1>8, <2>1, <2>2, <2>3 DEF EndsFirst
<1>9. ASSUME NEW i \in DOMAIN tasks', tasks'[i].op \in RepeatedOps
      PROVE  \E j \in DOMAIN tasks' : /\ i < j /\ tasks'[j].op = "Retire"
                                      /\ tasks'[j].c = primary'[ctx'[tasks'[i].c].key]
  <2>1. i \in 1..n /\ i + 1 \in DOMAIN tasks /\ tasks'[i] = tasks[i + 1]
    BY <1>3, <1>9 DEF EndingOps
  <2>2. PICK j \in DOMAIN tasks : /\ i + 1 < j /\ tasks[j].op = "Retire"
                                  /\ tasks[j].c = primary[ctx[tasks[i + 1].c].key]
    BY <1>9, <2>1 DEF EndsFirst
  <2> DEFINE k == ctx[tasks[i + 1].c].key
  <2>3. k \in DOMAIN primary /\ ctx'[tasks'[i].c].key = k
    BY <1>5, <1>6, <2>1
  <2> HIDE DEF k
  <2>4. j - 1 \in 1..n /\ i < j - 1 /\ (j - 1) + 1 = j
    BY <1>1, <2>1, <2>2
  <2>5. tasks'[j - 1] = tasks[j] /\ r[j - 1] = tasks[j] /\ j - 1 \in DOMAIN tasks'
    BY <1>1, <1>4, <2>4
  <2>6. tasks[j].c # Running
    BY <1>7, <2>2, <2>4, <2>5
  <2>7. primary'[k] = primary[k]
    BY <2>2, <2>3, <2>6 DEF k
  <2>8. tasks'[j - 1].c = primary'[ctx'[tasks'[i].c].key]
    BY <2>2, <2>3, <2>5, <2>7 DEF k
  <2>9. QED
    BY <2>2, <2>4, <2>5, <2>8
<1>10. QED
  BY <1>8, <1>9 DEF EndsFirst

---------------------------------------------------------------------------
(* The steps that take one context from one control task to the next.       *)

SameParts(d) ==
  /\ ctx'[d].nested = ctx[d].nested /\ ctx'[d].repeated = ctx[d].repeated
  /\ ctx'[d].successors = ctx[d].successors /\ ctx'[d].preds = ctx[d].preds
  /\ ctx'[d].fetches = ctx[d].fetches /\ ctx'[d].waits = ctx[d].waits /\ ctx'[d].next = ctx[d].next

SameWork ==
  /\ drv'.rewrites = drv.rewrites /\ drv'.canRewrite = drv.canRewrite /\ html' = html
  /\ loading' = loading /\ budget'.loads = budget.loads /\ budget'.waiting = budget.waiting

\* The tasks after a control task of c: o is the next one, if any.
Follows(o) ==
  /\ tasks # <<>> /\ Head(tasks).op \in ControlOps
  /\ \/ o = "none" /\ tasks' = Tail(tasks)
     \/ o \in ControlOps \ RepeatedOps /\ \E a \in Args : tasks' = Call(Task(o, Running, a))

\* The states a control task may leave its context in.
Passes(c, h, o) ==
  \/ h = "Start" /\ ctx'[c].state \in {"started", "done"}
  \/ h \in StartedOps /\ ctx'[c].state = "started" /\ (h \in LastOps => o \in LastOps)
  \/ h \in StartedOps /\ ctx'[c].state = "done" /\ ctx[c].repeated = <<>>

Step(c, h, o, S) ==
  /\ Follows(o) /\ Passes(c, h, o) /\ SameWork
  /\ \A d \in Contexts :
       /\ SameParts(d)
       /\ ctx'[d].revalidate = ctx[d].revalidate \/ (d = c /\ ctx'[d].revalidate >= 0)
       /\ d # c => ctx'[d].state = ctx[d].state /\ SameAsked(d)
  /\ \A k \in {"lookup", "lock", "rewrite"} : <<k, c>> \in asked' <=> k \in S
  /\ S \subseteq {"lookup", "lock", "rewrite"}
  /\ \/ ctx'[c].state = "started" /\ o \in StartedOps /\ S = {}
     \/ ctx'[c].state = "started" /\ o = "none" /\ \E k \in {"lookup", "lock", "rewrite"} : S = {k}
     \/ ctx'[c].state = "done" /\ o = "Retire" /\ S = {}

LEMMA StepKeeps ==
  ASSUME NEW C, Contexts = C, Typed, Typed', Frame, Core, NEW o, NEW S,
         NEW c, c = Running, NEW h, h = Head(tasks).op, Step(c, h, o, S),
         h \in EndingOps => o = "Retire" /\ primary' = primary
  PROVE  /\ OneContinuation' /\ LoadsInv' /\ LinksInv' /\ NestedInv' /\ WindowsInv' /\ EndsFirst'
         /\ primary' = primary => PrimaryInv'
<1>1. c \in C /\ Runs(c, h)
  BY HeadRuns DEF Core, Step, Follows
<1>2. tasks \in Seq(TaskOf(C)) /\ tasks # <<>> /\ h \in ControlOps /\ TypesOf(C)
  BY DEF Typed, Types, TypesOf, Step, Follows
<1>14. \A K \in ControlKinds : Num(Tail(tasks), {c}, K) = 0
  BY <1>1 DEF Runs
<1>3. Now(c, o) /\ (\A d \in C \ {c} : SameTasks(d)) /\ SameLoads
  <2>1. \/ o = "none" /\ tasks' = Tail(tasks)
        \/ o \in ControlOps /\ \E a \in Args : tasks' = Call(Task(o, c, a))
    BY DEF Step, Follows
  <2>2. QED
    BY <1>2, <1>14, <2>1, ControlMoved
<1>4. \A K : Num(tasks, {c}, K) = (IF h \in K THEN 1 ELSE 0) + Num(Tail(tasks), {c}, K)
  BY <1>2, TaskNums
<1>15. Passes(c, h, o) /\ Step(c, h, o, S)
  BY DEF Step
<1>16. h \in EndingOps => o = "Retire" /\ primary' = primary
  OBVIOUS
<1> DEFINE r == Tail(tasks)
<1>17. \/ o = "none" /\ tasks' = r
       \/ o \in ControlOps \ RepeatedOps /\ \E a \in Args : tasks' = <<Task(o, c, a)>> \o r
  BY DEF Step, Follows, Call
<1>18. r \in Seq(TaskOf(C)) /\ (h \notin EndingOps => NoEnds(r))
  BY <1>2, HeadType, NoneEnds DEF Core
<1> HIDE DEF r
<1>5. /\ "none" \notin ControlOps /\ LastOps \subseteq ControlOps /\ "none" \notin {"Start"}
      /\ "Start" \notin StartedOps /\ StartedOps \subseteq ControlOps
      /\ "Retire" \notin StartedOps /\ "Delete" \notin StartedOps /\ StartedOps \cap NestedOps = {}
      /\ "Retire" \notin NestedOps /\ "Retire" \notin LastOps /\ "none" \notin NestedOps
  BY DEF ControlOps, LastOps, StartedOps, NestedOps, Ops, LoadOps, Resumptions
<1>6. o \notin NestedOps /\ o # "Start"
  BY <1>5, <1>15 DEF Step
<1>7. Moves(c)
  <2>1. SameChains
    BY <1>15 DEF SameChains, Step, SameParts, Waiting
  <2>2. \A d \in C \ {c} : ctx'[d].state = ctx[d].state /\ SameLoad(d) /\ SameTasks(d) /\ SameAsked(d)
    BY <1>3, <1>15 DEF Step, SameParts, SameLoad
  <2>3. Num(tasks', {c}, {"Start"}) = 0 /\ Num(tasks', {c}, NestedOps) = 0
        /\ Num(tasks', {c}, LastOps) = IF o \in LastOps THEN 1 ELSE 0
    BY <1>3, <1>6, Kinds DEF Now
  <2>4. /\ Num(tasks, {c}, {"Start"}) = IF h = "Start" THEN 1 ELSE 0
        /\ Num(tasks, {c}, LastOps) = IF h \in LastOps THEN 1 ELSE 0
    <3>1. Num(Tail(tasks), {c}, {"Start"}) = 0 /\ Num(Tail(tasks), {c}, LastOps) = 0
      BY <1>14, Kinds
    <3>2. QED
      BY <1>4, <3>1
  <2>5. \/ /\ ctx[c].state = "built" /\ Num(tasks, {c}, {"Start"}) > 0
           /\ ctx'[c].state \in {"started", "done"}
        \/ ctx[c].state = "started" /\ ctx'[c].state = "started"
        \/ ctx[c].state = "started" /\ ctx'[c].state = "done" /\ ctx[c].repeated = <<>>
    BY <1>1, <1>15, <2>4 DEF Passes, Runs
  <2>6. Num(tasks, {c}, LastOps) > 0 /\ ctx'[c].state = "started" => Num(tasks', {c}, LastOps) > 0
    <3>1. SUFFICES ASSUME h \in LastOps, ctx'[c].state = "started" PROVE o \in LastOps
      BY <2>3, <2>4
    <3>2. h # "Start"
      BY <3>1 DEF LastOps
    <3>3. QED
      BY <1>15, <3>1, <3>2 DEF Passes
  <2>7. \A d \in C : ctx'[d].nested = ctx[d].nested /\ ctx'[d].repeated = ctx[d].repeated
    BY <1>15 DEF Step, SameParts
  <2>8. drv'.rewrites = drv.rewrites /\ drv'.canRewrite = drv.canRewrite /\ html' = html
    BY <1>15 DEF Step, SameWork
  <2>9. QED
    BY <2>1, <2>2, <2>3, <2>5, <2>6, <2>7, <2>8 DEF Moves
<1>8. Became(c, S)
  <2>1. ~Repeating(c)'
    BY <1>1, <1>7, MoveRepeating DEF Core, Runs
  <2>2. ctx'[c].fetches = 0 /\ ~ctx'[c].waits /\ ctx'[c].nested = 0
    <3>1. ctx[c].nested = 0
      <4>1. h = "Start" \/ h \in StartedOps
        BY <1>15 DEF Passes
      <4>2. QED
        BY <1>1, <4>1 DEF Runs
    <3>2. QED
      BY <1>1, <1>15, <3>1 DEF Runs, Step, SameParts
  <2>3. QED
    BY <1>15, <2>1, <2>2 DEF Became, Step
<1>9. Continuation(c)'
  <2>1. \/ ctx'[c].state = "started" /\ o \in StartedOps /\ S = {}
        \/ /\ ctx'[c].state = "started" /\ o = "none"
           /\ \E k \in {"lookup", "lock", "rewrite", "repeats", "loads", "nests"} : S = {k}
        \/ ctx'[c].state = "done" /\ o = "Retire" /\ S = {}
    BY <1>15 DEF Step
  <2>2. QED
    BY <1>3, <1>8, <2>1, Continued
<1>10. OneContinuation' /\ LinksInv' /\ NestedInv' /\ WindowsInv' /\ (primary' = primary => PrimaryInv')
  BY <1>1, <1>7, <1>9, MovesAre, MoveContinues, MoveLinks, MoveNested, MoveWindows, MovePrimary
  DEF Core
<1>11. LoadsInv'
  <2>1. \A d \in C : /\ SameLoad(d) /\ ctx'[d].next = ctx[d].next
                     /\ \/ ctx'[d].revalidate = ctx[d].revalidate
                        \/ ~ctx[d].waits /\ ctx'[d].revalidate >= 0
    BY <1>1, <1>15 DEF Step, SameParts, SameLoad, Runs
  <2>2. loading' = loading /\ budget'.loads = budget.loads /\ budget'.waiting = budget.waiting
    BY <1>15 DEF Step, SameWork
  <2>3. QED
    BY <1>3, <2>1, <2>2, LoadsKept DEF Core
<1>12. EndsFirst'
  <2>3. CASE o = "none" /\ tasks' = r
    BY <1>16, <1>18, <2>3, NoEndsFirst
  <2>4. ASSUME o \in ControlOps \ RepeatedOps, NEW a \in Args, tasks' = <<Task(o, c, a)>> \o r PROVE EndsFirst'
    <3> DEFINE x == Task(o, c, a)
    <3>1. x \in TaskOf(C) /\ x.op = o /\ tasks' = <<x>> \o r
      BY <1>1, <2>4, TaskIn DEF ControlOps
    <3>2. <<x>> \in Seq(TaskOf(C))
      BY <3>1
    <3> HIDE DEF x
    <3>3. CASE h \in EndingOps
      <4>1. h # "Retire" /\ EndingOps = RepeatedOps \cup {"Retire"}
        BY <1>5, <1>15 DEF Passes, EndingOps
      <4>2. tasks' = Call(x) /\ Head(tasks).op \in RepeatedOps
        BY <3>1, <3>3, <4>1 DEF Call, r
      <4>3. x.op = "Retire" /\ primary' = primary
        BY <1>16, <3>1, <3>3
      <4>4. QED
        BY <1>2, <3>1, <4>2, <4>3, EndsReplaced DEF Core
    <3>4. CASE h \notin EndingOps /\ o = "Retire"
      BY <1>18, <3>1, <3>4, RetireFirst
    <3>5. CASE h \notin EndingOps /\ o # "Retire"
      <4>1. o \notin EndingOps
        BY <2>4, <3>5 DEF EndingOps
      <4>2. NoEnds(<<x>>)
        BY <3>1, <4>1, NoEndsOne
      <4>3. QED
        BY <1>18, <3>1, <3>2, <3>5, <4>2, NoEndsConcat, NoEndsFirst
    <3>6. QED
      BY <3>3, <3>4, <3>5
  <2>5. QED
    BY <1>17, <2>3, <2>4
<1>13. QED
  BY <1>10, <1>11, <1>12

---------------------------------------------------------------------------
(* The actions that are such steps.                                         *)

\* The context c has changed, at most in parts that no other one looks at.
Touches(c) ==
  \A d \in Contexts :
    /\ SameParts(d)
    /\ ctx'[d].revalidate = ctx[d].revalidate \/ (d = c /\ ctx'[d].revalidate >= 0)
    /\ d # c => ctx'[d].state = ctx[d].state

LEMMA TouchesOne ==
  ASSUME Records, NEW c \in Contexts
  PROVE  /\ \A v : ctx' = [ctx EXCEPT ![c].state = v] => Touches(c) /\ ctx'[c].state = v
         /\ \A v, b : ctx' = [ctx EXCEPT ![c].state = v, ![c].busy = b] => Touches(c) /\ ctx'[c].state = v
         /\ \A v, a, b : ctx' = [ctx EXCEPT ![c].state = v, ![c].partitions = a, ![c].busy = b]
              => Touches(c) /\ ctx'[c].state = v
         /\ \A b : ctx' = [ctx EXCEPT ![c].partitions = b] => Touches(c) /\ ctx'[c].state = ctx[c].state
         /\ \A b : ctx' = [ctx EXCEPT ![c].busy = b] => Touches(c) /\ ctx'[c].state = ctx[c].state
         /\ \A b : ctx' = [ctx EXCEPT ![c].lock = b] => Touches(c) /\ ctx'[c].state = ctx[c].state
         /\ ctx' = ctx => Touches(c) /\ ctx'[c].state = ctx[c].state
<1>1. DOMAIN ctx = Contexts /\ \A d \in Contexts : DOMAIN ctx[d] = CtxFields
  BY DEF Records, Contexts
<1>2. ASSUME NEW v, ctx' = [ctx EXCEPT ![c].state = v] PROVE Touches(c) /\ ctx'[c].state = v
  BY <1>1, <1>2 DEF Touches, SameParts, CtxFields
<1>3. ASSUME NEW v, NEW b, ctx' = [ctx EXCEPT ![c].state = v, ![c].busy = b]
      PROVE Touches(c) /\ ctx'[c].state = v
  BY <1>1, <1>3 DEF Touches, SameParts, CtxFields
<1>4. ASSUME NEW v, NEW a, NEW b, ctx' = [ctx EXCEPT ![c].state = v, ![c].partitions = a, ![c].busy = b]
      PROVE Touches(c) /\ ctx'[c].state = v
  BY <1>1, <1>4 DEF Touches, SameParts, CtxFields
<1>5. ASSUME NEW b, ctx' = [ctx EXCEPT ![c].partitions = b]
      PROVE Touches(c) /\ ctx'[c].state = ctx[c].state
  BY <1>1, <1>5 DEF Touches, SameParts, CtxFields
<1>6. ASSUME NEW b, ctx' = [ctx EXCEPT ![c].busy = b]
      PROVE Touches(c) /\ ctx'[c].state = ctx[c].state
  BY <1>1, <1>6 DEF Touches, SameParts, CtxFields
<1>7. ASSUME NEW b, ctx' = [ctx EXCEPT ![c].lock = b]
      PROVE Touches(c) /\ ctx'[c].state = ctx[c].state
  BY <1>1, <1>7 DEF Touches, SameParts, CtxFields
<1>8. ctx' = ctx => Touches(c) /\ ctx'[c].state = ctx[c].state
  BY DEF Touches, SameParts
<1>9. QED
  BY <1>2, <1>3, <1>4, <1>5, <1>6, <1>7, <1>8

LEMMA SlowSame ==
  ASSUME Records, NEW c
  PROVE  /\ DOMAIN MarkSlow(c) = Contexts
         /\ \A d \in Contexts : DOMAIN MarkSlow(c)[d] = CtxFields
         /\ \A d \in Contexts : \A f \in CtxFields \ {"slow"} : MarkSlow(c)[d][f] = ctx[d][f]
<1>1. \A d \in Contexts : DOMAIN ctx[d] = CtxFields
  BY DEF Records
<1>2. ASSUME NEW d \in Contexts
      PROVE  /\ DOMAIN MarkSlow(c)[d] = CtxFields
             /\ \A f \in CtxFields \ {"slow"} : MarkSlow(c)[d][f] = ctx[d][f]
  <2>1. MarkSlow(c)[d] = ctx[d] \/ MarkSlow(c)[d] = [ctx[d] EXCEPT !.slow = TRUE]
    BY DEF MarkSlow
  <2>2. QED
    BY <1>1, <2>1
<1>3. QED
  BY <1>2 DEF MarkSlow

LEMMA TouchesSlow ==
  ASSUME Records, NEW c \in Contexts, NEW n \in Nat,
         ctx' = MarkSlow(c) \/ ctx' = [MarkSlow(c) EXCEPT ![c].revalidate = n]
  PROVE  Touches(c) /\ ctx'[c].state = ctx[c].state
<1> DEFINE g == MarkSlow(c)
<1>1. /\ DOMAIN g = Contexts /\ \A d \in Contexts : DOMAIN g[d] = CtxFields
      /\ \A d \in Contexts :
           /\ g[d].nested = ctx[d].nested /\ g[d].repeated = ctx[d].repeated
           /\ g[d].successors = ctx[d].successors /\ g[d].preds = ctx[d].preds
           /\ g[d].fetches = ctx[d].fetches /\ g[d].waits = ctx[d].waits /\ g[d].next = ctx[d].next
           /\ g[d].revalidate = ctx[d].revalidate /\ g[d].state = ctx[d].state
  BY SlowSame DEF CtxFields
<1> HIDE DEF g
<1>2. CASE ctx' = g
  BY <1>1, <1>2 DEF Touches, SameParts
<1>3. CASE ctx' = [g EXCEPT ![c].revalidate = n]
  BY <1>1, <1>3 DEF Touches, SameParts, CtxFields
<1>4. QED
  BY <1>2, <1>3 DEF g

LEMMA AskedChange ==
  ASSUME NEW c \in Contexts, NEW k
  PROVE  /\ asked' = asked => \A d \in Contexts : SameAsked(d)
         /\ asked' = asked \cup {<<k, c>>} =>
              /\ \A d \in Contexts \ {c} : SameAsked(d)
              /\ \A j : <<j, c>> \in asked' <=> <<j, c>> \in asked \/ j = k
         /\ asked' = asked \ {<<k, c>>} =>
              /\ \A d \in Contexts \ {c} : SameAsked(d)
              /\ \A j : <<j, c>> \in asked' <=> <<j, c>> \in asked /\ j # k
  BY DEF SameAsked

LEMMA SimpleStep ==
  ASSUME NEW C, Contexts = C, Typed, Typed', Frame, Core, RewriteSequence, NEW o, NEW S,
         NEW c, c = Running, NEW h, h = Head(tasks).op, tasks # <<>>, h \in ControlOps,
         \/ o = "none" /\ tasks' = Tail(tasks)
         \/ o \in ControlOps \ RepeatedOps /\ \E a \in Args : tasks' = Call(Task(o, c, a)),
         Passes(c, h, o), Touches(c), html' = html, loading' = loading,
         budget'.loads = budget.loads, budget'.waiting = budget.waiting,
         \/ S = {} /\ asked' = asked
         \/ \E k \in {"lookup", "lock", "rewrite"} : S = {k} /\ asked' = asked \cup {<<k, c>>},
         \/ ctx'[c].state = "started" /\ o \in StartedOps /\ S = {}
         \/ ctx'[c].state = "started" /\ o = "none" /\ S # {}
         \/ ctx'[c].state = "done" /\ o = "Retire" /\ S = {},
         h \in EndingOps => o = "Retire" /\ primary' = primary
  PROVE  /\ OneContinuation' /\ LoadsInv' /\ LinksInv' /\ NestedInv' /\ WindowsInv' /\ EndsFirst'
         /\ primary' = primary => Core'
<1>1. c \in C /\ Runs(c, h)
  BY HeadRuns DEF Core
<1>2. \A k \in {"lookup", "lock", "rewrite"} : <<k, c>> \notin asked
  BY <1>1 DEF Runs
<1>3. SameDriver
  BY SequenceDriver DEF Typed, FlushInv
<1>4. SameWork
  BY <1>3 DEF SameWork, SameDriver
<1>5. /\ \A k \in {"lookup", "lock", "rewrite"} : <<k, c>> \in asked' <=> k \in S
      /\ S \subseteq {"lookup", "lock", "rewrite"}
      /\ \A d \in C \ {c} : SameAsked(d)
  <2>1. CASE S = {} /\ asked' = asked
    BY <1>1, <1>2, <2>1, AskedChange
  <2>2. ASSUME NEW k \in {"lookup", "lock", "rewrite"}, S = {k}, asked' = asked \cup {<<k, c>>}
        PROVE  /\ \A j \in {"lookup", "lock", "rewrite"} : <<j, c>> \in asked' <=> j \in S
               /\ S \subseteq {"lookup", "lock", "rewrite"}
               /\ \A d \in C \ {c} : SameAsked(d)
    BY <1>1, <1>2, <2>2, AskedChange
  <2>3. QED
    BY <2>1, <2>2
<1>6. Step(c, h, o, S)
  <2>1. Follows(o)
    BY DEF Follows
  <2>2. \A d \in Contexts :
       /\ SameParts(d)
       /\ ctx'[d].revalidate = ctx[d].revalidate \/ (d = c /\ ctx'[d].revalidate >= 0)
       /\ d # c => ctx'[d].state = ctx[d].state /\ SameAsked(d)
    BY <1>5 DEF Touches
  <2>3. QED
    BY <1>4, <1>5, <2>1, <2>2 DEF Step
<1>7. QED
  BY <1>6, StepKeeps DEF Core

\* The operations among the control tasks.
LEMMA Controls ==
  /\ "Start" \in ControlOps /\ "Retire" \in ControlOps /\ "Delete" \in ControlOps
  /\ "StartNestedTasksImpl" \in ControlOps /\ StartedOps \subseteq ControlOps
  /\ "Retire" \notin RepeatedOps /\ "Start" \notin EndingOps
  /\ \A o \in {"OutputCacheDone", "OutputCacheMiss", "LockFailed", "RevalidateInputs", "FetchInputs",
               "StopForPageInputBytes", "PartitionAsync", "RewriteDoneImpl", "Finalize"} :
       o \in StartedOps /\ o \notin RepeatedOps /\ o \notin EndingOps
  /\ \A o \in RepeatedOps : o \in StartedOps /\ o \notin LastOps
  /\ \A o \in {"OutputCacheDone", "OutputCacheMiss", "LockFailed", "RevalidateInputs", "FetchInputs",
               "StopForPageInputBytes", "PartitionAsync"} : o \notin LastOps
  /\ "RewriteDoneImpl" \in LastOps /\ "Finalize" \in LastOps
  BY DEF ControlOps, StartedOps, RepeatedOps, EndingOps, LastOps, NestedOps, Ops, LoadOps, Resumptions

LEMMA StartEnds ==
  ASSUME Typed, Typed', Frame, Core, RewriteSequence, StartDisabled \/ StartRefused
  PROVE  Core'
<1>1. PICK C, c, h : C = Contexts /\ c = Running /\ h = Head(tasks).op
  OBVIOUS
<1>2. tasks # <<>> /\ h = "Start"
  BY <1>1 DEF StartDisabled, StartRefused, AtHead
<1>3. c \in C
  BY <1>1, <1>2, RunningTyped DEF Typed, Types
<1>4. Touches(c) /\ ctx'[c].state = "done"
  BY <1>1, <1>3, TouchesOne DEF StartDisabled, StartRefused, Typed, FlushInv
<1>5. \E a \in Args : tasks' = Call(Task("Retire", c, a))
  BY <1>1, OpsArgs DEF StartDisabled, StartRefused
<1>6. asked' = asked /\ loading' = loading /\ primary' = primary /\ budget' = budget /\ html' = html
  BY DEF StartDisabled, StartRefused
<1>7. Passes(c, h, "Retire")
  BY <1>2, <1>4 DEF Passes
<1>8. QED
  BY <1>1, <1>2, <1>4, <1>5, <1>6, <1>7, Controls, SimpleStep

LEMMA PrimaryStarts ==
  ASSUME Typed, Typed', Frame, Core, RewriteSequence, StartPrimary
  PROVE  Core'
<1>1. PICK C, c, h : C = Contexts /\ c = Running /\ h = Head(tasks).op
  OBVIOUS
<1>2. tasks # <<>> /\ h = "Start"
  BY <1>1 DEF StartPrimary, AtHead
<1>3. c \in C /\ Runs(c, h)
  BY <1>1, <1>2, Controls, HeadRuns DEF Core
<1>4. Touches(c) /\ ctx'[c].state = "started"
  BY <1>1, <1>3, TouchesOne DEF StartPrimary, Typed, FlushInv
<1>5. /\ tasks' = Tail(tasks) /\ asked' = asked \cup {<<"lookup", c>>}
      /\ loading' = loading /\ html' = html /\ TakeContext(c)
      /\ primary[ctx[c].key] = NoContext /\ primary' = [primary EXCEPT ![ctx[c].key] = c]
  BY <1>1 DEF StartPrimary
<1>6. budget'.loads = budget.loads /\ budget'.waiting = budget.waiting
  BY <1>5 DEF TakeContext, Typed, Types, TypesOf, BudgetOf
<1>7. Passes(c, h, "none")
  BY <1>2, <1>4 DEF Passes
<1>8. OneContinuation' /\ LoadsInv' /\ LinksInv' /\ NestedInv' /\ WindowsInv' /\ EndsFirst'
  <2>1. \E k \in {"lookup", "lock", "rewrite"} : {"lookup"} = {k} /\ asked' = asked \cup {<<k, c>>}
    BY <1>5
  <2>2. h \in ControlOps /\ h \notin EndingOps /\ {"lookup"} # {}
    BY <1>2, Controls
  <2>3. QED
    BY <1>1, <1>2, <1>4, <1>5, <1>6, <1>7, <2>1, <2>2, SimpleStep
<1>9. PrimaryInv'
  <2>1. /\ ctx \in [C -> CtxType(C)] /\ \A k \in DOMAIN primary : primary[k] \in C \cup {NoContext}
        /\ \A d \in C : ctx[d].key \in DOMAIN primary
        /\ NoContext \notin C
    BY <1>1 DEF Typed, Types, TypesOf, FlushInv, Records
  <2>2. Contexts' = C /\ \A d \in C : /\ ctx'[d].key = ctx[d].key
                                      /\ ctx'[d].repeated = ctx[d].repeated
                                      /\ Repeats(d)' = Repeats(d) /\ Repeats(d) \subseteq C
    <3>1. Contexts' = C /\ \A d \in C : ctx'[d].key = ctx[d].key
      BY <1>1 DEF Frame, Keeps, Contexts
    <3>2. \A d \in C : ctx'[d].repeated = ctx[d].repeated
      BY <1>1, <1>4 DEF Touches, SameParts
    <3>3. ASSUME NEW d \in C PROVE Repeats(d) \subseteq C
      <4>1. ctx[d].repeated \in Seq(C)
        BY <2>1 DEF CtxType
      <4>2. QED
        BY <4>1, ElementOfSeq, LenProperties DEF Repeats
    <3>4. QED
      BY <3>1, <3>2, <3>3 DEF Repeats
  <2>3. ctx[c].state = "built" /\ ctx[c].repeated = <<>>
    BY <1>1, <1>2, <1>3 DEF Runs, Core, PrimaryInv
  <2>4. \A d \in C : d # c => ctx'[d].state = ctx[d].state
    BY <1>1, <1>4 DEF Touches
  <2>5. DOMAIN primary' = DOMAIN primary /\ primary'[ctx[c].key] = c
        /\ \A k \in DOMAIN primary : k # ctx[c].key => primary'[k] = primary[k]
    BY <1>3, <1>5, <2>1
  <2>6. ASSUME NEW k \in DOMAIN primary', primary'[k] # NoContext
        PROVE  ctx'[primary'[k]].key = k /\ ctx'[primary'[k]].state \in {"started", "done"}
    <3>1. CASE k = ctx[c].key
      BY <1>3, <1>4, <2>2, <2>5, <3>1
    <3>2. CASE k # ctx[c].key
      <4>1. primary'[k] = primary[k] /\ primary[k] \in C /\ ctx[primary[k]].key = k
            /\ ctx[primary[k]].state \in {"started", "done"}
        BY <1>1, <2>1, <2>5, <2>6, <3>2 DEF Core, PrimaryInv
      <4>2. primary[k] # c
        BY <2>3, <4>1
      <4>3. QED
        BY <2>2, <2>4, <4>1, <4>2
    <3>3. QED
      BY <3>1, <3>2
  <2>7. ASSUME NEW p \in C
        PROVE  /\ ctx'[p].state \in {"unborn", "built"} => ctx'[p].repeated = <<>>
               /\ ctx'[p].repeated # <<>> /\ ctx'[p].state = "started" => primary'[ctx'[p].key] = p
               /\ \A i, j \in DOMAIN ctx'[p].repeated :
                    ctx'[p].repeated[i] = ctx'[p].repeated[j] => i = j
               /\ \A d \in Repeats(p)' : ctx'[d].key = ctx'[p].key
    <3>1. /\ ctx[p].state \in {"unborn", "built"} => ctx[p].repeated = <<>>
          /\ ctx[p].repeated # <<>> /\ ctx[p].state = "started" => primary[ctx[p].key] = p
          /\ \A i, j \in DOMAIN ctx[p].repeated : ctx[p].repeated[i] = ctx[p].repeated[j] => i = j
          /\ \A d \in Repeats(p) : ctx[d].key = ctx[p].key
      BY <1>1 DEF Core, PrimaryInv
    <3>2. ctx'[p].state \in {"unborn", "built"} => ctx'[p].repeated = <<>>
      BY <1>4, <2>2, <2>4, <3>1
    <3>3. ctx'[p].repeated # <<>> /\ ctx'[p].state = "started" => primary'[ctx'[p].key] = p
      <4>1. SUFFICES ASSUME ctx[p].repeated # <<>>, ctx'[p].state = "started" PROVE primary'[ctx[p].key] = p
        BY <2>2
      <4>2. p # c
        BY <2>3, <4>1
      <4>3. primary[ctx[p].key] = p /\ p # NoContext
        BY <2>1, <2>4, <3>1, <4>1, <4>2
      <4>4. ctx[p].key # ctx[c].key
        BY <1>5, <4>3
      <4>5. QED
        BY <2>1, <2>5, <4>3, <4>4
    <3>4. QED
      BY <2>2, <3>1, <3>2, <3>3
  <2>8. QED
    BY <2>2, <2>6, <2>7 DEF PrimaryInv
<1>10. QED
  BY <1>8, <1>9 DEF Core

LEMMA CacheStepsKeep ==
  ASSUME Typed, Typed', Frame, Core, RewriteSequence,
         OutputCacheHit \/ OutputCacheNotOk \/ OutputCacheMiss \/ LockFailed
           \/ StopForPageInputBytes \/ PartitionDone \/ RewriteDoneImpl
  PROVE  Core'
<1>1. PICK C, c, h : C = Contexts /\ c = Running /\ h = Head(tasks).op
  OBVIOUS
<1>2. /\ tasks # <<>>
      /\ h \in {"OutputCacheDone", "OutputCacheMiss", "LockFailed", "StopForPageInputBytes",
                "PartitionAsync", "RewriteDoneImpl"}
  BY <1>1 DEF OutputCacheHit, OutputCacheNotOk, OutputCacheMiss, LockFailed, StopForPageInputBytes,
     PartitionDone, RewriteDoneImpl, AtHead
<1>3. h \in StartedOps /\ h \in ControlOps /\ h \notin EndingOps /\ (h \in LastOps => h = "RewriteDoneImpl")
  BY <1>2, Controls
<1>4. c \in C /\ Runs(c, h)
  BY <1>1, <1>2, <1>3, HeadRuns DEF Core
<1>5. ctx[c].state = "started"
  BY <1>3, <1>4 DEF Runs
<1>6. UNCHANGED <<loading, primary, budget, html>>
  BY DEF OutputCacheHit, OutputCacheNotOk, OutputCacheMiss, LockFailed, StopForPageInputBytes,
     PartitionDone, RewriteDoneImpl
<1>7. Records
  BY DEF Typed, FlushInv
\* Another task of the context comes next.
<1>8. ASSUME NEW o \in StartedOps \ RepeatedOps, NEW a \in Args, tasks' = Call(Task(o, c, a)),
             Touches(c), ctx'[c].state = ctx[c].state, asked' = asked, h \in LastOps => o \in LastOps
      PROVE  Core'
  <2>1. Passes(c, h, o)
    BY <1>3, <1>5, <1>8 DEF Passes
  <2>2. o \in ControlOps \ RepeatedOps /\ \E b \in Args : tasks' = Call(Task(o, c, b))
    BY <1>8, Controls
  <2>3. QED
    BY <1>1, <1>2, <1>3, <1>5, <1>6, <1>8, <2>1, <2>2, SimpleStep
\* Something is asked for.
<1>9. ASSUME NEW k \in {"lookup", "lock", "rewrite"}, tasks' = Tail(tasks),
             Touches(c), ctx'[c].state = ctx[c].state, asked' = asked \cup {<<k, c>>}, h \notin LastOps
      PROVE  Core'
  <2>1. Passes(c, h, "none")
    BY <1>3, <1>5, <1>9 DEF Passes
  <2>2. {k} # {} /\ \E j \in {"lookup", "lock", "rewrite"} : {k} = {j} /\ asked' = asked \cup {<<j, c>>}
    BY <1>9
  <2>3. QED
    BY <1>1, <1>2, <1>3, <1>5, <1>6, <1>9, <2>1, <2>2, SimpleStep
<1>10. CASE OutputCacheHit
  <2>1. PICK b : ctx' = [ctx EXCEPT ![c].partitions = b]
    BY <1>1, <1>10 DEF OutputCacheHit
  <2>2. tasks' = Call(Task("Finalize", c, "")) /\ asked' = asked
    BY <1>1, <1>10 DEF OutputCacheHit
  <2>3. QED
    BY <1>1, <1>4, <1>7, <1>8, <2>1, <2>2, TouchesOne, OpsArgs, Controls
<1>11. CASE OutputCacheNotOk
  <2>1. asked' = asked
    BY <1>11 DEF OutputCacheNotOk
  <2>2. CASE Argument = "miss"
    <3>1. ctx' = MarkSlow(c) /\ tasks' = Call(Task("OutputCacheMiss", c, ""))
      BY <1>1, <1>11, <2>2 DEF OutputCacheNotOk
    <3>2. Touches(c) /\ ctx'[c].state = ctx[c].state
      BY <1>1, <1>4, <1>7, <3>1, TouchesSlow
    <3>4. h = "OutputCacheDone"
      BY <1>1, <1>11 DEF OutputCacheNotOk, AtHead
    <3>3. QED
      BY <1>8, <2>1, <3>1, <3>2, <3>4, OpsArgs, Controls
  <2>3. CASE Argument # "miss"
    <3>1. PICK n \in 1..ctx[c].inputs : ctx' = [MarkSlow(c) EXCEPT ![c].revalidate = n]
      BY <1>1, <1>11, <2>3 DEF OutputCacheNotOk
    <3>2. tasks' = Call(Task("RevalidateInputs", c, ""))
      BY <1>1, <1>11, <2>3 DEF OutputCacheNotOk
    <3>3. n \in Nat
      <4>1. ctx[c] \in CtxType(C)
        BY <1>1, <1>4 DEF Typed, Types, TypesOf
      <4>2. ctx[c].inputs \in Nat
        BY <4>1 DEF CtxType
      <4>3. QED
        BY <4>2
    <3>4. Touches(c) /\ ctx'[c].state = ctx[c].state
      BY <1>1, <1>4, <1>7, <3>1, <3>3, TouchesSlow
    <3>6. h = "OutputCacheDone"
      BY <1>1, <1>11 DEF OutputCacheNotOk, AtHead
    <3>5. QED
      BY <1>8, <2>1, <3>2, <3>4, <3>6, OpsArgs, Controls
  <2>4. QED
    BY <2>2, <2>3
<1>12. CASE OutputCacheMiss
  <2>1. ctx' = [ctx EXCEPT ![c].partitions = FALSE]
    BY <1>1, <1>12 DEF OutputCacheMiss
  <2>2. Touches(c) /\ ctx'[c].state = ctx[c].state
    BY <1>1, <1>4, <1>7, <2>1, TouchesOne
  <2>5. h \notin LastOps
    BY <1>1, <1>12, Controls DEF OutputCacheMiss, AtHead
  <2>3. \/ asked' = asked \cup {<<"lock", c>>} /\ tasks' = Tail(tasks)
        \/ tasks' = Call(Task("LockFailed", c, "")) /\ asked' = asked
    BY <1>1, <1>12 DEF OutputCacheMiss
  <2>4. QED
    BY <1>8, <1>9, <2>2, <2>3, <2>5, OpsArgs, Controls
<1>13. CASE LockFailed \/ StopForPageInputBytes
  <2>1. ctx' = [ctx EXCEPT ![c].busy = TRUE] /\ tasks' = Call(Task("Finalize", c, "")) /\ asked' = asked
    BY <1>1, <1>13 DEF LockFailed, StopForPageInputBytes
  <2>2. QED
    BY <1>1, <1>4, <1>7, <1>8, <2>1, TouchesOne, OpsArgs, Controls
<1>14. CASE PartitionDone
  <2>1. h \notin LastOps
    BY <1>1, <1>14, Controls DEF PartitionDone, AtHead
  <2>2. CASE /\ ctx' = [ctx EXCEPT ![c].partitions = TRUE]
             /\ asked' = asked \cup {<<"rewrite", c>>} /\ tasks' = Tail(tasks)
    BY <1>1, <1>4, <1>7, <1>9, <2>1, <2>2, TouchesOne
  <2>3. ASSUME NEW b, ctx' = [ctx EXCEPT ![c].busy = b],
               tasks' = Call(Task("Finalize", c, "")), asked' = asked
        PROVE  Core'
    BY <1>1, <1>4, <1>7, <1>8, <2>3, TouchesOne, OpsArgs, Controls
  <2>4. QED
    BY <1>1, <1>14, <2>2, <2>3 DEF PartitionDone
<1>15. CASE RewriteDoneImpl
  <2> DEFINE b == ctx[c].busy \/ Argument = "kTooBusy"
  <2>1. ctx' = [ctx EXCEPT ![c].busy = b] /\ tasks' = Call(Task("Finalize", c, "")) /\ asked' = asked
    BY <1>1, <1>15 DEF RewriteDoneImpl
  <2> HIDE DEF b
  <2>2. Touches(c) /\ ctx'[c].state = ctx[c].state
    BY <1>1, <1>4, <1>7, <2>1, TouchesOne
  <2>3. QED
    BY <1>8, <2>1, <2>2, OpsArgs, Controls
<1>16. QED
  BY <1>10, <1>11, <1>12, <1>13, <1>14, <1>15

\* A context whose primary has ended has none that repeat it.
LEMMA RepeaterHasNone ==
  ASSUME Typed, Core, tasks # <<>>, Head(tasks).op \in RepeatedOps
  PROVE  ctx[Running].repeated = <<>>
<1>1. PICK c, h, r : c = Running /\ h = Head(tasks).op /\ r = Tail(tasks)
  OBVIOUS
<1>2. h \in StartedOps /\ h \in ControlOps
  BY <1>1, Controls
<1>3. c \in Contexts /\ Runs(c, h) /\ tasks \in Seq(TaskOf(Contexts))
  BY <1>1, <1>2, HeadRuns DEF Core, Typed, Types, TypesOf
<1>4. /\ 1 \in DOMAIN tasks /\ tasks[1].op = h /\ tasks[1].c = c /\ DOMAIN tasks = 1..Len(tasks)
      /\ r \in Seq(TaskOf(Contexts)) /\ DOMAIN r = 1..(Len(tasks) - 1) /\ Len(tasks) \in Nat
      /\ \A i \in 1..(Len(tasks) - 1) : r[i] = tasks[i + 1]
  BY <1>1, <1>3 DEF Running
<1>5. PICK j \in DOMAIN tasks : 1 < j /\ tasks[j].op = "Retire" /\ tasks[j].c = primary[ctx[c].key]
  <2>1. tasks[1].op \in RepeatedOps
    BY <1>1, <1>4
  <2>2. \E j \in DOMAIN tasks : /\ 1 < j /\ tasks[j].op = "Retire"
                                /\ tasks[j].c = primary[ctx[tasks[1].c].key]
    BY <1>4, <2>1 DEF Core, EndsFirst
  <2>3. QED
    BY <1>4, <2>2
<1>6. Num(r, {c}, {"Retire"}) = 0
  BY <1>1, <1>3, Kinds DEF Runs
<1>7. primary[ctx[c].key] # c
  <2>1. \A i \in DOMAIN r : ~(r[i].c \in {c} /\ r[i].op \in {"Retire"})
    BY <1>4, <1>6, NumPlaces
  <2>2. j - 1 \in DOMAIN r /\ r[j - 1] = tasks[j]
    <3>1. j - 1 \in 1..(Len(tasks) - 1) /\ (j - 1) + 1 = j
      BY <1>4, <1>5
    <3>2. QED
      BY <1>4, <3>1
  <2>3. QED
    BY <1>5, <2>1, <2>2
<1>8. ctx[c].state = "started"
  BY <1>2, <1>3 DEF Runs
<1>9. QED
  BY <1>1, <1>3, <1>7, <1>8 DEF Core, PrimaryInv

LEMMA RepeatsEnd ==
  ASSUME Typed, Typed', Frame, Core, RewriteSequence, RepeatedSuccess \/ RepeatedFailure
  PROVE  Core'
<1>1. PICK C, c, h : C = Contexts /\ c = Running /\ h = Head(tasks).op
  OBVIOUS
<1>2. tasks # <<>> /\ h \in RepeatedOps
  BY <1>1 DEF RepeatedSuccess, RepeatedFailure, AtHead, RepeatedOps
<1>3. h \in StartedOps /\ h \in ControlOps
  BY <1>2, Controls
<1>4. c \in C
  BY <1>1, <1>2, RunningTyped DEF Typed, Types
<1>5. Touches(c) /\ ctx'[c].state = "done"
  <2>1. Records /\ c \in Contexts
    BY <1>1, <1>4 DEF Typed, FlushInv
  <2>2. CASE RepeatedFailure
    BY <1>1, <2>1, <2>2, TouchesOne DEF RepeatedFailure
  <2>3. CASE RepeatedSuccess
    <3> DEFINE fits == budget.entries < MaxEntries
               b == ~fits \/ ctx[primary[ctx[c].key]].busy
    <3>1. ctx' = [ctx EXCEPT ![c].state = "done", ![c].partitions = fits, ![c].busy = b]
      BY <1>1, <2>3 DEF RepeatedSuccess
    <3> HIDE DEF fits, b
    <3>2. QED
      BY <2>1, <3>1, TouchesOne
  <2>4. QED
    BY <2>2, <2>3
<1>6. \E a \in Args : tasks' = Call(Task("Retire", c, a))
  BY <1>1, OpsArgs DEF RepeatedSuccess, RepeatedFailure
<1>7. asked' = asked /\ loading' = loading /\ primary' = primary /\ html' = html
  BY DEF RepeatedSuccess, RepeatedFailure
<1>8. budget'.loads = budget.loads /\ budget'.waiting = budget.waiting
  <2>1. budget \in BudgetOf(Contexts)
    BY DEF Typed, Types, TypesOf
  <2>2. budget' = budget \/ \E n : budget' = [budget EXCEPT !.entries = n]
    BY DEF RepeatedSuccess, RepeatedFailure
  <2>3. QED
    BY <2>1, <2>2 DEF BudgetOf
<1>9. ctx[c].repeated = <<>>
  BY <1>1, <1>2, RepeaterHasNone
<1>10. Passes(c, h, "Retire")
  BY <1>3, <1>5, <1>9 DEF Passes
<1>11. QED
  BY <1>1, <1>2, <1>3, <1>5, <1>6, <1>7, <1>8, <1>10, Controls, SimpleStep

---------------------------------------------------------------------------
(* What was asked for is answered.                                          *)

LEMMA AnswerKeeps ==
  ASSUME NEW C, Contexts = C, Typed, Typed', Frame, Core, NEW c \in C,
         NEW k \in {"lookup", "lock", "rewrite"}, <<k, c>> \in asked, asked' = asked \ {<<k, c>>},
         NEW o \in StartedOps \ RepeatedOps, NEW a \in Args, tasks' = AddRewriteTask(Task(o, c, a)),
         Touches(c), ctx'[c].state = ctx[c].state,
         UNCHANGED <<loading, primary, budget, drv, html>>
  PROVE  Core'
<1>1. Awaits(c, k)
  BY Awaiting DEF Core
<1>2. /\ ctx[c].state = "started" /\ Num(tasks, {c}, ControlOps) = 0 /\ ~Repeating(c)
      /\ \A j \in {"lookup", "lock", "rewrite"} : <<j, c>> \in asked <=> j = k
      /\ ~(ctx[c].fetches > 0 \/ ctx[c].waits) /\ ~(ctx[c].nested > 0)
  BY <1>1 DEF Awaits, Holds
<1>3. tasks \in Seq(TaskOf(C)) /\ TypesOf(C) /\ o \in Ops /\ o \in ControlOps /\ o \notin EndingOps
      /\ o \notin NestedOps /\ o # "Start"
  BY DEF Typed, Types, TypesOf, StartedOps, ControlOps, EndingOps
<1>4. Now(c, o) /\ (\A d \in C \ {c} : SameTasks(d)) /\ SameLoads
  BY <1>2, <1>3, TaskAdded
<1>5. Num(tasks, {c}, LastOps) = 0
  BY <1>2, <1>3, NumNone, KindsApart, Kinds
<1>6. (\A d \in C \ {c} : SameAsked(d)) /\ \A j : <<j, c>> \in asked' <=> <<j, c>> \in asked /\ j # k
  BY AskedChange
<1>7. Moves(c)
  <2>1. SameChains
    BY DEF SameChains, Touches, SameParts, Waiting
  <2>2. \A d \in C \ {c} : ctx'[d].state = ctx[d].state /\ SameLoad(d) /\ SameTasks(d) /\ SameAsked(d)
    BY <1>4, <1>6 DEF Touches, SameParts, SameLoad
  <2>3. Num(tasks', {c}, {"Start"}) = 0 /\ Num(tasks', {c}, NestedOps) = 0
    BY <1>3, <1>4, Kinds DEF Now
  <2>4. \A d \in C : ctx'[d].nested = ctx[d].nested /\ ctx'[d].repeated = ctx[d].repeated
    BY DEF Touches, SameParts
  <2>5. QED
    BY <1>2, <1>5, <2>1, <2>2, <2>3, <2>4 DEF Moves
<1>8. Became(c, {})
  <2>1. ~Repeating(c)'
    BY <1>2, <1>7, MoveRepeating DEF Core
  <2>2. \A j \in {"lookup", "lock", "rewrite"} : <<j, c>> \notin asked'
    BY <1>2, <1>6
  <2>3. ~(ctx'[c].fetches > 0 \/ ctx'[c].waits) /\ ~(ctx'[c].nested > 0)
    BY <1>2 DEF Touches, SameParts
  <2>4. QED
    BY <2>1, <2>2, <2>3 DEF Became
<1>9. Continuation(c)'
  BY <1>2, <1>4, <1>8, Continued
<1>10. OneContinuation' /\ LinksInv' /\ NestedInv' /\ WindowsInv' /\ PrimaryInv'
  BY <1>7, <1>9, MovesAre, MoveContinues, MoveLinks, MoveNested, MoveWindows, MovePrimary DEF Core
<1>11. LoadsInv'
  <2>1. \A d \in C : /\ SameLoad(d) /\ ctx'[d].next = ctx[d].next
                     /\ \/ ctx'[d].revalidate = ctx[d].revalidate
                        \/ ~ctx[d].waits /\ ctx'[d].revalidate >= 0
    BY <1>2 DEF Touches, SameParts, SameLoad
  <2>2. QED
    BY <1>4, <2>1, LoadsKept DEF Core
<1>12. EndsFirst'
  <2> DEFINE x == Task(o, c, a)
             s == <<x>>
  <2>1. x \in TaskOf(C) /\ x.op = o
    BY <1>3, TaskIn
  <2>2. s \in Seq(TaskOf(C)) /\ tasks' = tasks \o s
    BY <1>3, <2>1 DEF AddRewriteTask
  <2> HIDE DEF x
  <2>3. NoEnds(s)
    BY <1>3, <2>1, NoEndsOne
  <2> HIDE DEF s
  <2>4. QED
    BY <1>3, <2>2, <2>3, EndsAppended DEF Core
<1>13. QED
  BY <1>10, <1>11, <1>12 DEF Core

LEMMA AnswersKeep ==
  ASSUME Typed, Typed', Frame, Core, NEW c \in Contexts, LookupDone(c) \/ LockDone(c) \/ Rewrite(c)
  PROVE  Core'
<1>1. PICK C : C = Contexts
  OBVIOUS
<1>2. Records /\ ctx[c] \in CtxType(C) /\ c \in C
  BY <1>1 DEF Typed, FlushInv, Types, TypesOf
<1>3. /\ \A o \in {"OutputCacheDone", "FetchInputs", "LockFailed", "RewriteDoneImpl"} : o \in StartedOps \ RepeatedOps
      /\ "" \in Args /\ "kRewriteOk" \in Args /\ "kTooBusy" \in Args
      /\ {"hit", "miss", "revalidate"} \subseteq Args
  BY Controls, OpsArgs DEF Args
<1>4. CASE LookupDone(c)
  <2>1. PICK a \in ctx[c].cached : tasks' = AddRewriteTask(Task("OutputCacheDone", c, a))
    BY <1>4 DEF LookupDone
  <2>2. a \in Args
    BY <1>2, <1>3 DEF CtxType
  <2>3. /\ <<"lookup", c>> \in asked /\ asked' = asked \ {<<"lookup", c>>} /\ ctx' = ctx
        /\ UNCHANGED <<loading, primary, budget, drv, html>>
    BY <1>4 DEF LookupDone
  <2>4. Touches(c) /\ ctx'[c].state = ctx[c].state
    BY <1>2, <2>3, TouchesOne
  <2>5. QED
    BY <1>1, <1>2, <1>3, <2>1, <2>2, <2>3, <2>4, AnswerKeeps
<1>5. CASE LockDone(c)
  <2>1. PICK granted \in BOOLEAN :
          /\ ctx' = [ctx EXCEPT ![c].lock = granted]
          /\ tasks' = AddRewriteTask(Task(IF granted THEN "FetchInputs" ELSE "LockFailed", c, ""))
    BY <1>5 DEF LockDone
  <2>2. PICK o \in {"FetchInputs", "LockFailed"} : tasks' = AddRewriteTask(Task(o, c, ""))
    BY <2>1
  <2>3. /\ <<"lock", c>> \in asked /\ asked' = asked \ {<<"lock", c>>}
        /\ UNCHANGED <<loading, primary, budget, drv, html>>
    BY <1>5 DEF LockDone
  <2>4. Touches(c) /\ ctx'[c].state = ctx[c].state
    BY <1>2, <2>1, TouchesOne
  <2>5. QED
    BY <1>1, <1>2, <1>3, <2>2, <2>3, <2>4, AnswerKeeps
<1>6. CASE Rewrite(c)
  <2>1. PICK a \in {"kRewriteOk", "kTooBusy"} : tasks' = AddRewriteTask(Task("RewriteDoneImpl", c, a))
    BY <1>6 DEF Rewrite
  <2>3. /\ <<"rewrite", c>> \in asked /\ asked' = asked \ {<<"rewrite", c>>} /\ ctx' = ctx
        /\ UNCHANGED <<loading, primary, budget, drv, html>>
    BY <1>6 DEF Rewrite
  <2>4. Touches(c) /\ ctx'[c].state = ctx[c].state
    BY <1>2, <2>3, TouchesOne
  <2>5. QED
    BY <1>1, <1>2, <1>3, <2>1, <2>3, <2>4, AnswerKeeps
<1>7. QED
  BY <1>4, <1>5, <1>6

====
