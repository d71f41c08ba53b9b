---- MODULE PageContextProofs ----
(***************************************************************************)
(* PageRewrite: each context of a document has one continuation, for every *)
(* document and any limits of the PageWorkBudget (ContextInvariant).  So   *)
(* nothing is left behind, forgotten, or deleted while something refers to *)
(* it.  The driver's sets and counts are those of its contexts             *)
(* (PageInvariant), so that it is released once, after the last of them.   *)
(* And no rewrite waits for itself (NoneWaitsForItself).                   *)
(*                                                                         *)
(* One section for each kind of step; what a step does is a named          *)
(* operator, and a lemma for each part of the invariant says that it keeps *)
(* that part.                                                              *)
(***************************************************************************)
EXTENDS PageRewriteProofs

---------------------------------------------------------------------------
(* The HTML thread.                                                         *)

NestedAfter(p) ==
  /\ ctx'[p].nested = Cardinality({d \in Children(p) : ctx'[d].state \in Live})
  /\ (\A d \in Children(p) : ctx'[d].state = "unborn")
       \/ /\ \A d \in Children(p) : ctx'[d].state # "unborn"
          /\ ctx'[p].state \notin {"unborn", "built"}
          /\ ctx'[p].state = "started" => ctx'[p].nested > 0 \/ Num(tasks', {p}, LastOps) > 0
  /\ \A d \in Children(p) : ctx'[d].state = "deleted" => ctx'[p].state = "deleted"
  /\ ctx'[p].state = "deleted" => \A d \in Children(p) : ctx'[d].state \in {"unborn", "deleted"}
  /\ Num(tasks', {p}, NestedOps) > 0 =>
       \A d \in Children(p) : ctx'[d].state = "built" /\ Num(tasks', {d}, ControlOps) = 0

LEMMA NestedFrom == ASSUME Frame, \A p \in Contexts : NestedAfter(p) PROVE NestedInv'
<1>1. Contexts' = Contexts /\ \A d \in Contexts : Children(d)' = Children(d)
  BY LinksKept
<1>2. ASSUME NEW p \in Contexts, NEW Ch, Ch = Children(p), Ch = Children(p)'
      PROVE  /\ ctx'[p].nested = Cardinality({d \in Ch : ctx'[d].state \in Live})
             /\ (\A d \in Ch : ctx'[d].state = "unborn")
                  \/ /\ \A d \in Ch : ctx'[d].state # "unborn"
                     /\ ctx'[p].state \notin {"unborn", "built"}
                     /\ ctx'[p].state = "started" => ctx'[p].nested > 0 \/ Num(tasks', {p}, LastOps) > 0
             /\ \A d \in Ch : ctx'[d].state = "deleted" => ctx'[p].state = "deleted"
             /\ ctx'[p].state = "deleted" => \A d \in Ch : ctx'[d].state \in {"unborn", "deleted"}
             /\ Num(tasks', {p}, NestedOps) > 0 =>
                  \A d \in Ch : ctx'[d].state = "built" /\ Num(tasks', {d}, ControlOps) = 0
  BY <1>2 DEF NestedAfter
<1>3. QED
  BY <1>1, <1>2 DEF NestedInv

\* What the contexts and the tasks show is as it was.
LEMMA StillSame ==
  ASSUME Core, Frame, UNCHANGED <<ctx, tasks, asked, loading, primary, budget>>
  PROVE  /\ OneContinuation' /\ LoadsInv' /\ LinksInv' /\ NestedInv' /\ PrimaryInv' /\ EndsFirst'
         /\ Contexts' = Contexts /\ \A d \in Contexts : OpenLinks(d)' = OpenLinks(d) /\ (Top(d)' <=> Top(d))
<1>1. OneContinuation'
  <2>1. Contexts' = Contexts
    BY DEF Contexts
  <2>2. ASSUME NEW d \in Contexts PROVE Continuation(d)'
    <3>1. Repeating(d)' <=> Repeating(d)
      BY RepeatingKept
    <3>2. Continuation(d) /\ SameTasks(d) /\ SameAsked(d) /\ SameLoad(d)
      BY DEF Core, OneContinuation, SameTasks, SameAsked, SameLoad
    <3>3. QED
      BY <3>1, <3>2, ContinuationKept
  <2>3. QED
    BY <2>1, <2>2 DEF OneContinuation
<1>2. LoadsInv'
  BY DEF Core, LoadsInv, LoadsOf, InFlight, NoWaiterForgotten, Room, Contexts
<1>3. LinksInv'
  BY DEF Core, LinksInv, OpenLinks, Links, Contexts
<1>4. NestedInv'
  <2>1. Contexts' = Contexts /\ \A p \in Contexts : Children(p)' = Children(p)
    BY LinksKept
  <2>2. ASSUME NEW p \in Contexts PROVE NestedAfter(p)
    <3>1. {d \in Children(p) : ctx'[d].state \in Live} = {d \in Children(p) : ctx[d].state \in Live}
      OBVIOUS
    <3>2. QED
      BY <3>1 DEF Core, NestedInv, NestedAfter
  <2>3. QED
    BY <2>2, NestedFrom
<1>5. PrimaryInv'
  BY DEF Core, PrimaryInv, Repeats, Contexts
<1>6. EndsFirst'
  BY DEF Core, EndsFirst
<1>7. QED
  BY <1>1, <1>2, <1>3, <1>4, <1>5, <1>6 DEF OpenLinks, Links, Contexts, Top

LEMMA WaitsKeep ==
  ASSUME Typed, Typed', Frame, Core,
         CheckForCompletionAsync \/ Woken \/ Deadline \/ FinishParseAfterFlush \/ Cleanup
  PROVE  Core'
<1>1. UNCHANGED <<ctx, tasks, asked, loading, primary, budget>>
  BY DEF CheckForCompletionAsync, Woken, Deadline, FinishParseAfterFlush, Cleanup
<1>2. html.pc # "parsing" /\ html'.pc # "parsing" /\ html'.window = html.window
      /\ drv'.rewrites = drv.rewrites /\ drv'.canRewrite = drv.canRewrite
  <2>1. Records
    BY DEF Typed, FlushInv
  <2>2. html.pc # "parsing"
    BY DEF CheckForCompletionAsync, Woken, Deadline, FinishParseAfterFlush, Cleanup
  <2>3. ASSUME NEW d, NEW b, DOMAIN d = DrvFields, d.rewrites = drv.rewrites, d.canRewrite = drv.canRewrite,
               TryCheckForCompletion(d, b)
        PROVE  /\ html'.pc # "parsing" /\ html'.window = html.window
               /\ drv'.rewrites = drv.rewrites /\ drv'.canRewrite = drv.canRewrite
    BY <2>1, <2>3 DEF TryCheckForCompletion, Records, DrvFields
  <2>4. CASE CheckForCompletionAsync
    <3> DEFINE w == IF drv.fully THEN "kWaitForCompletion" ELSE "kWaitForCachedRender"
               d == [drv EXCEPT !.waiting = w]
    <3>1. TryCheckForCompletion(d, FALSE)
      BY <2>4 DEF CheckForCompletionAsync
    <3> HIDE DEF w
    <3>2. DOMAIN d = DrvFields /\ d.rewrites = drv.rewrites /\ d.canRewrite = drv.canRewrite
      BY <2>1 DEF Records, DrvFields
    <3> HIDE DEF d
    <3>3. QED
      BY <2>2, <2>3, <3>1, <3>2
  <2>5. CASE Woken \/ Deadline
    <3>1. PICK b : TryCheckForCompletion(drv, b)
      BY <2>5 DEF Woken, Deadline
    <3>2. QED
      BY <2>1, <2>2, <2>3, <3>1 DEF Records
  <2>6. CASE FinishParseAfterFlush \/ Cleanup
    <3>1. PICK k \in {"parsing", "user"} : drv' = DropReference(drv, k)
      BY <2>6 DEF FinishParseAfterFlush, Cleanup
    <3> DEFINE a == [drv EXCEPT !.refs[k] = @ - 1]
               r == IF Unreferenced(a.refs) THEN a.released + 1 ELSE a.released
               e == [a EXCEPT !.released = r]
    <3>2. drv' = SignalIfRequired(drv, e)
      BY <3>1 DEF DropReference
    <3> HIDE DEF r
    <3>3. /\ DOMAIN e = DrvFields /\ e.canRewrite = drv.canRewrite /\ e.rewrites = drv.rewrites
      BY <2>1 DEF Records, DrvFields
    <3> HIDE DEF e
    <3>4. \A f \in DrvFields \ {"woken"} : drv'[f] = e[f]
      BY <3>2, <3>3, SignalKeeps
    <3>5. drv'.canRewrite = drv.canRewrite /\ drv'.rewrites = drv.rewrites
      BY <3>3, <3>4 DEF DrvFields
    <3>6. html'.window = html.window /\ html'.pc # "parsing"
      BY <2>1, <2>6 DEF FinishParseAfterFlush, Cleanup, Records
    <3>7. QED
      BY <2>2, <3>5, <3>6
  <2>7. QED
    BY <2>4, <2>5, <2>6
<1>3. /\ OneContinuation' /\ LoadsInv' /\ LinksInv' /\ NestedInv' /\ PrimaryInv' /\ EndsFirst'
      /\ Contexts' = Contexts /\ \A d \in Contexts : OpenLinks(d)' = OpenLinks(d) /\ (Top(d)' <=> Top(d))
  BY <1>1, StillSame
<1>4. WindowsInv'
  <2>1. drv.rewrites \subseteq Contexts /\ WindowsInv
    BY DEF Typed, FlushInv, WindowInv, Core
  <2>2. QED
    BY <1>1, <1>2, <1>3, <2>1 DEF WindowsInv
<1>5. QED
  BY <1>3, <1>4 DEF Core

\* The tasks t are the tasks b and a start of each context of U.
WithStarts(C, U, b, t) ==
  /\ t \in Seq(TaskOf(C)) /\ StartTasks(U) \in Seq(TaskOf(C)) /\ NoEnds(StartTasks(U))
  /\ \A d, K : Num(t, {d}, K) = Num(b, {d}, K) + (IF d \in U /\ "Start" \in K THEN 1 ELSE 0)
  /\ \A D : \A K \in LoadKinds : Num(t, D, K) = Num(b, D, K)

LEMMA StartsNum ==
  ASSUME NEW C, Contexts = C, Records, NEW U, U \subseteq C, NEW b \in Seq(TaskOf(C)), NEW t,
         t = b \o StartTasks(U) \/ t = StartTasks(U) \o b
  PROVE  WithStarts(C, U, b, t)
<1> DEFINE s == StartTasks(U)
<1>1. s \in Seq(TaskOf(C)) /\ Starts(U, s)
  BY StartsTyped
<1> HIDE DEF s
<1>2. t \in Seq(TaskOf(C))
  BY <1>1, ConcatProperties DEF s
<1>3. ASSUME NEW D, NEW K
      PROVE  Num(t, D, K) = Num(b, D, K) + Num(s, D, K) /\ Num(b, D, K) \in Nat /\ Num(s, D, K) \in Nat
  <2>1. Num(b, D, K) \in Nat /\ Num(s, D, K) \in Nat
    BY <1>1, NumPlaces
  <2>2. Num(b \o s, D, K) = Num(b, D, K) + Num(s, D, K) /\ Num(s \o b, D, K) = Num(s, D, K) + Num(b, D, K)
    BY <1>1, NumConcat
  <2>3. CASE t = b \o s
    BY <2>1, <2>2, <2>3
  <2>4. CASE t = s \o b
    BY <2>1, <2>2, <2>4
  <2>5. QED
    BY <2>3, <2>4 DEF s
<1>4. \A d, K : Num(t, {d}, K) = Num(b, {d}, K) + (IF d \in U /\ "Start" \in K THEN 1 ELSE 0)
  <2>1. ASSUME NEW d, NEW K
        PROVE  Num(t, {d}, K) = Num(b, {d}, K) + (IF d \in U /\ "Start" \in K THEN 1 ELSE 0)
    <3>1. Num(s, {d}, K) = IF d \in U /\ "Start" \in K THEN 1 ELSE 0
      BY <1>1 DEF Starts
    <3>2. Num(t, {d}, K) = Num(b, {d}, K) + Num(s, {d}, K)
      BY <1>3
    <3>3. QED
      BY <3>1, <3>2
  <2>2. QED
    BY <2>1
<1>5. ASSUME NEW D, NEW K \in LoadKinds PROVE Num(t, D, K) = Num(b, D, K)
  <2>1. "Start" \notin K
    BY KindsApart, Controls
  <2>2. \A i \in DOMAIN s : ~(s[i].c \in D /\ s[i].op \in K)
    BY <1>1, <2>1 DEF Starts
  <2>3. Num(s, D, K) = 0
    BY <1>1, <2>2, NumPlaces
  <2>4. QED
    BY <1>3, <2>3
<1>6. NoEnds(s)
  BY <1>1, Controls DEF NoEnds, Starts
<1>7. QED
  BY <1>1, <1>2, <1>4, <1>5, <1>6 DEF s, WithStarts

LEMMA InitiateKeeps ==
  ASSUME Typed, Typed', Frame, Core, InitiateRewrite
  PROVE  Core'
<1>1. PICK C, c : C = Contexts /\ c = Min(NextContext)
  OBVIOUS
<1>2. c \in C /\ Top(c) /\ ctx[c].window = html.window /\ ctx[c].state = "unborn"
  <2>1. NextContext # {} /\ NextContext \subseteq Nat
    BY DEF InitiateRewrite, NextContext, Typed, FlushInv, Records
  <2>2. c \in NextContext
    BY <1>1, <2>1, MinIn
  <2>3. QED
    BY <1>1, <2>2 DEF NextContext
<1>3. PICK v \in {"built", "deleted"} :
        /\ ctx' = [ctx EXCEPT ![c].state = v]
        /\ \/ /\ v = "built" /\ drv.canRewrite
              /\ drv' = [drv EXCEPT !.rewrites = @ \cup {c}, !.refs.pending = @ + 1, !.quick = @ + 1]
           \/ v = "deleted" /\ ~drv.canRewrite /\ drv' = drv
  <2>1. CASE drv.canRewrite
    BY <1>1, <2>1 DEF InitiateRewrite
  <2>2. CASE ~drv.canRewrite
    BY <1>1, <2>2 DEF InitiateRewrite
  <2>3. QED
    BY <2>1, <2>2
<1>4. UNCHANGED <<tasks, asked, loading, primary, budget, html>> /\ html.pc = "parsing"
  BY DEF InitiateRewrite
<1>5. /\ drv'.canRewrite = drv.canRewrite /\ drv.canRewrite \in BOOLEAN
      /\ v = "built" => drv.canRewrite /\ drv'.rewrites = drv.rewrites \cup {c}
      /\ v = "deleted" => ~drv.canRewrite /\ drv'.rewrites = drv.rewrites
  BY <1>3 DEF Typed, FlushInv, Records, DrvFields, RefKinds, Types, TypesOf
<1>6. Touches(c) /\ ctx'[c].state = v
  <2>1. Records /\ c \in Contexts
    BY <1>1, <1>2 DEF Typed, FlushInv
  <2>2. ctx' = [ctx EXCEPT ![c].state = v]
    BY <1>3
  <2>3. QED
    BY <2>1, <2>2, TouchesOne
<1>7. \A d \in C : SameTasks(d) /\ SameAsked(d) /\ SameLoad(d) /\ ctx'[d].nested = ctx[d].nested
                   /\ ctx'[d].repeated = ctx[d].repeated
  BY <1>1, <1>4, <1>6 DEF SameTasks, SameAsked, SameLoad, Touches, SameParts
<1>8. \A d \in C : d # c => ctx'[d].state = ctx[d].state
  BY <1>1, <1>6 DEF Touches
<1>9. SameChains
  BY <1>1, <1>6 DEF SameChains, Touches, SameParts, Waiting
<1>10. Still(c, {})
  BY <1>1, <1>2 DEF Core, OneContinuation, Continuation
<1>11. OneContinuation'
  <2>1. ASSUME NEW d PROVE Repeating(d)' <=> Repeating(d)
    BY <1>1, <1>2, <1>6, <1>7, <1>8, RepeatingKept
  <2>2. ASSUME NEW d \in C, d # c PROVE Continuation(d)'
    BY <1>1, <1>7, <1>8, <2>1, <2>2, ContinuationKept DEF Core, OneContinuation
  <2>3. Still(c, {})'
    BY <1>2, <1>4, <1>7, <1>10, <2>1 DEF Still, Holds, SameLoad
  <2>4. Continuation(c)'
    BY <1>6, <2>3 DEF Continuation
  <2>5. Contexts' = C
    BY <1>1, LinksKept
  <2>6. QED
    BY <2>2, <2>4, <2>5 DEF OneContinuation
<1>12. LoadsInv'
  <2>1. SameLoads
    BY <1>4 DEF SameLoads
  <2>2. \A d \in C : /\ SameLoad(d) /\ ctx'[d].next = ctx[d].next
                     /\ \/ ctx'[d].revalidate = ctx[d].revalidate
                        \/ ~ctx[d].waits /\ ctx'[d].revalidate >= 0
    <3>1. Records
      BY DEF Typed, FlushInv
    <3>2. \A d \in C : ctx'[d].revalidate = ctx[d].revalidate
      BY <1>1, <1>3, <3>1 DEF Records, CtxFields, Contexts
    <3>3. QED
      BY <1>1, <1>6, <1>7, <3>2 DEF Touches, SameParts
  <2>3. QED
    BY <1>1, <1>4, <2>1, <2>2, LoadsKept DEF Core
<1>13. LinksInv'
  <2>1. \A d \in C :
          ctx'[d].state \in {"started", "done", "retired"} \/ Num(tasks', {d}, {"Start"}) > 0 =>
            OpenLinks(d) = {}
    BY <1>1, <1>4, <1>6, <1>8 DEF Core, LinksInv
  <2>2. QED
    BY <1>1, <1>9, <2>1, ChainsKept DEF Core
<1>14. NestedInv'
  <2>1. \A p \in C : c \notin Children(p) /\ Children(p) \subseteq C
    BY <1>1, <1>2 DEF Children, Top, Typed, FlushInv, Records
  <2>2. ASSUME NEW p \in C PROVE NestedAfter(p)
    <3>1. \A d \in Children(p) : ctx'[d].state = ctx[d].state
      BY <1>8, <2>1
    <3>2. {d \in Children(p) : ctx'[d].state \in Live} = {d \in Children(p) : ctx[d].state \in Live}
      BY <3>1
    <3>3. CASE p = c
      <4>1. \A d \in Children(p) : ctx[d].state = "unborn"
        BY <1>1, <1>2, <3>3 DEF Core, NestedInv
      <4>2. Num(tasks', {p}, NestedOps) = 0
        <5>1. tasks \in Seq(TaskOf(C)) /\ Num(tasks, {c}, ControlOps) = 0
          BY <1>1, <1>10 DEF Still, Holds, Typed, Types, TypesOf
        <5>2. QED
          BY <1>4, <3>3, <5>1, NumNone, KindsApart, Kinds
      <4>3. ctx'[p].nested = Cardinality({d \in Children(p) : ctx'[d].state \in Live})
        BY <1>1, <1>7, <3>2 DEF Core, NestedInv
      <4>4. QED
        BY <3>1, <4>1, <4>2, <4>3 DEF NestedAfter
    <3>4. CASE p # c
      <4>1. ctx'[p].state = ctx[p].state /\ ctx'[p].nested = ctx[p].nested
        BY <1>7, <1>8, <3>4
      <4>2. QED
        BY <1>1, <1>4, <3>1, <3>2, <4>1, ZenonT(30) DEF Core, NestedInv, NestedAfter
    <3>5. QED
      BY <3>3, <3>4
  <2>3. QED
    BY <1>1, <2>2, NestedFrom
<1>15. WindowsInv'
  <2>1. Contexts' = C /\ \A d \in C : (Top(d)' <=> Top(d)) /\ ctx'[d].window = ctx[d].window
    BY <1>1, LinksKept DEF Frame, Keeps, Contexts
  <2>2. \A d \in C : OpenLinks(d)' = OpenLinks(d)
    BY <1>1, <1>9, OpenLinksKept DEF SameChains
  <2>3. drv.rewrites \subseteq C
    BY <1>1 DEF Typed, FlushInv, WindowInv
  <2>4. Num(tasks, {c}, ControlOps) = 0
    BY <1>10 DEF Still, Holds
  <2>5. WindowsInv /\ html.window \in Int /\ ctx[c].window = html.window
    BY <1>1, <1>2 DEF Core, Typed, Types, TypesOf
  <2>6. ASSUME NEW d \in C, Top(d)
        PROVE  /\ ctx'[d].state = "unborn" =>
                    ctx[d].window > html.window \/ (ctx[d].window = html.window /\ html.pc = "parsing")
               /\ ctx'[d].state # "unborn" =>
                    /\ ctx[d].window <= html.window
                    /\ drv.canRewrite /\ ctx[d].window = html.window /\ html.pc = "parsing"
                         => d \in drv'.rewrites
               /\ ctx'[d].state = "deleted" /\ drv.canRewrite => OpenLinks(d) = {}
    <3>1. CASE d = c
      BY <1>3, <1>5, <1>6, <2>5, <3>1
    <3>2. CASE d # c
      BY <1>1, <1>5, <1>8, <2>5, <2>6, <3>2 DEF WindowsInv
    <3>3. QED
      BY <3>1, <3>2
  <2>7. \A d \in drv'.rewrites : Top(d) /\ ctx'[d].state = "built" /\ Num(tasks', {d}, ControlOps) = 0
    <3>1. \A d \in drv.rewrites : Top(d) /\ ctx[d].state = "built" /\ Num(tasks, {d}, ControlOps) = 0
      BY <2>5 DEF WindowsInv
    <3>2. c \notin drv.rewrites
      BY <1>2, <3>1
    <3>3. \A d \in drv.rewrites : Top(d) /\ ctx'[d].state = "built" /\ Num(tasks', {d}, ControlOps) = 0
      BY <1>4, <1>8, <2>3, <3>1, <3>2
    <3>4. QED
      BY <1>2, <1>3, <1>4, <1>5, <1>6, <2>4, <3>3
  <2>8. ~drv.canRewrite => \A d \in C : ctx'[d].state \in {"unborn", "deleted"}
    BY <1>1, <1>3, <1>5, <1>6, <1>8, <2>5 DEF WindowsInv
  <2>9. drv'.rewrites \subseteq C
    BY <1>2, <1>3, <1>5, <2>3
  <2>10. QED
    BY <1>4, <1>5, <2>1, <2>2, <2>6, <2>7, <2>8, <2>9 DEF WindowsInv
<1>16. PrimaryInv'
  <2>1. \A d \in C :
          /\ ctx'[d].repeated = ctx[d].repeated
          /\ ctx'[d].state \in {"unborn", "built"} => ctx[d].state \in {"unborn", "built"}
          /\ ctx[d].state \in {"started", "done"} => ctx'[d].state \in {"started", "done"}
          /\ ctx'[d].state = "started" => ctx[d].state \in {"started", "built"}
    BY <1>2, <1>6, <1>7, <1>8
  <2>2. QED
    BY <1>1, <1>4, <2>1, PrimaryKept DEF Core
<1>17. EndsFirst'
  <2>1. \A i \in DOMAIN tasks : tasks[i].c \in C
    <3>1. \A i \in DOMAIN tasks : tasks[i] \in TaskOf(C)
      BY <1>1, ElementOfSeq, LenProperties DEF Typed, Types, TypesOf
    <3>2. QED
      BY <3>1 DEF TaskOf
  <2>2. \A d \in C : ctx'[d].key = ctx[d].key
    BY <1>1 DEF Frame, Keeps, Contexts
  <2>3. QED
    BY <1>4, <2>1, <2>2 DEF Core, EndsFirst
<1>18. QED
  BY <1>11, <1>12, <1>13, <1>14, <1>15, <1>16, <1>17 DEF Core

LEMMA FlushKeeps ==
  ASSUME Typed, Typed', Frame, Core, FlushAsync
  PROVE  Core'
<1>1. PICK C, U : C = Contexts /\ U = {c \in drv.rewrites : ~Chained(c)}
  OBVIOUS
<1>2. /\ html.pc = "parsing" /\ NextContext = {} /\ tasks' = tasks \o StartTasks(U)
      /\ UNCHANGED <<ctx, asked, loading, primary, budget>>
      /\ html'.pc = "flushing" /\ html'.window = html.window
      /\ drv'.rewrites = {} /\ drv'.canRewrite = drv.canRewrite
  <2>1. Records
    BY DEF Typed, FlushInv
  <2>2. QED
    BY <1>1, <2>1 DEF FlushAsync, Records, DrvFields
<1>3. /\ U \subseteq C /\ tasks \in Seq(TaskOf(C)) /\ Records /\ TypesOf(C)
  BY <1>1 DEF Typed, FlushInv, WindowInv, Types, TypesOf
<1>4. /\ StartTasks(U) \in Seq(TaskOf(C)) /\ NoEnds(StartTasks(U))
      /\ \A d, K : Num(tasks', {d}, K) = Num(tasks, {d}, K) + (IF d \in U /\ "Start" \in K THEN 1 ELSE 0)
      /\ \A D : \A K \in LoadKinds : Num(tasks', D, K) = Num(tasks, D, K)
  <2>1. Contexts = C /\ Records /\ U \subseteq C /\ tasks \in Seq(TaskOf(C))
    BY <1>1, <1>3
  <2>2. tasks' = tasks \o StartTasks(U)
    BY <1>2
  <2>3. WithStarts(C, U, tasks, tasks')
    BY <2>1, <2>2, StartsNum
  <2>4. QED
    BY <2>3 DEF WithStarts
<1>5. \A d, K : Num(tasks, {d}, K) \in Nat
  BY <1>3, NumPlaces
<1>6. \A d \in U : Top(d) /\ ctx[d].state = "built" /\ Num(tasks, {d}, ControlOps) = 0 /\ ~Chained(d)
  BY <1>1 DEF Core, WindowsInv
<1>7. \A d \in C : d \notin U => SameTasks(d)
  <2>1. ASSUME NEW d \in C, d \notin U, NEW K PROVE Num(tasks', {d}, K) = Num(tasks, {d}, K)
    <3>1. Num(tasks', {d}, K) = Num(tasks, {d}, K) + 0 /\ Num(tasks, {d}, K) \in Nat
      BY <1>4, <1>5, <2>1
    <3>2. QED
      BY <3>1
  <2>2. QED
    BY <2>1 DEF SameTasks
<1>8. \A d \in C : SameAsked(d) /\ SameLoad(d)
  BY <1>2 DEF SameAsked, SameLoad
<1>9. ASSUME NEW d PROVE Repeating(d)' <=> Repeating(d)
  BY <1>2, RepeatingKept
<1>10. Contexts' = C
  BY <1>1, LinksKept
<1>11. OneContinuation'
  <2>1. ASSUME NEW d \in C, d \notin U PROVE Continuation(d)'
    BY <1>1, <1>2, <1>7, <1>8, <1>9, <2>1, ContinuationKept DEF Core, OneContinuation
  <2>2. ASSUME NEW d \in U PROVE Continuation(d)'
    <3>1. Now(d, "Start")
      <4>1. ASSUME NEW K \in ControlKinds
            PROVE  Num(tasks', {d}, K) = IF "Start" \in K THEN 1 ELSE 0
        <5>1. Num(tasks, {d}, K) = 0
          BY <1>3, <1>6, NumNone, KindsApart
        <5>2. QED
          BY <1>4, <5>1
      <4>2. QED
        BY <4>1 DEF Now
    <3>2. Still(d, {}) \/ Still(d, {"Start"})
      BY <1>1, <1>3, <1>6 DEF Core, OneContinuation, Continuation
    <3>3. Became(d, {})
      BY <1>2, <1>9, <3>2 DEF Still, Holds, Became
    <3>4. ctx'[d].state = "built"
      BY <1>2, <1>6
    <3>5. QED
      BY <3>1, <3>3, <3>4, Continued
  <2>3. QED
    BY <1>10, <2>1, <2>2 DEF OneContinuation
<1>12. LoadsInv'
  <2>1. SameLoads
    BY <1>4, Kinds DEF SameLoads
  <2>2. \A d \in C : /\ SameLoad(d) /\ ctx'[d].next = ctx[d].next /\ ctx'[d].revalidate = ctx[d].revalidate
    BY <1>2, <1>8
  <2>3. QED
    BY <1>1, <1>2, <2>1, <2>2, LoadsKept DEF Core
<1>13. LinksInv'
  <2>1. SameChains
    BY <1>2 DEF SameChains
  <2>2. ASSUME NEW d \in C,
               ctx'[d].state \in {"started", "done", "retired"} \/ Num(tasks', {d}, {"Start"}) > 0
        PROVE  OpenLinks(d) = {}
    <3>1. CASE d \in U
      <4>1. Predecessors(ctx, d) = {}
        BY <1>1, <1>6, <3>1 DEF Typed, Types, Shapes
      <4>2. OpenLinks(d) \subseteq Predecessors(ctx, d)
        BY DEF OpenLinks, Predecessors, Contexts
      <4>3. QED
        BY <4>1, <4>2
    <3>2. CASE d \notin U
      <4>1. Num(tasks', {d}, {"Start"}) = Num(tasks, {d}, {"Start"})
        BY <1>7, <3>2, Kinds DEF SameTasks
      <4>2. QED
        BY <1>1, <1>2, <2>2, <4>1 DEF Core, LinksInv
    <3>3. QED
      BY <3>1, <3>2
  <2>3. QED
    BY <1>1, <2>1, <2>2, ChainsKept DEF Core
<1>14. NestedInv'
  <2>1. \A p \in C : \A d \in Children(p) : d \notin U /\ d \in C
    BY <1>1, <1>6 DEF Children, Top, Typed, FlushInv, Records
  <2>2. ASSUME NEW p \in C PROVE NestedAfter(p)
    <3>1. {d \in Children(p) : ctx'[d].state \in Live} = {d \in Children(p) : ctx[d].state \in Live}
      BY <1>2
    <3>2. \A d \in Children(p) : Num(tasks', {d}, ControlOps) = Num(tasks, {d}, ControlOps)
      BY <1>7, <2>1, Kinds DEF SameTasks
    <3>3. Num(tasks', {p}, NestedOps) = Num(tasks, {p}, NestedOps)
          /\ Num(tasks', {p}, LastOps) = Num(tasks, {p}, LastOps)
      <4>1. "Start" \notin NestedOps /\ "Start" \notin LastOps
        BY DEF NestedOps, LastOps
      <4>2. ASSUME NEW K, "Start" \notin K PROVE Num(tasks', {p}, K) = Num(tasks, {p}, K)
        <5>1. Num(tasks', {p}, K) = Num(tasks, {p}, K) + 0 /\ Num(tasks, {p}, K) \in Nat
          BY <1>4, <1>5, <4>2
        <5>2. QED
          BY <5>1
      <4>3. QED
        BY <4>1, <4>2
    <3>4. QED
      BY <1>1, <1>2, <3>1, <3>2, <3>3 DEF Core, NestedInv, NestedAfter
  <2>3. QED
    BY <1>1, <2>2, NestedFrom
<1>15. WindowsInv'
  <2>1. \A d \in C : (Top(d)' <=> Top(d)) /\ OpenLinks(d)' = OpenLinks(d)
    BY <1>1, <1>2, LinksKept, OpenLinksKept
  <2>2. \A d \in C : Top(d) /\ ctx[d].state = "unborn" => ctx[d].window # html.window
    BY <1>1, <1>2 DEF NextContext
  <2>3. QED
    BY <1>1, <1>2, <1>10, <2>1, <2>2 DEF Core, WindowsInv
<1>16. PrimaryInv'
  <2>1. \A d \in C :
          /\ ctx'[d].repeated = ctx[d].repeated
          /\ ctx'[d].state \in {"unborn", "built"} => ctx[d].state \in {"unborn", "built"}
          /\ ctx[d].state \in {"started", "done"} => ctx'[d].state \in {"started", "done"}
          /\ ctx'[d].state = "started" => ctx[d].state \in {"started", "built"}
    BY <1>2
  <2>2. QED
    BY <1>1, <1>2, <2>1, PrimaryKept DEF Core
<1>17. EndsFirst'
  BY <1>1, <1>2, <1>3, <1>4, EndsAppended DEF Core
<1>18. QED
  BY <1>11, <1>12, <1>13, <1>14, <1>15, <1>16, <1>17 DEF Core

LEMMA FlushDoneKeeps ==
  ASSUME Typed, Typed', Frame, Core, FlushAsyncDone
  PROVE  Core'
<1> DEFINE m == Cardinality(drv.initiated)
<1>1. /\ html.pc = "flushed" /\ UNCHANGED <<ctx, tasks, asked, loading, primary, budget>>
      /\ drv' = [drv EXCEPT !.detached = @ \cup drv.initiated, !.initiated = {},
                        !.refs.detached = @ + m, !.refs.pending = @ - m]
      /\ html' = IF html.window = NumWindows
                 THEN [html EXCEPT !.pc = "finishing"]
                 ELSE [pc |-> "parsing", window |-> html.window + 1]
  BY DEF FlushAsyncDone
<1> HIDE DEF m
<1>2. Records /\ html.window \in Int /\ drv.rewrites \subseteq Contexts
      /\ \A c \in Contexts : ctx[c].window \in Int
  BY DEF Typed, FlushInv, WindowInv, Types, TypesOf, CtxType
<1>3. /\ drv'.rewrites = drv.rewrites /\ drv'.canRewrite = drv.canRewrite
      /\ \/ html'.pc = "finishing" /\ html'.window = html.window
         \/ html'.pc = "parsing" /\ html'.window = html.window + 1
  BY <1>1, <1>2 DEF Records, DrvFields, RefKinds
<1>4. /\ OneContinuation' /\ LoadsInv' /\ LinksInv' /\ NestedInv' /\ PrimaryInv' /\ EndsFirst'
      /\ Contexts' = Contexts /\ \A d \in Contexts : OpenLinks(d)' = OpenLinks(d) /\ (Top(d)' <=> Top(d))
  BY <1>1, StillSame
<1>5. WindowsInv'
  <2>1. WindowsInv
    BY DEF Core
  <2>2. ASSUME NEW c \in Contexts, Top(c)
        PROVE  /\ ctx[c].state = "unborn" =>
                    ctx[c].window > html'.window \/ (ctx[c].window = html'.window /\ html'.pc = "parsing")
               /\ ctx[c].state # "unborn" =>
                    /\ ctx[c].window <= html'.window
                    /\ html'.pc = "parsing" => ctx[c].window # html'.window
    <3>1. /\ ctx[c].state = "unborn" => ctx[c].window > html.window
          /\ ctx[c].state # "unborn" => ctx[c].window <= html.window
      BY <1>1, <2>1, <2>2 DEF WindowsInv
    <3>2. QED
      BY <1>2, <1>3, <3>1
  <2>3. QED
    BY <1>1, <1>2, <1>3, <1>4, <2>1, <2>2 DEF WindowsInv
<1>6. QED
  BY <1>4, <1>5 DEF Core

---------------------------------------------------------------------------
(* Repetitions of a key.                                                    *)

LEMMA RepeatsIn == ASSUME Typed, NEW d \in Contexts
                   PROVE  Repeats(d) \subseteq Contexts /\ ctx[d].repeated \in Seq(Contexts)
<1>1. ctx[d] \in CtxType(Contexts)
  BY DEF Typed, Types, TypesOf
<1>2. ctx[d].repeated \in Seq(Contexts)
  BY <1>1 DEF CtxType
<1>3. QED
  BY <1>2, ElementOfSeq, LenProperties DEF Repeats

\* While no end is queued, the context that has a key is not done.
LEMMA PrimaryStarted ==
  ASSUME Typed, Core, NoEnds(tasks), NEW k \in DOMAIN primary, primary[k] # NoContext
  PROVE  primary[k] \in Contexts /\ ctx[primary[k]].state = "started" /\ ctx[primary[k]].key = k
<1>1. primary[k] \in Contexts /\ ctx[primary[k]].state \in {"started", "done"} /\ ctx[primary[k]].key = k
  BY DEF Typed, Types, TypesOf, Core, PrimaryInv
<1>2. ASSUME NEW p \in Contexts, ctx[p].state = "done" PROVE FALSE
  <2>1. Holds(p, {"Retire"}, {})
    BY <1>2 DEF Core, OneContinuation, Continuation, Still
  <2>2. Num(tasks, {p}, {"Retire"}) = 1
    BY <2>1 DEF Holds
  <2>3. tasks \in Seq(TaskOf(Contexts))
    BY DEF Typed, Types, TypesOf
  <2>4. PICK i \in DOMAIN tasks : tasks[i].op \in {"Retire"}
    BY <2>2, <2>3, NumPlaces
  <2>5. QED
    BY <2>4 DEF NoEnds, EndingOps
<1>3. QED
  BY <1>1, <1>2

Elems(s) == {s[i] : i \in DOMAIN s}
Distinct(s) == \A i, j \in DOMAIN s : s[i] = s[j] => i = j

LEMMA Appended ==
  ASSUME NEW C, NEW s \in Seq(C), NEW c \in C, c \notin Elems(s), Distinct(s), NEW u, u = Append(s, c)
  PROVE  u # <<>> /\ Elems(u) = Elems(s) \cup {c} /\ Distinct(u)
<1>1. /\ Len(s) \in Nat /\ DOMAIN s = 1..Len(s) /\ DOMAIN u = 1..(Len(s) + 1)
      /\ u[Len(s) + 1] = c /\ \A i \in 1..Len(s) : u[i] = s[i]
  OBVIOUS
<1>2. DOMAIN u = DOMAIN s \cup {Len(s) + 1} /\ Len(s) + 1 \notin DOMAIN s
  BY <1>1
<1>3. \A i \in DOMAIN s : u[i] = s[i]
  BY <1>1
<1>4. u # <<>>
  BY <1>1, <1>2
<1>5. QED
  BY <1>1, <1>2, <1>3, <1>4 DEF Elems, Distinct

\* What StartRepeated does to the contexts, when c comes to wait for p.
Queued(c, p) ==
  /\ \A d \in Contexts :
       /\ ctx'[d].nested = ctx[d].nested /\ ctx'[d].successors = ctx[d].successors
       /\ ctx'[d].preds = ctx[d].preds /\ ctx'[d].fetches = ctx[d].fetches
       /\ ctx'[d].waits = ctx[d].waits /\ ctx'[d].next = ctx[d].next
       /\ ctx'[d].revalidate = ctx[d].revalidate
       /\ d # c => ctx'[d].state = ctx[d].state
       /\ d # p => ctx'[d].repeated = ctx[d].repeated
  /\ ctx'[c].state = "started" /\ ctx'[p].repeated = Append(ctx[p].repeated, c)

LEMMA QueuedOf ==
  ASSUME Records, NEW c \in Contexts, NEW p \in Contexts, c # p, NEW g, g = ctx \/ g = MarkSlow(c),
         ctx' = [g EXCEPT ![c].state = "started", ![p].repeated = Append(@, c)]
  PROVE  Queued(c, p)
<1>1. /\ DOMAIN g = Contexts /\ \A d \in Contexts : DOMAIN g[d] = CtxFields
      /\ \A d \in Contexts :
           /\ g[d].nested = ctx[d].nested /\ g[d].repeated = ctx[d].repeated
           /\ g[d].successors = ctx[d].successors /\ g[d].preds = ctx[d].preds
           /\ g[d].fetches = ctx[d].fetches /\ g[d].waits = ctx[d].waits /\ g[d].next = ctx[d].next
           /\ g[d].revalidate = ctx[d].revalidate /\ g[d].state = ctx[d].state
  <2>1. CASE g = ctx
    BY <2>1 DEF Records, Contexts
  <2>2. CASE g = MarkSlow(c)
    BY <2>2, SlowSame DEF CtxFields
  <2>3. QED
    BY <2>1, <2>2
<1>2. \A d \in Contexts : d # c /\ d # p => ctx'[d] = g[d]
  BY <1>1
<1>3. ctx'[c] = [g[c] EXCEPT !.state = "started"]
  BY <1>1
<1>4. ctx'[p] = [g[p] EXCEPT !.repeated = Append(@, c)]
  BY <1>1
<1> DEFINE a == Append(g[p].repeated, c)
<1>5. ctx'[p] = [g[p] EXCEPT !.repeated = a] /\ a = Append(ctx[p].repeated, c)
  BY <1>1, <1>4
<1> HIDE DEF a
<1>6. /\ DOMAIN g[c] = CtxFields /\ DOMAIN g[p] = CtxFields
  BY <1>1
<1>7. /\ \A f \in CtxFields \ {"state"} : ctx'[c][f] = g[c][f]
      /\ ctx'[c].state = "started"
  BY <1>3, <1>6 DEF CtxFields
<1>8. /\ \A f \in CtxFields \ {"repeated"} : ctx'[p][f] = g[p][f]
      /\ ctx'[p].repeated = a
  BY <1>5, <1>6 DEF CtxFields
<1>9. ASSUME NEW d \in Contexts
      PROVE  /\ ctx'[d].nested = g[d].nested /\ ctx'[d].successors = g[d].successors
             /\ ctx'[d].preds = g[d].preds /\ ctx'[d].fetches = g[d].fetches
             /\ ctx'[d].waits = g[d].waits /\ ctx'[d].next = g[d].next
             /\ ctx'[d].revalidate = g[d].revalidate
             /\ d # c => ctx'[d].state = g[d].state
             /\ d # p => ctx'[d].repeated = g[d].repeated
  <2>1. CASE d = c
    BY <1>7, <2>1 DEF CtxFields
  <2>2. CASE d = p
    BY <1>8, <2>2 DEF CtxFields
  <2>3. CASE d # c /\ d # p
    BY <1>2, <2>3
  <2>4. QED
    BY <2>1, <2>2, <2>3
<1>10. QED
  BY <1>1, <1>5, <1>7, <1>8, <1>9 DEF Queued

LEMMA QueuedKeeps ==
  ASSUME NEW C, Contexts = C, Typed, Typed', Frame, Core, RewriteSequence,
         NEW c, c = Running, NEW p \in C, tasks # <<>>, Head(tasks).op = "Start", tasks' = Tail(tasks),
         p = primary[ctx[c].key], Queued(c, p),
         asked' = asked, loading' = loading, primary' = primary, html' = html,
         budget'.loads = budget.loads, budget'.waiting = budget.waiting
  PROVE  Core'
<1>1. c \in C /\ Runs(c, "Start") /\ TypesOf(C) /\ tasks \in Seq(TaskOf(C)) /\ NoContext \notin C
  BY HeadRuns, Controls DEF Core, Typed, Types, TypesOf, FlushInv, Records
<1>20. /\ \A d \in C :
            /\ ctx'[d].nested = ctx[d].nested /\ ctx'[d].successors = ctx[d].successors
            /\ ctx'[d].preds = ctx[d].preds /\ ctx'[d].fetches = ctx[d].fetches
            /\ ctx'[d].waits = ctx[d].waits /\ ctx'[d].next = ctx[d].next
            /\ ctx'[d].revalidate = ctx[d].revalidate
            /\ d # c => ctx'[d].state = ctx[d].state
            /\ d # p => ctx'[d].repeated = ctx[d].repeated
       /\ ctx'[c].state = "started"
  BY Zenon DEF Queued
<1>2. NoEnds(tasks) /\ NoEnds(Tail(tasks))
  BY <1>1, Controls, NoneEnds DEF Core
<1>3. /\ ctx[c].state = "built" /\ ctx[c].repeated = <<>> /\ ~Repeating(c) /\ ctx[c].nested = 0
      /\ ctx[c].fetches = 0 /\ ~ctx[c].waits
      /\ \A k \in {"lookup", "lock", "rewrite"} : <<k, c>> \notin asked
  BY <1>1 DEF Runs, Core, PrimaryInv
<1>4. ctx[p].state = "started" /\ ctx[p].key = ctx[c].key /\ p # c
  <2>1. ctx[c].key \in DOMAIN primary /\ primary[ctx[c].key] # NoContext
    BY <1>1 DEF TypesOf
  <2>2. QED
    BY <1>2, <1>3, <2>1, PrimaryStarted
<1>5. Now(c, "none") /\ (\A d \in C \ {c} : SameTasks(d)) /\ SameLoads
  <2>1. \A K \in ControlKinds : Num(Tail(tasks), {c}, K) = 0
    BY <1>1 DEF Runs
  <2>2. QED
    BY <1>1, <2>1, Controls, ControlMoved
<1>6. SameDriver
  BY SequenceDriver DEF Typed, FlushInv
<1>7. /\ Num(tasks, {c}, {"Start"}) = 1 /\ Num(tasks, {c}, LastOps) = 0
      /\ Num(tasks', {c}, {"Start"}) = 0 /\ Num(tasks', {c}, NestedOps) = 0
  <2>1. \A K : Num(tasks, {c}, K) = (IF "Start" \in K THEN 1 ELSE 0) + Num(Tail(tasks), {c}, K)
    BY <1>1, TaskNums
  <2>2. Num(Tail(tasks), {c}, {"Start"}) = 0 /\ Num(Tail(tasks), {c}, LastOps) = 0
    BY <1>1, Kinds DEF Runs
  <2>3. "Start" \notin LastOps /\ "none" \notin NestedOps
    BY DEF LastOps, NestedOps
  <2>6. /\ Num(tasks, {c}, {"Start"}) = (IF "Start" \in {"Start"} THEN 1 ELSE 0) + Num(Tail(tasks), {c}, {"Start"})
        /\ Num(tasks, {c}, LastOps) = (IF "Start" \in LastOps THEN 1 ELSE 0) + Num(Tail(tasks), {c}, LastOps)
    BY <2>1
  <2>4. Num(tasks, {c}, {"Start"}) = 1 /\ Num(tasks, {c}, LastOps) = 0
    BY <2>2, <2>3, <2>6
  <2>5. QED
    BY <1>5, <2>3, <2>4, Kinds DEF Now
<1>8. SameChains
  BY <1>20 DEF SameChains, Waiting
<1>9. MovesOn(c)
  <2>1. \A d \in C \ {c} :
          /\ ctx'[d].state = ctx[d].state
          /\ \A K \in {{"Start"}, LastOps, NestedOps} : Num(tasks', {d}, K) = Num(tasks, {d}, K)
          /\ Num(tasks', {d}, ControlOps) = Num(tasks, {d}, ControlOps)
    BY <1>20, <1>5, Kinds DEF SameTasks
  <2>2. \A d \in C : ctx'[d].nested = ctx[d].nested
    BY <1>20
  <2>3. ctx'[c].state = "started"
    BY <1>20
  <2>4. QED
    BY <1>3, <1>6, <1>7, <1>8, <2>1, <2>2, <2>3 DEF MovesOn, SameDriver
<1>10. /\ \A i \in DOMAIN ctx[p].repeated : ctx[p].repeated[i] # c
       /\ \A i, j \in DOMAIN ctx[p].repeated : ctx[p].repeated[i] = ctx[p].repeated[j] => i = j
  BY <1>3, <1>4 DEF Repeating, Repeats, Core, PrimaryInv
<1>11. /\ ctx'[p].repeated # <<>> /\ Repeats(p)' = Repeats(p) \cup {c}
       /\ \A i, j \in DOMAIN ctx'[p].repeated : ctx'[p].repeated[i] = ctx'[p].repeated[j] => i = j
  <2> DEFINE s == ctx[p].repeated
             u == ctx'[p].repeated
  <2>1. s \in Seq(C) /\ u = Append(s, c)
    BY RepeatsIn DEF Queued
  <2> HIDE DEF s, u
  <2>2. c \notin Elems(s) /\ Distinct(s)
    BY <1>10 DEF s, Elems, Distinct
  <2>3. u # <<>> /\ Elems(u) = Elems(s) \cup {c} /\ Distinct(u)
    BY <1>1, <2>1, <2>2, Appended
  <2>4. QED
    BY <2>3 DEF Repeats, s, u, Elems, Distinct
<1>12. Contexts' = C /\ (\A d \in C : d # p => Repeats(d)' = Repeats(d)) /\ Repeats(c) = {}
  BY <1>20, <1>3, LinksKept DEF Repeats
<1>13. \A d \in C : Repeating(d)' <=> Repeating(d) \/ d = c
  <2>1. \A q \in C : q # c => (ctx'[q].state = "started" <=> ctx[q].state = "started")
    BY <1>20
  <2>2. QED
    BY <1>3, <1>4, <1>11, <1>12, <2>1, ZenonT(30) DEF Repeating
<1>14. OneContinuation'
  <2>1. ASSUME NEW d \in C, d # c PROVE Continuation(d)'
    <3>1. /\ ctx'[d].state = ctx[d].state /\ SameLoad(d) /\ SameTasks(d) /\ SameAsked(d)
          /\ ctx'[d].nested = ctx[d].nested /\ Continuation(d)
      BY <1>20, <1>5, <2>1 DEF SameLoad, SameAsked, Core, OneContinuation
    <3>2. Repeating(d)' <=> Repeating(d)
      BY <1>13, <2>1
    <3>3. QED
      BY <3>1, <3>2, ContinuationKept
  <2>2. Became(c, {"repeats"})
    <3>1. Repeating(c)'
      BY <1>1, <1>13
    <3>2. ~(ctx'[c].fetches > 0 \/ ctx'[c].waits) /\ ~(ctx'[c].nested > 0)
      BY <1>20, <1>1, <1>3
    <3>3. QED
      BY <1>3, <3>1, <3>2 DEF Became
  <2>3. Continuation(c)'
    <3>1. ctx'[c].state = "started"
      BY <1>20
    <3>2. QED
      BY <1>5, <2>2, <3>1, Continued
  <2>4. QED
    BY <1>12, <2>1, <2>3 DEF OneContinuation
<1>15. LoadsInv'
  <2>1. \A d \in C : /\ SameLoad(d) /\ ctx'[d].next = ctx[d].next /\ ctx'[d].revalidate = ctx[d].revalidate
    BY <1>20 DEF SameLoad
  <2>2. QED
    BY <1>5, <2>1, LoadsKept DEF Core
<1>16. LinksInv' /\ NestedInv' /\ WindowsInv'
  BY <1>1, <1>9, MoveLinks, MoveNested, MoveWindows DEF Core
<1>17. EndsFirst'
  BY <1>2, NoEndsFirst
<1>18. PrimaryInv'
  <2>1. \A d \in C : ctx'[d].key = ctx[d].key /\ Repeats(d) \subseteq C
    BY RepeatsIn DEF Frame, Keeps, Contexts
  <2>2. ASSUME NEW k \in DOMAIN primary, primary[k] # NoContext
        PROVE  ctx'[primary[k]].key = k /\ ctx'[primary[k]].state \in {"started", "done"}
    <3>1. primary[k] \in C /\ ctx[primary[k]].key = k /\ ctx[primary[k]].state \in {"started", "done"}
      BY <1>1, <2>2 DEF TypesOf, Core, PrimaryInv
    <3>2. QED
      BY <1>20, <1>3, <2>1, <3>1
  <2>3. ASSUME NEW q \in C
        PROVE  /\ ctx'[q].state \in {"unborn", "built"} => ctx'[q].repeated = <<>>
               /\ ctx'[q].repeated # <<>> /\ ctx'[q].state = "started" => primary[ctx'[q].key] = q
               /\ \A i, j \in DOMAIN ctx'[q].repeated :
                    ctx'[q].repeated[i] = ctx'[q].repeated[j] => i = j
               /\ \A d \in Repeats(q)' : ctx'[d].key = ctx'[q].key
    <3>1. /\ ctx[q].state \in {"unborn", "built"} => ctx[q].repeated = <<>>
          /\ ctx[q].repeated # <<>> /\ ctx[q].state = "started" => primary[ctx[q].key] = q
          /\ \A i, j \in DOMAIN ctx[q].repeated : ctx[q].repeated[i] = ctx[q].repeated[j] => i = j
          /\ \A d \in Repeats(q) : ctx[d].key = ctx[q].key
      BY DEF Core, PrimaryInv
    <3>2. CASE q = p
      <4>1. ctx'[q].state = "started" /\ primary[ctx'[q].key] = q
        BY <1>20, <1>4, <2>1, <3>2
      <4>2. \A d \in Repeats(q)' : ctx'[d].key = ctx'[q].key
        <5>1. Repeats(q)' = Repeats(q) \cup {c}
          BY <1>11, <3>2, Zenon
        <5>2. \A d \in Repeats(q) \cup {c} : d \in C /\ ctx[d].key = ctx[q].key
          BY <1>1, <1>4, <2>1, <3>1, <3>2
        <5>3. QED
          BY <2>1, <5>1, <5>2
      <4>3. QED
        BY <1>11, <3>2, <4>1, <4>2, ZenonT(30)
    <3>3. CASE q # p
      <4>1. ctx'[q].repeated = ctx[q].repeated /\ Repeats(q)' = Repeats(q)
        BY <1>20, <1>12, <3>3
      <4>2. CASE q = c
        BY <1>3, <1>12, <4>1, <4>2
      <4>3. CASE q # c
        <5>1. ctx'[q].state = ctx[q].state
          BY <1>20, <4>3
        <5>2. QED
          BY <2>1, <3>1, <4>1, <5>1
      <4>4. QED
        BY <4>2, <4>3
    <3>4. QED
      BY <3>2, <3>3
  <2>4. QED
    BY <1>12, <2>2, <2>3 DEF PrimaryInv
<1>19. QED
  BY <1>14, <1>15, <1>16, <1>17, <1>18 DEF Core

\* The context c comes to repeat p, which does not wait for it.
LEMMA ComesToRepeat ==
  ASSUME Typed, Core, StartRepeated, NEW c, c = Running, NEW p, p = primary[ctx[c].key],
         ~IsWaitedOnBy(c, p)
  PROVE  c \in Contexts /\ p \in Contexts /\ p # c /\ Queued(c, p) /\ tasks' = Tail(tasks)
<1>1. PICK C, h : C = Contexts /\ h = Head(tasks).op
  OBVIOUS
<1>2. tasks # <<>> /\ h = "Start"
  BY <1>1, ZenonT(30) DEF StartRepeated, AtHead
<1>3. c \in C /\ Runs(c, h) /\ Records /\ TypesOf(C)
  BY <1>1, <1>2, HeadRuns, Controls DEF Core, Typed, FlushInv, Types
<1>4. p # NoContext
  BY <1>1, ZenonT(30) DEF StartRepeated
<1>5. p \in C /\ p # c
  <2>1. ctx[c].key \in DOMAIN primary /\ p \in C
    BY <1>1, <1>3, <1>4 DEF TypesOf
  <2>2. ctx[p].state \in {"started", "done"} /\ ctx[c].state = "built"
    BY <1>1, <1>2, <1>3, <1>4, <2>1 DEF Core, PrimaryInv, Runs
  <2>3. QED
    BY <2>1, <2>2
<1>6. PICK g : /\ g = ctx \/ g = MarkSlow(c)
               /\ ctx' = [g EXCEPT ![c].state = "started", ![p].repeated = Append(@, c)]
  <2>1. CASE ctx[p].slow
    BY <2>1 DEF StartRepeated
  <2>2. CASE ~ctx[p].slow
    BY <2>2, ZenonT(30) DEF StartRepeated
  <2>3. QED
    BY <2>1, <2>2
<1>7. tasks' = Tail(tasks)
  BY ZenonT(30) DEF StartRepeated
<1>8. Queued(c, p)
  <2>1. c \in Contexts /\ p \in Contexts /\ c # p
    BY <1>1, <1>3, <1>5
  <2>2. CASE g = ctx
    BY <1>3, <1>6, <2>1, <2>2, QueuedOf
  <2>3. CASE g = MarkSlow(c)
    BY <1>3, <1>6, <2>1, <2>3, QueuedOf
  <2>4. QED
    BY <1>6, <2>2, <2>3
<1>9. QED
  BY <1>1, <1>3, <1>5, <1>7, <1>8

LEMMA RepeatedStarts ==
  ASSUME Typed, Typed', Frame, Core, RewriteSequence, StartRepeated
  PROVE  Core'
<1>1. PICK C, c, h, p : C = Contexts /\ c = Running /\ h = Head(tasks).op /\ p = primary[ctx[c].key]
  OBVIOUS
<1>2. tasks # <<>> /\ h = "Start"
  BY <1>1, ZenonT(30) DEF StartRepeated, AtHead
<1>3. c \in C /\ Runs(c, h) /\ Records /\ TypesOf(C)
  BY <1>1, <1>2, HeadRuns, Controls DEF Core, Typed, FlushInv, Types
<1>4. TakeContext(c) /\ p # NoContext /\ UNCHANGED <<asked, loading, primary, html>>
  BY <1>1, ZenonT(30) DEF StartRepeated
<1>5. budget'.loads = budget.loads /\ budget'.waiting = budget.waiting
  BY <1>3, <1>4 DEF TakeContext, TypesOf, BudgetOf
<1>6. CASE IsWaitedOnBy(c, p)
  <2>1. ctx' = [ctx EXCEPT ![c].state = "done"] /\ tasks' = Call(Task("Retire", c, "kRender"))
    BY <1>1, <1>6 DEF StartRepeated
  <2>2. Touches(c) /\ ctx'[c].state = "done"
    BY <1>1, <1>3, <2>1, TouchesOne
  <2>3. \E a \in Args : tasks' = Call(Task("Retire", c, a))
    BY <2>1, OpsArgs
  <2>4. Passes(c, h, "Retire")
    BY <1>2, <2>2 DEF Passes
  <2>5. QED
    BY <1>1, <1>2, <1>4, <1>5, <2>2, <2>3, <2>4, Controls, SimpleStep
<1>7. CASE ~IsWaitedOnBy(c, p)
  <2>1. p \in C /\ Queued(c, p) /\ tasks' = Tail(tasks)
    BY <1>1, <1>7, ComesToRepeat
  <2>2. QED
    BY <1>1, <1>2, <1>4, <1>5, <2>1, QueuedKeeps
<1>8. QED
  BY <1>6, <1>7

---------------------------------------------------------------------------
(* Nested contexts.                                                         *)

LEMMA ChildrenOf ==
  ASSUME Typed, NEW c \in Contexts
  PROVE  /\ Children(c) \subseteq Contexts /\ IsFiniteSet(Children(c)) /\ c \notin Children(c)
         /\ \A d \in Children(c) : ~Top(d) /\ ctx[d].parent = c
         /\ \A p \in Contexts : p # c => Children(p) \cap Children(c) = {}
<1>1. Children(c) \in SUBSET Contexts /\ IsFiniteSet(Contexts) /\ Contexts \subseteq Nat \ {NoContext}
  BY DEF Children, Typed, FlushInv, Records
<1>2. IsFiniteSet(Children(c))
  BY <1>1, FS_Subset
<1>3. c \notin Children(c)
  <2>1. ctx[c].parent < c /\ c \in Nat
    BY <1>1 DEF Typed, Types, Shapes
  <2>2. ctx[c].parent # c
    BY <2>1
  <2>3. QED
    BY <2>2 DEF Children
<1>4. QED
  BY <1>1, <1>2, <1>3 DEF Children, Top

LEMMA NestedStarts ==
  ASSUME Typed, Typed', Frame, Core, RewriteSequence, StartNestedTasksImpl
  PROVE  Core'
<1>1. PICK C, c, r, U : /\ C = Contexts /\ c = Running /\ r = Tail(tasks)
                        /\ U = {d \in Children(c) : ~Chained(d)}
  OBVIOUS
<1>2. /\ tasks # <<>> /\ Head(tasks).op = "StartNestedTasksImpl" /\ tasks' = StartTasks(U) \o r
      /\ UNCHANGED <<ctx, asked, loading, primary, budget, drv, html>>
  BY <1>1 DEF StartNestedTasksImpl, AtHead
<1>3. c \in C /\ Runs(c, "StartNestedTasksImpl")
  BY <1>1, <1>2, HeadRuns, Controls DEF Core
<1>4. /\ tasks \in Seq(TaskOf(C)) /\ r \in Seq(TaskOf(C)) /\ Records
  BY <1>1, <1>2, HeadType DEF Typed, Types, TypesOf, FlushInv
<1>5. U \subseteq C /\ c \notin U /\ \A d \in U : ~Top(d) /\ ctx[d].parent = c /\ ~Chained(d)
  BY <1>1, <1>3, ChildrenOf
<1>6. /\ StartTasks(U) \in Seq(TaskOf(C)) /\ NoEnds(StartTasks(U))
      /\ \A d, K : Num(tasks', {d}, K) = Num(r, {d}, K) + (IF d \in U /\ "Start" \in K THEN 1 ELSE 0)
      /\ \A D : \A K \in LoadKinds : Num(tasks', D, K) = Num(r, D, K)
  <2>1. Contexts = C /\ tasks' = StartTasks(U) \o r
    BY <1>1, <1>2
  <2>2. WithStarts(C, U, r, tasks')
    BY <1>4, <1>5, <2>1, StartsNum
  <2>3. QED
    BY <2>2 DEF WithStarts
<1>7. \A D, K : /\ Num(r, D, K) \in Nat /\ Num(tasks, D, K) \in Nat
                /\ Num(tasks, D, K) = (IF c \in D /\ "StartNestedTasksImpl" \in K THEN 1 ELSE 0) + Num(r, D, K)
  BY <1>1, <1>2, <1>4, TaskNums
<1>8. \A K \in ControlKinds : Num(r, {c}, K) = 0
  BY <1>1, <1>3 DEF Runs
<1>9. /\ ctx[c].state = "started" /\ ctx[c].nested > 0 /\ ~Repeating(c) /\ ctx[c].fetches = 0 /\ ~ctx[c].waits
      /\ \A k \in {"lookup", "lock", "rewrite"} : <<k, c>> \notin asked
  BY <1>3 DEF Runs, NestedOps
<1>10. \A d \in Children(c) : ctx[d].state = "built" /\ Num(tasks, {d}, ControlOps) = 0
  <2>1. Num(tasks, {c}, NestedOps) = 1 + Num(r, {c}, NestedOps)
    BY <1>7 DEF NestedOps
  <2>2. Num(tasks, {c}, NestedOps) > 0
    BY <1>8, <2>1, Kinds
  <2>3. QED
    BY <1>1, <1>3, <2>2 DEF Core, NestedInv
<1>11. ASSUME NEW d \in C, d # c, d \notin U, NEW K PROVE Num(tasks', {d}, K) = Num(tasks, {d}, K)
  <2>1. Num(tasks', {d}, K) = Num(r, {d}, K) + 0 /\ Num(tasks, {d}, K) = 0 + Num(r, {d}, K) /\ Num(r, {d}, K) \in Nat
    BY <1>6, <1>7, <1>11
  <2>2. QED
    BY <2>1
<1>12. ASSUME NEW K PROVE Num(tasks', {c}, K) = Num(r, {c}, K)
  <2>1. Num(tasks', {c}, K) = Num(r, {c}, K) + 0 /\ Num(r, {c}, K) \in Nat
    BY <1>5, <1>6, <1>7
  <2>2. QED
    BY <2>1
<1>13. ASSUME NEW d \in U, NEW K \in ControlKinds PROVE Num(tasks', {d}, K) = IF "Start" \in K THEN 1 ELSE 0
  <2>1. Num(tasks, {d}, ControlOps) = 0
    BY <1>1, <1>10
  <2>2. Num(tasks, {d}, K) = 0
    BY <1>4, <2>1, NumNone, KindsApart
  <2>3. Num(tasks, {d}, K) = 0 + Num(r, {d}, K) /\ Num(r, {d}, K) \in Nat
    BY <1>5, <1>7
  <2>4. Num(tasks', {d}, K) = Num(r, {d}, K) + (IF "Start" \in K THEN 1 ELSE 0)
    BY <1>6
  <2>5. QED
    BY <2>2, <2>3, <2>4
<1>14. Contexts' = C /\ \A d : Repeating(d)' <=> Repeating(d)
  BY <1>1, <1>2, LinksKept, RepeatingKept
<1>15. \A d \in C : SameAsked(d) /\ SameLoad(d)
  BY <1>2 DEF SameAsked, SameLoad
<1>16. OneContinuation'
  <2>1. ASSUME NEW d \in C, d # c, d \notin U PROVE Continuation(d)'
    <3>1. SameTasks(d)
      BY <1>11, <2>1 DEF SameTasks
    <3>2. QED
      BY <1>1, <1>2, <1>14, <1>15, <3>1, ContinuationKept DEF Core, OneContinuation
  <2>2. ASSUME NEW d \in U PROVE Continuation(d)'
    <3>1. Now(d, "Start")
      BY <1>13 DEF Now
    <3>2. ctx[d].state = "built" /\ d \in C
      BY <1>1, <1>5, <1>10
    <3>3. Still(d, {}) \/ Still(d, {"Start"})
      BY <1>1, <3>2 DEF Core, OneContinuation, Continuation
    <3>4. Became(d, {})
      BY <1>2, <1>14, <3>3 DEF Still, Holds, Became
    <3>5. ctx'[d].state = "built"
      BY <1>2, <3>2
    <3>6. QED
      BY <3>1, <3>4, <3>5, Continued
  <2>3. Continuation(c)'
    <3>1. Now(c, "none")
      <4>1. \A K \in ControlKinds : "none" \notin K
        BY KindsApart DEF ControlOps, Ops
      <4>2. QED
        BY <1>8, <1>12, <4>1 DEF Now
    <3>2. Became(c, {"nests"})
      BY <1>2, <1>9, <1>14 DEF Became
    <3>3. ctx'[c].state = "started"
      BY <1>2, <1>9
    <3>4. QED
      BY <3>1, <3>2, <3>3, Continued
  <2>4. QED
    BY <1>14, <2>1, <2>2, <2>3 DEF OneContinuation
<1>17. LoadsInv'
  <2>1. ASSUME NEW D, NEW K \in LoadKinds PROVE Num(tasks', D, K) = Num(tasks, D, K)
    <3>1. "StartNestedTasksImpl" \notin K
      BY KindsApart, Controls
    <3>2. Num(tasks', D, K) = Num(r, D, K) /\ Num(tasks, D, K) = 0 + Num(r, D, K) /\ Num(r, D, K) \in Nat
      BY <1>6, <1>7, <3>1
    <3>3. QED
      BY <3>2
  <2>2. SameLoads
    BY <2>1, Kinds DEF SameLoads
  <2>3. \A d \in C : /\ SameLoad(d) /\ ctx'[d].next = ctx[d].next /\ ctx'[d].revalidate = ctx[d].revalidate
    BY <1>2, <1>15
  <2>4. QED
    BY <1>1, <1>2, <2>2, <2>3, LoadsKept DEF Core
<1>18. LinksInv'
  <2>1. SameChains
    BY <1>2 DEF SameChains
  <2>2. ASSUME NEW d \in C,
               ctx'[d].state \in {"started", "done", "retired"} \/ Num(tasks', {d}, {"Start"}) > 0
        PROVE  OpenLinks(d) = {}
    <3>1. CASE d \in U
      <4>1. Predecessors(ctx, d) = {}
        BY <1>1, <1>5, <3>1 DEF Typed, Types, Shapes
      <4>2. OpenLinks(d) \subseteq Predecessors(ctx, d)
        BY DEF OpenLinks, Predecessors, Contexts
      <4>3. QED
        BY <4>1, <4>2
    <3>2. CASE d = c
      BY <1>1, <1>3, <1>9, <3>2 DEF Core, LinksInv
    <3>3. CASE d \notin U /\ d # c
      <4>1. Num(tasks', {d}, {"Start"}) = Num(tasks, {d}, {"Start"})
        BY <1>11, <3>3
      <4>2. QED
        BY <1>1, <1>2, <2>2, <4>1 DEF Core, LinksInv
    <3>4. QED
      BY <3>1, <3>2, <3>3
  <2>3. QED
    BY <1>1, <2>1, <2>2, ChainsKept DEF Core
<1>19. NestedInv'
  <2>1. ASSUME NEW p \in C PROVE NestedAfter(p)
    <3>1. {d \in Children(p) : ctx'[d].state \in Live} = {d \in Children(p) : ctx[d].state \in Live}
      BY <1>2
    <3>2. Num(tasks', {p}, LastOps) = Num(tasks, {p}, LastOps)
      <4>1. "Start" \notin LastOps /\ "StartNestedTasksImpl" \notin LastOps
        BY DEF LastOps
      <4>2. /\ Num(tasks', {p}, LastOps) = Num(r, {p}, LastOps) + 0
            /\ Num(tasks, {p}, LastOps) = 0 + Num(r, {p}, LastOps) /\ Num(r, {p}, LastOps) \in Nat
        BY <1>6, <1>7, <4>1
      <4>3. QED
        BY <4>2
    <3>3. ASSUME Num(tasks', {p}, NestedOps) > 0, NEW d \in Children(p)
          PROVE  ctx'[d].state = "built" /\ Num(tasks', {d}, ControlOps) = 0
      <4>1. p # c
        BY <1>8, <1>12, <3>3, Kinds
      <4>2. p \notin U
        <5>1. SUFFICES ASSUME p \in U PROVE FALSE
          OBVIOUS
        <5>2. Num(tasks', {p}, NestedOps) = IF "Start" \in NestedOps THEN 1 ELSE 0
          BY <1>13, <5>1, Kinds
        <5>3. QED
          BY <3>3, <5>2 DEF NestedOps
      <4>3. Num(tasks, {p}, NestedOps) > 0
        BY <1>11, <3>3, <4>1, <4>2
      <4>4. ctx[d].state = "built" /\ Num(tasks, {d}, ControlOps) = 0 /\ d \in C
        BY <1>1, <3>3, <4>3, ChildrenOf DEF Core, NestedInv
      <4>5. d \notin U /\ d # c
        BY <1>1, <1>3, <1>5, <1>9, <3>3, <4>1, <4>4, ChildrenOf
      <4>6. QED
        BY <1>2, <1>11, <4>4, <4>5
    <3>4. QED
      BY <1>1, <1>2, <3>1, <3>2, <3>3, ZenonT(30) DEF Core, NestedInv, NestedAfter
  <2>2. QED
    BY <1>1, <2>1, NestedFrom
<1>20. WindowsInv'
  <2>1. \A d \in C : (Top(d)' <=> Top(d)) /\ OpenLinks(d)' = OpenLinks(d)
    BY <1>1, <1>2, LinksKept, OpenLinksKept
  <2>2. drv.rewrites \subseteq C
    BY <1>1 DEF Typed, FlushInv, WindowInv
  <2>3. \A d \in drv.rewrites : Top(d) /\ ctx[d].state = "built" /\ Num(tasks, {d}, ControlOps) = 0
    BY DEF Core, WindowsInv
  <2>4. \A d \in drv.rewrites : Num(tasks', {d}, ControlOps) = 0
    BY <1>5, <1>9, <1>11, <2>2, <2>3
  <2>5. QED
    BY <1>1, <1>2, <1>14, <2>1, <2>2, <2>3, <2>4 DEF Core, WindowsInv
<1>21. PrimaryInv'
  <2>1. \A d \in C :
          /\ ctx'[d].repeated = ctx[d].repeated
          /\ ctx'[d].state \in {"unborn", "built"} => ctx[d].state \in {"unborn", "built"}
          /\ ctx[d].state \in {"started", "done"} => ctx'[d].state \in {"started", "done"}
          /\ ctx'[d].state = "started" => ctx[d].state \in {"started", "built"}
    BY <1>2
  <2>2. QED
    BY <1>1, <1>2, <2>1, PrimaryKept DEF Core
<1>22. EndsFirst'
  <2>1. "StartNestedTasksImpl" \notin EndingOps
    BY DEF EndingOps, RepeatedOps
  <2>2. NoEnds(r)
    BY <1>1, <1>2, <1>4, <2>1, NoneEnds DEF Core
  <2>3. NoEnds(tasks')
    BY <1>2, <1>4, <1>6, <2>2, NoEndsConcat
  <2>4. QED
    BY <2>3, NoEndsFirst
<1>23. QED
  BY <1>16, <1>17, <1>18, <1>19, <1>20, <1>21, <1>22 DEF Core

LEMMA NestedBuilt ==
  ASSUME Typed, Typed', Frame, Core, NEW c \in Contexts, RewriteNested(c)
  PROVE  Core'
<1>1. PICK C, N : C = Contexts /\ N = Children(c)
  OBVIOUS
<1>2. /\ <<"rewrite", c>> \in asked /\ asked' = asked \ {<<"rewrite", c>>} /\ N # {}
      /\ tasks' = AddRewriteTask(Task("StartNestedTasksImpl", c, ""))
      /\ UNCHANGED <<loading, primary, drv, html>>
  BY <1>1 DEF RewriteNested
<1>3. /\ c \in C /\ tasks \in Seq(TaskOf(C)) /\ Records /\ TypesOf(C)
      /\ N \subseteq C /\ IsFiniteSet(N) /\ c \notin N /\ (\A d \in N : ~Top(d) /\ ctx[d].parent = c)
      /\ \A p \in C : p # c => Children(p) \cap N = {}
  BY <1>1, ChildrenOf DEF Typed, Types, TypesOf, FlushInv
<1>4. /\ \A d \in C : /\ ctx'[d].repeated = ctx[d].repeated /\ ctx'[d].successors = ctx[d].successors
                      /\ ctx'[d].preds = ctx[d].preds /\ ctx'[d].fetches = ctx[d].fetches
                      /\ ctx'[d].waits = ctx[d].waits /\ ctx'[d].next = ctx[d].next
                      /\ ctx'[d].revalidate = ctx[d].revalidate
                      /\ d \notin N => ctx'[d].state = ctx[d].state
                      /\ d \in N => ctx'[d].state = "built"
                      /\ d # c => ctx'[d].nested = ctx[d].nested
      /\ ctx'[c].nested = Cardinality(N)
      /\ budget'.loads = budget.loads /\ budget'.waiting = budget.waiting
  <2> DEFINE room == Min({Cardinality(N), MaxContexts - budget.contexts})
             place(d) == IF Cardinality({e \in N : e <= d}) <= room THEN "taken" ELSE "refused"
             m == Cardinality(N)
  <2>1. ctx' = [d \in C |->
                  IF d \in N THEN [ctx[d] EXCEPT !.state = "built", !.place = place(d)]
                  ELSE IF d = c THEN [ctx[d] EXCEPT !.nested = m]
                  ELSE ctx[d]]
        /\ budget' = [budget EXCEPT !.contexts = @ + room]
    BY <1>1 DEF RewriteNested
  <2> HIDE DEF room, place, m
  <2>2. \A d \in C : DOMAIN ctx[d] = CtxFields
    BY <1>1, <1>3 DEF Records
  <2>3. ASSUME NEW d \in C
        PROVE  /\ ctx'[d].repeated = ctx[d].repeated /\ ctx'[d].successors = ctx[d].successors
               /\ ctx'[d].preds = ctx[d].preds /\ ctx'[d].fetches = ctx[d].fetches
               /\ ctx'[d].waits = ctx[d].waits /\ ctx'[d].next = ctx[d].next
               /\ ctx'[d].revalidate = ctx[d].revalidate
               /\ d \notin N => ctx'[d].state = ctx[d].state
               /\ d \in N => ctx'[d].state = "built"
               /\ d # c => ctx'[d].nested = ctx[d].nested
    <3>1. CASE d \in N
      <4>1. ctx'[d] = [ctx[d] EXCEPT !.state = "built", !.place = place(d)]
        BY <2>1, <3>1
      <4>2. QED
        BY <2>2, <3>1, <4>1 DEF CtxFields
    <3>2. CASE d \notin N /\ d = c
      <4>1. ctx'[d] = [ctx[d] EXCEPT !.nested = m]
        BY <2>1, <3>2
      <4>2. QED
        BY <2>2, <3>2, <4>1 DEF CtxFields
    <3>3. CASE d \notin N /\ d # c
      <4>1. ctx'[d] = ctx[d]
        BY <2>1, <3>3
      <4>2. QED
        BY <3>3, <4>1
    <3>4. QED
      BY <3>1, <3>2, <3>3
  <2>4. ctx'[c].nested = m
    <3>1. ctx'[c] = [ctx[c] EXCEPT !.nested = m]
      BY <1>3, <2>1
    <3>2. QED
      BY <1>3, <2>2, <3>1 DEF CtxFields
  <2>5. budget'.loads = budget.loads /\ budget'.waiting = budget.waiting
    BY <1>3, <2>1 DEF TypesOf, BudgetOf
  <2>6. QED
    BY <2>3, <2>4, <2>5 DEF m
<1>5. Cardinality(N) \in Nat /\ Cardinality(N) > 0
  <2>1. Cardinality(N) \in Nat /\ Cardinality(N) # 0
    BY <1>2, <1>3, FS_CardinalityType, FS_EmptySet
  <2>2. QED
    BY <2>1
<1>6. Awaits(c, "rewrite")
  BY <1>2, Awaiting DEF Core
<1>7. /\ ctx[c].state = "started" /\ Num(tasks, {c}, ControlOps) = 0 /\ ~Repeating(c)
      /\ \A j \in {"lookup", "lock", "rewrite"} : <<j, c>> \in asked <=> j = "rewrite"
      /\ ~(ctx[c].fetches > 0 \/ ctx[c].waits) /\ ~(ctx[c].nested > 0)
  BY <1>6 DEF Awaits, Holds
<1>8. \A d \in N : ctx[d].state = "unborn"
  <2>1. Num(tasks, {c}, LastOps) = 0
    BY <1>3, <1>7, NumNone, KindsApart, Kinds
  <2>2. (\A d \in N : ctx[d].state = "unborn")
          \/ (ctx[c].state = "started" => ctx[c].nested > 0 \/ Num(tasks, {c}, LastOps) > 0)
    BY <1>1 DEF Core, NestedInv
  <2>3. ~(Num(tasks, {c}, LastOps) > 0)
    BY <2>1
  <2>4. QED
    BY <1>7, <2>2, <2>3
<1>9. \A d \in N : Still(d, {}) /\ Num(tasks, {d}, ControlOps) = 0
  <2>1. \A d \in N : Still(d, {})
    BY <1>1, <1>3, <1>8 DEF Core, OneContinuation, Continuation
  <2>2. QED
    BY <2>1 DEF Still, Holds
<1>10. Now(c, "StartNestedTasksImpl") /\ (\A d \in C \ {c} : SameTasks(d)) /\ SameLoads
  BY <1>1, <1>2, <1>3, <1>7, TaskAdded, OpsArgs, Controls
<1>11. (\A d \in C \ {c} : SameAsked(d)) /\ \A j : <<j, c>> \in asked' <=> <<j, c>> \in asked /\ j # "rewrite"
  BY <1>1, <1>2, AskedChange
<1>12. Contexts' = C /\ \A d : Repeating(d)' <=> Repeating(d)
  <2>1. \A p \in C : \/ ctx'[p].state = "started" <=> ctx[p].state = "started"
                     \/ ctx[p].repeated = <<>>
    BY <1>4, <1>8
  <2>2. \A p \in C : ctx'[p].repeated = ctx[p].repeated
    BY <1>4
  <2>3. QED
    BY <1>1, <2>1, <2>2, LinksKept, RepeatingKept
<1>13. OneContinuation'
  <2>1. ASSUME NEW d \in C, d # c, d \notin N PROVE Continuation(d)'
    <3>1. /\ ctx'[d].state = ctx[d].state /\ SameLoad(d) /\ ctx'[d].nested = ctx[d].nested
          /\ SameTasks(d) /\ SameAsked(d) /\ Continuation(d)
      BY <1>1, <1>4, <1>10, <1>11, <2>1 DEF SameLoad, Core, OneContinuation
    <3>2. QED
      BY <1>1, <1>12, <3>1, ContinuationKept
  <2>2. ASSUME NEW d \in N PROVE Continuation(d)'
    <3>1. d \in C /\ d # c /\ Still(d, {}) /\ SameTasks(d) /\ SameAsked(d)
      BY <1>3, <1>9, <1>10, <1>11
    <3>2. Now(d, "none")
      <4>1. ASSUME NEW K \in ControlKinds PROVE Num(tasks', {d}, K) = IF "none" \in K THEN 1 ELSE 0
        <5>1. Num(tasks, {d}, K) = 0 /\ "none" \notin K
          <6>1. Num(tasks, {d}, ControlOps) = 0 /\ "none" \notin ControlOps
            BY <1>9 DEF ControlOps, Ops
          <6>2. QED
            BY <1>3, <6>1, NumNone, KindsApart
        <5>2. QED
          BY <3>1, <5>1 DEF SameTasks
      <4>2. QED
        BY <4>1 DEF Now
    <3>3. Became(d, {})
      BY <1>4, <1>12, <3>1 DEF Still, Holds, Became, SameAsked
    <3>4. ctx'[d].state = "built"
      BY <1>3, <1>4
    <3>5. QED
      BY <3>2, <3>3, <3>4, Continued
  <2>3. Continuation(c)'
    <3>1. Became(c, {"nests"})
      <4>1. \A j \in {"lookup", "lock", "rewrite"} : <<j, c>> \notin asked'
        BY <1>7, <1>11
      <4>2. ~(ctx'[c].fetches > 0 \/ ctx'[c].waits) /\ ctx'[c].nested > 0
        BY <1>3, <1>4, <1>5, <1>7
      <4>3. ~Repeating(c)'
        BY <1>7, <1>12
      <4>4. QED
        BY <4>1, <4>2, <4>3 DEF Became
    <3>2. ctx'[c].state = "started" /\ "StartNestedTasksImpl" \in NestedOps
      BY <1>3, <1>4, <1>7 DEF NestedOps
    <3>3. QED
      BY <1>10, <3>1, <3>2, Continued
  <2>4. QED
    BY <1>12, <2>1, <2>2, <2>3 DEF OneContinuation
<1>14. LoadsInv'
  <2>1. \A d \in C : /\ SameLoad(d) /\ ctx'[d].next = ctx[d].next /\ ctx'[d].revalidate = ctx[d].revalidate
    BY <1>4 DEF SameLoad
  <2>2. QED
    BY <1>1, <1>2, <1>4, <1>10, <2>1, LoadsKept DEF Core
<1>15. SameChains
  BY <1>1, <1>4 DEF SameChains, Waiting
<1>16. LinksInv'
  <2>1. \A d \in C : Num(tasks', {d}, {"Start"}) = Num(tasks, {d}, {"Start"})
    <3>1. Num(tasks', {c}, {"Start"}) = 0 /\ Num(tasks, {c}, {"Start"}) = 0
      <4>1. Num(tasks', {c}, {"Start"}) = 0
        BY <1>10, Kinds DEF Now
      <4>2. Num(tasks, {c}, {"Start"}) = 0
        BY <1>3, <1>7, NumNone, KindsApart, Kinds
      <4>3. QED
        BY <4>1, <4>2
    <3>2. QED
      BY <1>10, <3>1, Kinds DEF SameTasks
  <2>2. \A d \in C :
          ctx'[d].state \in {"started", "done", "retired"} \/ Num(tasks', {d}, {"Start"}) > 0 =>
            OpenLinks(d) = {}
    BY <1>1, <1>4, <2>1 DEF Core, LinksInv
  <2>3. QED
    BY <1>1, <1>15, <2>2, ChainsKept DEF Core
<1>17. NestedInv'
  <2>1. ASSUME NEW p \in C, p # c PROVE NestedAfter(p)
    <3>1. \A d \in Children(p) : d \notin N /\ d \in C
      BY <1>1, <1>3, <2>1 DEF Children
    <3>2. \A d \in Children(p) : ctx'[d].state = ctx[d].state
      BY <1>4, <3>1
    <3>3. {d \in Children(p) : ctx'[d].state \in Live} = {d \in Children(p) : ctx[d].state \in Live}
      BY <3>2
    <3>4. /\ ctx[p].nested = Cardinality({d \in Children(p) : ctx[d].state \in Live})
          /\ (\A d \in Children(p) : ctx[d].state = "unborn")
               \/ /\ \A d \in Children(p) : ctx[d].state # "unborn"
                  /\ ctx[p].state \notin {"unborn", "built"}
                  /\ ctx[p].state = "started" => ctx[p].nested > 0 \/ Num(tasks, {p}, LastOps) > 0
          /\ \A d \in Children(p) : ctx[d].state = "deleted" => ctx[p].state = "deleted"
          /\ ctx[p].state = "deleted" => \A d \in Children(p) : ctx[d].state \in {"unborn", "deleted"}
          /\ Num(tasks, {p}, NestedOps) > 0 =>
               \A d \in Children(p) : ctx[d].state = "built" /\ Num(tasks, {d}, ControlOps) = 0
      BY <1>1 DEF Core, NestedInv
    <3>5. /\ ctx'[p].nested = ctx[p].nested
          /\ Num(tasks', {p}, LastOps) = Num(tasks, {p}, LastOps)
          /\ Num(tasks', {p}, NestedOps) = Num(tasks, {p}, NestedOps)
      BY <1>4, <1>10, <2>1, Kinds DEF SameTasks
    <3>6. ASSUME Num(tasks', {p}, NestedOps) > 0, NEW d \in Children(p)
          PROVE  ctx'[d].state = "built" /\ Num(tasks', {d}, ControlOps) = 0
      <4>1. ctx[d].state = "built" /\ Num(tasks, {d}, ControlOps) = 0
        BY <3>4, <3>5, <3>6
      <4>2. d # c
        BY <1>7, <4>1
      <4>3. QED
        BY <1>10, <3>1, <3>2, <4>1, <4>2, Kinds DEF SameTasks
    <3>7. CASE p \in N
      <4>1. ctx[p].state = "unborn" /\ ctx'[p].state = "built"
        BY <1>4, <1>8, <3>7
      <4>2. \A d \in Children(p) : ctx[d].state = "unborn"
        BY <3>4, <4>1
      <4>3. QED
        BY <3>2, <3>3, <3>4, <3>5, <3>6, <4>1, <4>2 DEF NestedAfter
    <3>8. CASE p \notin N
      <4>1. ctx'[p].state = ctx[p].state
        BY <1>4, <3>8
      <4>2. QED
        BY <3>2, <3>3, <3>4, <3>5, <3>6, <4>1 DEF NestedAfter
    <3>9. QED
      BY <3>7, <3>8
  <2>2. NestedAfter(c)
    <3>1. \A d \in N : ctx'[d].state = "built" /\ Num(tasks', {d}, ControlOps) = 0
      BY <1>3, <1>4, <1>9, <1>10, Kinds DEF SameTasks
    <3>2. {d \in N : ctx'[d].state \in Live} = N
      BY <3>1 DEF Live
    <3>3. ctx'[c].nested = Cardinality(N) /\ ctx'[c].nested > 0 /\ ctx'[c].state = "started"
      BY <1>3, <1>4, <1>5, <1>7
    <3>4. QED
      BY <1>1, <3>1, <3>2, <3>3 DEF NestedAfter
  <2>3. QED
    BY <1>1, <2>1, <2>2, NestedFrom
<1>18. WindowsInv'
  <2>1. \A d \in C : (Top(d)' <=> Top(d)) /\ OpenLinks(d)' = OpenLinks(d) /\ ctx'[d].window = ctx[d].window
    BY <1>1, <1>15, LinksKept, OpenLinksKept DEF SameChains, Frame, Keeps, Contexts
  <2>2. drv.rewrites \subseteq C
    BY <1>1 DEF Typed, FlushInv, WindowInv
  <2>3. \A d \in drv.rewrites : Top(d) /\ ctx[d].state = "built" /\ Num(tasks, {d}, ControlOps) = 0
    BY DEF Core, WindowsInv
  <2>4. \A d \in drv.rewrites : d # c /\ d \notin N
    BY <1>3, <1>7, <2>3
  <2>5. \A d \in drv.rewrites : ctx'[d].state = "built" /\ Num(tasks', {d}, ControlOps) = 0
    BY <1>4, <1>10, <2>2, <2>3, <2>4, Kinds DEF SameTasks
  <2>6. drv.canRewrite
    <3>1. drv.canRewrite \in BOOLEAN
      BY <1>3 DEF TypesOf
    <3>2. QED
      BY <1>7, <3>1 DEF Core, WindowsInv
  <2>7. \A d \in C : Top(d) => ctx'[d].state = ctx[d].state
    BY <1>3, <1>4
  <2>8. ASSUME NEW d \in C, Top(d)
        PROVE  /\ ctx[d].state = "unborn" =>
                    ctx[d].window > html.window \/ (ctx[d].window = html.window /\ html.pc = "parsing")
               /\ ctx[d].state # "unborn" =>
                    /\ ctx[d].window <= html.window
                    /\ drv.canRewrite /\ ctx[d].window = html.window /\ html.pc = "parsing"
                         => d \in drv.rewrites
               /\ ctx[d].state = "deleted" /\ drv.canRewrite => OpenLinks(d) = {}
    BY <1>1, <2>8 DEF Core, WindowsInv
  <2>9. ASSUME NEW d \in C, Top(d)'
        PROVE  /\ ctx'[d].state = "unborn" =>
                    ctx'[d].window > html'.window \/ (ctx'[d].window = html'.window /\ html'.pc = "parsing")
               /\ ctx'[d].state # "unborn" =>
                    /\ ctx'[d].window <= html'.window
                    /\ drv'.canRewrite /\ ctx'[d].window = html'.window /\ html'.pc = "parsing"
                         => d \in drv'.rewrites
               /\ ctx'[d].state = "deleted" /\ drv'.canRewrite => OpenLinks(d)' = {}
    <3>1. Top(d) /\ ctx'[d].state = ctx[d].state /\ ctx'[d].window = ctx[d].window /\ OpenLinks(d)' = OpenLinks(d)
      BY <2>1, <2>7, <2>9
    <3>2. drv' = drv /\ html' = html
      BY <1>2
    <3>3. QED
      BY <2>8, <3>1, <3>2
  <2>10. \A d \in drv'.rewrites : Top(d)' /\ ctx'[d].state = "built" /\ Num(tasks', {d}, ControlOps) = 0
    BY <1>2, <2>1, <2>2, <2>3, <2>5
  <2>11. drv'.canRewrite
    BY <1>2, <2>6
  <2>12. QED
    BY <1>12, <2>9, <2>10, <2>11 DEF WindowsInv
<1>19. PrimaryInv'
  <2>1. \A d \in C :
          /\ ctx'[d].repeated = ctx[d].repeated
          /\ ctx'[d].state \in {"unborn", "built"} => ctx[d].state \in {"unborn", "built"}
          /\ ctx[d].state \in {"started", "done"} => ctx'[d].state \in {"started", "done"}
          /\ ctx'[d].state = "started" => ctx[d].state \in {"started", "built"}
    BY <1>4, <1>8
  <2>2. QED
    BY <1>1, <1>2, <2>1, PrimaryKept DEF Core
<1>20. EndsFirst'
  <2>5. PICK o, a : o = "StartNestedTasksImpl" /\ a = ""
    OBVIOUS
  <2>6. o \in Ops /\ a \in Args
    BY <2>5, OpsArgs
  <2> DEFINE x == Task(o, c, a)
             s == <<x>>
  <2>1. x \in TaskOf(C) /\ x.op = o
    BY <1>3, <2>6, TaskIn
  <2>7. tasks' = Append(tasks, x)
    BY <1>2, <2>5 DEF AddRewriteTask
  <2> HIDE DEF x
  <2>2. s \in Seq(TaskOf(C)) /\ tasks' = tasks \o s
    BY <1>3, <2>1, <2>7
  <2>3. NoEnds(s)
    BY <2>1, <2>5, NoEndsOne DEF EndingOps, RepeatedOps
  <2> HIDE DEF s
  <2>4. QED
    BY <1>1, <1>2, <1>3, <2>2, <2>3, EndsAppended DEF Core
<1>21. QED
  BY <1>13, <1>14, <1>16, <1>17, <1>18, <1>19, <1>20 DEF Core

---------------------------------------------------------------------------
(* The end of a rewrite, told to those that repeat it.                      *)

Told(T, R, o) ==
  /\ DOMAIN T = DOMAIN R
  /\ \A i \in DOMAIN T : T[i].op = o /\ T[i].c = R[i]
  /\ \A d, K : Num(T, {d}, K) = IF d \in Elems(R) /\ o \in K THEN 1 ELSE 0

LEMMA ToldNum ==
  ASSUME NEW C, NEW R \in Seq(C), Distinct(R), NEW o \in Ops, NEW T,
         T = [i \in DOMAIN R |-> Task(o, R[i], "")]
  PROVE  T \in Seq(TaskOf(C)) /\ Told(T, R, o)
<1>1. Len(R) \in Nat /\ DOMAIN R = 1..Len(R) /\ \A i \in DOMAIN R : R[i] \in C
  BY ElementOfSeq, LenProperties
<1>2. \A c \in C : Task(o, c, "") \in TaskOf(C) /\ Task(o, c, "").op = o /\ Task(o, c, "").c = c
  <2>1. PICK a : a = ""
    OBVIOUS
  <2>2. a \in Args
    BY <2>1, OpsArgs
  <2>3. \A c \in C : Task(o, c, a) \in TaskOf(C) /\ Task(o, c, a).op = o /\ Task(o, c, a).c = c
    <3>1. ASSUME NEW c \in C PROVE Task(o, c, a) \in TaskOf(C) /\ Task(o, c, a).op = o /\ Task(o, c, a).c = c
      BY <2>2 DEF Task, TaskOf
    <3>2. QED
      BY <3>1
  <2>4. QED
    BY <2>1, <2>3
<1>3. /\ DOMAIN T = DOMAIN R
      /\ \A i \in DOMAIN T : T[i].op = o /\ T[i].c = R[i] /\ T[i] \in TaskOf(C)
  BY <1>1, <1>2
<1>4. T \in Seq(TaskOf(C))
  <2>1. T \in [1..Len(R) -> TaskOf(C)]
    BY <1>1, <1>3
  <2>2. T \in UNION {[1..m -> TaskOf(C)] : m \in Nat}
    BY <1>1, <2>1
  <2>3. QED
    BY <2>2, SeqDef
<1>5. ASSUME NEW d, NEW K PROVE Num(T, {d}, K) = IF d \in Elems(R) /\ o \in K THEN 1 ELSE 0
  <2>1. CASE d \in Elems(R) /\ o \in K
    <3>1. PICK i \in DOMAIN R : R[i] = d
      BY <2>1 DEF Elems
    <3>2. {j \in DOMAIN T : T[j].c \in {d} /\ T[j].op \in K} = {i}
      BY <1>3, <2>1, <3>1 DEF Distinct
    <3>3. QED
      BY <2>1, <3>2, FS_Singleton DEF Num
  <2>2. CASE ~(d \in Elems(R) /\ o \in K)
    <3>1. {j \in DOMAIN T : T[j].c \in {d} /\ T[j].op \in K} = {}
      BY <1>3, <2>2 DEF Elems
    <3>2. QED
      BY <2>2, <3>1, FS_EmptySet DEF Num
  <2>3. QED
    BY <2>1, <2>2
<1>6. QED
  BY <1>3, <1>4, <1>5 DEF Told

\* Ends in front of tasks that are no ends.
LEMMA EndsTold ==
  ASSUME NEW C, NEW T \in Seq(TaskOf(C)), NEW x \in TaskOf(C), NEW r \in Seq(TaskOf(C)), NoEnds(r),
         tasks' = (T \o <<x>>) \o r, x.op = "Retire",
         \A i \in DOMAIN T : T[i].op \in RepeatedOps /\ primary'[ctx'[T[i].c].key] = x.c
  PROVE  EndsFirst'
<1> DEFINE n == Len(T)
           u == T \o <<x>>
<1>1. /\ n \in Nat /\ DOMAIN T = 1..n /\ u \in Seq(TaskOf(C)) /\ DOMAIN u = 1..(n + 1) /\ u[n + 1] = x
      /\ Len(u) = n + 1 /\ \A i \in 1..n : u[i] = T[i]
  OBVIOUS
<1>2. tasks' = u \o r
  OBVIOUS
<1> HIDE DEF n, u
<1>3. /\ Len(r) \in Nat /\ DOMAIN r = 1..Len(r) /\ DOMAIN tasks' = 1..((n + 1) + Len(r))
      /\ \A i \in 1..((n + 1) + Len(r)) : tasks'[i] = IF i <= n + 1 THEN u[i] ELSE r[i - (n + 1)]
  <2>1. Len(r) \in Nat /\ DOMAIN r = 1..Len(r)
    BY LenProperties
  <2>2. /\ Len(u \o r) = Len(u) + Len(r) /\ DOMAIN (u \o r) = 1..(Len(u) + Len(r))
        /\ \A i \in 1..(Len(u) + Len(r)) : (u \o r)[i] = IF i <= Len(u) THEN u[i] ELSE r[i - Len(u)]
    <3> DEFINE w == u \o r
    <3>1. /\ w \in Seq(TaskOf(C)) /\ Len(w) = Len(u) + Len(r)
          /\ \A i \in 1..(Len(u) + Len(r)) : w[i] = IF i <= Len(u) THEN u[i] ELSE r[i - Len(u)]
      BY <1>1, ConcatProperties
    <3> HIDE DEF w
    <3>2. DOMAIN w = 1..Len(w)
      BY <3>1, LenProperties
    <3>3. QED
      BY <3>1, <3>2 DEF w
  <2>3. QED
    BY <1>1, <1>2, <2>1, <2>2
<1>4. ASSUME NEW i \in DOMAIN tasks', tasks'[i].op \in EndingOps PROVE i <= n + 1
  <2>1. SUFFICES ASSUME ~(i <= n + 1) PROVE FALSE
    OBVIOUS
  <2>2. i - (n + 1) \in DOMAIN r
    BY <1>1, <1>3, <2>1
  <2>3. QED
    BY <1>3, <1>4, <2>1, <2>2 DEF NoEnds
<1>5. \A i \in 1..n : i \in DOMAIN tasks' /\ tasks'[i] = T[i]
  BY <1>1, <1>3
<1>6. n + 1 \in DOMAIN tasks' /\ tasks'[n + 1] = x
  BY <1>1, <1>3
<1>7. "Retire" \notin RepeatedOps /\ RepeatedOps \subseteq EndingOps
  BY DEF RepeatedOps, EndingOps
<1>8. ASSUME NEW i \in DOMAIN tasks', NEW j \in DOMAIN tasks', i < j, tasks'[j].op \in EndingOps
      PROVE  tasks'[i].op \in EndingOps
  <2>1. i \in 1..n
    BY <1>1, <1>3, <1>4, <1>8
  <2>2. QED
    BY <1>1, <1>5, <1>7, <2>1
<1>9. ASSUME NEW i \in DOMAIN tasks', tasks'[i].op \in RepeatedOps
      PROVE  \E j \in DOMAIN tasks' : /\ i < j /\ tasks'[j].op = "Retire"
                                      /\ tasks'[j].c = primary'[ctx'[tasks'[i].c].key]
  <2>1. i <= n + 1 /\ i # n + 1
    BY <1>4, <1>6, <1>7, <1>9
  <2>2. i \in 1..n /\ i < n + 1
    BY <1>1, <1>3, <2>1
  <2>3. QED
    BY <1>1, <1>5, <1>6, <2>2, ZenonT(30)
<1>10. QED
  BY <1>8, <1>9 DEF EndsFirst

LEMMA FinalizeKeeps ==
  ASSUME Typed, Typed', Frame, Core, RewriteSequence, Finalize
  PROVE  Core'
<1>1. PICK C, c, r, R, o, T, x :
        /\ C = Contexts /\ c = Running /\ r = Tail(tasks) /\ R = ctx[c].repeated
        /\ o = IF ctx[c].partitions THEN "RepeatedSuccess" ELSE "RepeatedFailure"
        /\ T = [i \in DOMAIN R |-> Task(o, R[i], "")] /\ x = Task("Retire", c, "kRender")
  OBVIOUS
<1>2. tasks # <<>> /\ Head(tasks).op = "Finalize"
  BY DEF Finalize, AtHead
<1>3. ctx' = [ctx EXCEPT ![c].state = "done", ![c].lock = FALSE]
  BY <1>1 DEF Finalize
<1>4. tasks' = (T \o <<x>>) \o r
  BY <1>1 DEF Finalize
<1>5. UNCHANGED <<asked, loading, primary, budget, drv, html>>
  BY DEF Finalize
<1>6. /\ c \in C /\ Runs(c, "Finalize") /\ Records /\ TypesOf(C)
      /\ tasks \in Seq(TaskOf(C)) /\ r \in Seq(TaskOf(C))
  BY <1>1, <1>2, HeadRuns, HeadType, Controls DEF Core, Typed, FlushInv, Types, TypesOf
<1>7. o \in RepeatedOps /\ o \in Ops /\ o \in StartedOps /\ o \in ControlOps
      /\ o \notin LastOps /\ o \notin NestedOps /\ o # "Start" /\ o # "none"
  BY <1>1, Controls, OpsArgs DEF RepeatedOps, LastOps, NestedOps
<1>8. R \in Seq(C) /\ Distinct(R) /\ Elems(R) = Repeats(c) /\ Elems(R) \subseteq C
  <2>1. R \in Seq(C) /\ Repeats(c) \subseteq C
    BY <1>1, <1>6, RepeatsIn
  <2>2. Elems(R) = Repeats(c)
    BY <1>1 DEF Elems, Repeats
  <2>3. Distinct(R)
    BY <1>1, <1>6 DEF Core, PrimaryInv, Distinct
  <2>4. QED
    BY <2>1, <2>2, <2>3
<1>9. T \in Seq(TaskOf(C)) /\ Told(T, R, o)
  BY <1>1, <1>7, <1>8, ToldNum
<1>10. x \in TaskOf(C) /\ x.op = "Retire" /\ x.c = c
  <2>1. PICK p, a : p = "Retire" /\ a = "kRender"
    OBVIOUS
  <2>2. p \in Ops /\ a \in Args
    BY <2>1, OpsArgs
  <2>3. Task(p, c, a) \in TaskOf(C) /\ Task(p, c, a).op = p /\ Task(p, c, a).c = c
    BY <1>6, <2>2, TaskIn
  <2>4. QED
    BY <1>1, <2>1, <2>3
<1>11. ASSUME NEW D, NEW K
       PROVE  /\ Num(tasks', D, K) = Num(T, D, K) + (IF c \in D /\ "Retire" \in K THEN 1 ELSE 0) + Num(r, D, K)
              /\ Num(tasks, D, K) = (IF c \in D /\ "Finalize" \in K THEN 1 ELSE 0) + Num(r, D, K)
              /\ Num(r, D, K) \in Nat /\ Num(T, D, K) \in Nat /\ Num(tasks, D, K) \in Nat
  <2> DEFINE s == <<x>>
             u == T \o s
  <2>1. s \in Seq(TaskOf(C)) /\ u \in Seq(TaskOf(C)) /\ tasks' = u \o r
    BY <1>4, <1>9, <1>10, ConcatProperties
  <2>2. Num(s, D, K) = IF c \in D /\ "Retire" \in K THEN 1 ELSE 0
    BY <1>10, NumOne
  <2> HIDE DEF s
  <2>3. Num(u, D, K) = Num(T, D, K) + Num(s, D, K)
    BY <1>9, <2>1, NumConcat
  <2> HIDE DEF u
  <2>4. Num(tasks', D, K) = Num(u, D, K) + Num(r, D, K)
    BY <1>6, <2>1, NumConcat
  <2>5. Num(r, D, K) \in Nat /\ Num(T, D, K) \in Nat /\ Num(tasks, D, K) \in Nat
    BY <1>6, <1>9, NumPlaces
  <2>6. Num(tasks, D, K) = (IF c \in D /\ "Finalize" \in K THEN 1 ELSE 0) + Num(r, D, K)
    <3>1. Num(tasks, D, K) = (IF Running \in D /\ Head(tasks).op \in K THEN 1 ELSE 0) + Num(Tail(tasks), D, K)
      BY <1>2, <1>6, TaskNums
    <3>2. QED
      BY <1>1, <1>2, <3>1
  <2>7. QED
    BY <2>2, <2>3, <2>4, <2>5, <2>6
<1>12. /\ ctx[c].state = "started" /\ ctx[c].nested = 0 /\ ~Repeating(c) /\ ctx[c].fetches = 0 /\ ~ctx[c].waits
       /\ \A k \in {"lookup", "lock", "rewrite"} : <<k, c>> \notin asked
       /\ \A K \in ControlKinds : Num(r, {c}, K) = 0
       /\ Num(tasks, {c}, ControlOps) = 1
  BY <1>1, <1>6, Controls DEF Runs
<1>13. ASSUME NEW d \in Elems(R)
       PROVE  /\ d \in C /\ d # c /\ ctx[d].state = "started" /\ Holds(d, {}, {"repeats"})
              /\ Num(tasks, {d}, ControlOps) = 0 /\ ctx[d].key = ctx[c].key
              /\ primary[ctx[c].key] = c
  <2>1. d \in C /\ Repeating(d)
    BY <1>1, <1>6, <1>8, <1>12 DEF Repeating
  <2>2. Awaits(d, "repeats")
    BY <1>1, <2>1, Awaiting DEF Core
  <2>3. Num(tasks, {d}, ControlOps) = 0
    BY <2>2 DEF Awaits, Holds
  <2>4. d # c
    BY <1>12, <2>3
  <2>5. ctx[d].key = ctx[c].key
    BY <1>1, <1>6, <1>8 DEF Core, PrimaryInv
  <2>6. R # <<>>
    BY DEF Elems
  <2>7. primary[ctx[c].key] = c
    BY <1>1, <1>6, <1>12, <2>6 DEF Core, PrimaryInv
  <2>8. QED
    BY <2>1, <2>2, <2>3, <2>4, <2>5, <2>7 DEF Awaits
<1>14. /\ \A d \in C : /\ ctx'[d].repeated = ctx[d].repeated /\ ctx'[d].successors = ctx[d].successors
                       /\ ctx'[d].preds = ctx[d].preds /\ ctx'[d].nested = ctx[d].nested
                       /\ SameLoad(d) /\ ctx'[d].next = ctx[d].next
                       /\ ctx'[d].revalidate = ctx[d].revalidate
                       /\ d # c => ctx'[d].state = ctx[d].state
       /\ ctx'[c].state = "done"
  BY <1>1, <1>3, <1>6 DEF Records, CtxFields, Contexts, SameLoad
<1>15. Contexts' = C /\ \A d \in C : Repeats(d)' = Repeats(d)
  BY <1>1, <1>14, LinksKept DEF Repeats
<1>16. /\ \A d \in Elems(R) : ~Repeating(d)'
       /\ \A d \in C : d \notin Elems(R) => (Repeating(d)' <=> Repeating(d))
  <2>1. ASSUME NEW d \in Elems(R), NEW p \in C, ctx'[p].state = "started", d \in Repeats(p) PROVE FALSE
    <3>1. p # c /\ ctx[p].state = "started"
      BY <1>14, <2>1
    <3>2. ctx[p].repeated # <<>> /\ ctx[d].key = ctx[p].key
      <4>1. ctx[p].repeated # <<>>
        BY <2>1 DEF Repeats
      <4>2. \A e \in Repeats(p) : ctx[e].key = ctx[p].key
        BY <1>1 DEF Core, PrimaryInv
      <4>3. QED
        BY <2>1, <4>1, <4>2
    <3>3. primary[ctx[p].key] = p
      BY <1>1, <3>1, <3>2 DEF Core, PrimaryInv
    <3>4. QED
      BY <1>13, <3>1, <3>2, <3>3
  <2>2. ASSUME NEW d \in C, d \notin Elems(R) PROVE Repeating(d)' <=> Repeating(d)
    <3>1. \A p \in C : d \in Repeats(p) => ctx'[p].state = ctx[p].state
      BY <1>6, <1>8, <1>14, <2>2
    <3>2. Repeating(d)' <=> \E p \in C : ctx'[p].state = "started" /\ d \in Repeats(p)
      BY <1>15 DEF Repeating
    <3>3. Repeating(d) <=> \E p \in C : ctx[p].state = "started" /\ d \in Repeats(p)
      BY <1>1 DEF Repeating
    <3>4. QED
      BY <3>1, <3>2, <3>3
  <2>3. QED
    BY <1>15, <2>1, <2>2 DEF Repeating
<1>17. ASSUME NEW d \in C, d # c, d \notin Elems(R), NEW K PROVE Num(tasks', {d}, K) = Num(tasks, {d}, K)
  <2>1. Num(T, {d}, K) = 0
    BY <1>9, <1>17 DEF Told
  <2>2. /\ Num(tasks', {d}, K) = Num(T, {d}, K) + 0 + Num(r, {d}, K)
        /\ Num(tasks, {d}, K) = 0 + Num(r, {d}, K) /\ Num(r, {d}, K) \in Nat
    BY <1>11, <1>17
  <2>3. QED
    BY <2>1, <2>2
<1>18. ASSUME NEW d \in Elems(R), NEW K \in ControlKinds
       PROVE  Num(tasks, {d}, K) = 0 /\ Num(tasks', {d}, K) = IF o \in K THEN 1 ELSE 0
  <2>1. Num(tasks, {d}, K) = 0
    BY <1>6, <1>13, NumNone, KindsApart
  <2>2. /\ Num(tasks', {d}, K) = Num(T, {d}, K) + 0 + Num(r, {d}, K)
        /\ Num(tasks, {d}, K) = 0 + Num(r, {d}, K) /\ Num(r, {d}, K) \in Nat
    BY <1>11, <1>13
  <2>3. Num(T, {d}, K) = IF o \in K THEN 1 ELSE 0
    BY <1>9 DEF Told
  <2>4. QED
    BY <2>1, <2>2, <2>3
<1>19. ASSUME NEW K \in ControlKinds
       PROVE  /\ Num(tasks', {c}, K) = IF "Retire" \in K THEN 1 ELSE 0
              /\ Num(tasks, {c}, K) = IF "Finalize" \in K THEN 1 ELSE 0
  <2>1. c \notin Elems(R)
    BY <1>13
  <2>2. Num(T, {c}, K) = 0 /\ Num(r, {c}, K) = 0
    BY <1>9, <1>12, <2>1 DEF Told
  <2>3. /\ Num(tasks', {c}, K) = Num(T, {c}, K) + (IF "Retire" \in K THEN 1 ELSE 0) + Num(r, {c}, K)
        /\ Num(tasks, {c}, K) = (IF "Finalize" \in K THEN 1 ELSE 0) + Num(r, {c}, K)
    BY <1>11
  <2>4. QED
    BY <2>2, <2>3
<1>20. SameChains
  BY <1>1, <1>14 DEF SameChains, SameLoad, Waiting
<1>21. MovesOn(c)
  <2>1. ASSUME NEW d \in C \ {c}
        PROVE  /\ ctx'[d].state = ctx[d].state
               /\ \A K \in {{"Start"}, LastOps, NestedOps} : Num(tasks', {d}, K) = Num(tasks, {d}, K)
               /\ ctx[d].state # "started" => Num(tasks', {d}, ControlOps) = Num(tasks, {d}, ControlOps)
    <3>1. CASE d \in Elems(R)
      <4>1. \A K \in {{"Start"}, LastOps, NestedOps} : K \in ControlKinds /\ o \notin K
        BY <1>7, Kinds
      <4>2. QED
        BY <1>13, <1>14, <1>18, <2>1, <3>1, <4>1
    <3>2. CASE d \notin Elems(R)
      BY <1>14, <1>17, <2>1, <3>2
    <3>3. QED
      BY <3>1, <3>2
  <2>2. Num(tasks', {c}, {"Start"}) = 0 /\ Num(tasks', {c}, NestedOps) = 0
    BY <1>19, Kinds DEF NestedOps
  <2>3. \A d \in C : ctx'[d].nested = ctx[d].nested
    BY <1>14
  <2>4. QED
    BY <1>1, <1>5, <1>12, <1>14, <1>20, <2>1, <2>2, <2>3 DEF MovesOn
<1>22. OneContinuation'
  <2>1. \A d \in C : SameAsked(d)
    BY <1>5 DEF SameAsked
  <2>2. ASSUME NEW d \in C, d # c, d \notin Elems(R) PROVE Continuation(d)'
    <3>1. SameTasks(d) /\ Continuation(d)
      BY <1>1, <1>17, <2>2 DEF SameTasks, Core, OneContinuation
    <3>2. QED
      BY <1>1, <1>14, <1>16, <2>1, <2>2, <3>1, ContinuationKept
  <2>3. ASSUME NEW d \in Elems(R) PROVE Continuation(d)'
    <3>1. Now(d, o)
      BY <1>18 DEF Now
    <3>2. Became(d, {})
      <4>1. d \in C /\ Holds(d, {}, {"repeats"}) /\ ~Repeating(d)'
        BY <1>13, <1>16
      <4>2. QED
        BY <1>5, <1>14, <4>1 DEF Became, Holds, SameLoad
    <3>3. ctx'[d].state = "started"
      BY <1>13, <1>14
    <3>4. QED
      BY <1>7, <3>1, <3>2, <3>3, Continued
  <2>4. Continuation(c)'
    <3>1. Now(c, "Retire")
      BY <1>19 DEF Now
    <3>2. ~Repeating(c)'
      BY <1>6, <1>12, <1>13, <1>16
    <3>3. Became(c, {})
      BY <1>5, <1>6, <1>12, <1>14, <3>2 DEF Became, SameLoad
    <3>4. QED
      BY <1>14, <3>1, <3>3, Continued
  <2>5. QED
    BY <1>15, <2>2, <2>3, <2>4 DEF OneContinuation
<1>23. LoadsInv'
  <2>1. ASSUME NEW D, NEW K \in LoadKinds PROVE Num(tasks', D, K) = Num(tasks, D, K)
    <3>1. "Retire" \notin K /\ "Finalize" \notin K /\ o \notin K
      BY <1>7, KindsApart, Controls
    <3>2. Num(T, D, K) = 0
      <4>1. \A i \in DOMAIN T : ~(T[i].c \in D /\ T[i].op \in K)
        BY <1>9, <3>1 DEF Told
      <4>2. QED
        BY <1>9, <4>1, NumPlaces
    <3>3. /\ Num(tasks', D, K) = Num(T, D, K) + 0 + Num(r, D, K)
          /\ Num(tasks, D, K) = 0 + Num(r, D, K) /\ Num(r, D, K) \in Nat
      BY <1>11, <3>1
    <3>4. QED
      BY <3>2, <3>3
  <2>2. SameLoads
    BY <2>1, Kinds DEF SameLoads
  <2>3. QED
    BY <1>1, <1>5, <1>14, <2>2, LoadsKept DEF Core
<1>24. LinksInv' /\ NestedInv' /\ WindowsInv'
  BY <1>1, <1>6, <1>21, MoveLinks, MoveNested, MoveWindows DEF Core
<1>25. PrimaryInv'
  <2>1. \A d \in C :
          /\ ctx'[d].repeated = ctx[d].repeated
          /\ ctx'[d].state \in {"unborn", "built"} => ctx[d].state \in {"unborn", "built"}
          /\ ctx[d].state \in {"started", "done"} => ctx'[d].state \in {"started", "done"}
          /\ ctx'[d].state = "started" => ctx[d].state \in {"started", "built"}
    BY <1>12, <1>14
  <2>2. QED
    BY <1>1, <1>5, <2>1, PrimaryKept DEF Core
<1>26. EndsFirst'
  <2>1. NoEnds(r)
    BY <1>1, <1>2, <1>6, Controls, NoneEnds DEF Core
  <2>2. \A d \in C : ctx'[d].key = ctx[d].key
    BY <1>1 DEF Frame, Keeps, Contexts
  <2>3. \A i \in DOMAIN T : T[i].op \in RepeatedOps /\ primary'[ctx'[T[i].c].key] = x.c
    <3>1. ASSUME NEW i \in DOMAIN T PROVE T[i].op \in RepeatedOps /\ primary'[ctx'[T[i].c].key] = x.c
      <4>1. T[i].op = o /\ T[i].c = R[i] /\ R[i] \in Elems(R)
        BY <1>9 DEF Told, Elems
      <4>2. R[i] \in C /\ ctx[R[i]].key = ctx[c].key /\ primary[ctx[c].key] = c
        BY <1>13, <4>1
      <4>3. QED
        BY <1>5, <1>7, <1>10, <2>2, <4>1, <4>2
    <3>2. QED
      BY <3>1
  <2>4. QED
    BY <1>4, <1>6, <1>9, <1>10, <2>1, <2>3, EndsTold
<1>27. QED
  BY <1>22, <1>23, <1>24, <1>25, <1>26 DEF Core

---------------------------------------------------------------------------
(* Loads.                                                                   *)

Flight(C, g) == {a \in C \X (1..MaxLoads) : a[2] <= g[a[1]].fetches}

\* The loads in flight are those of c and those of the others.
LEMMA FlightParts ==
  ASSUME NEW C, IsFiniteSet(C), NEW c \in C, NEW g, g[c].fetches \in Nat, g[c].fetches <= MaxLoads
  PROVE  /\ Cardinality(Flight(C \ {c}, g)) \in Nat
         /\ Cardinality(Flight(C, g)) = Cardinality(Flight(C \ {c}, g)) + g[c].fetches
<1>1. PICK f : f = g[c].fetches
  OBVIOUS
<1>2. MaxLoads \in Nat /\ f \in Nat /\ f <= MaxLoads
  BY <1>1, LimitsAssumption
<1> DEFINE A == Flight(C \ {c}, g)
           B == {c} \X (1..f)
<1>3. IsFiniteSet(A)
  <2>1. IsFiniteSet(C \ {c}) /\ IsFiniteSet(1..MaxLoads)
    <3>1. 1 \in Int /\ MaxLoads \in Int
      BY <1>2
    <3>2. IsFiniteSet(1..MaxLoads)
      BY <3>1, FS_Interval
    <3>3. QED
      BY <3>2, FS_RemoveElement
  <2>2. IsFiniteSet((C \ {c}) \X (1..MaxLoads))
    BY <2>1, FS_Product
  <2>3. A \in SUBSET ((C \ {c}) \X (1..MaxLoads))
    BY DEF Flight
  <2>4. QED
    BY <2>2, <2>3, FS_Subset
<1>4. IsFiniteSet(B) /\ Cardinality(B) = f
  <2>1. IsFiniteSet({c}) /\ Cardinality({c}) = 1 /\ IsFiniteSet(1..f) /\ Cardinality(1..f) = f
    <3>1. 1 \in Int /\ f \in Int
      BY <1>2
    <3>2. IsFiniteSet(1..f) /\ Cardinality(1..f) = IF 1 > f THEN 0 ELSE f - 1 + 1
      BY <3>1, FS_Interval
    <3>3. Cardinality(1..f) = f
      BY <1>2, <3>2
    <3>4. QED
      BY <3>2, <3>3, FS_Singleton
  <2>2. Cardinality(B) = Cardinality({c}) * Cardinality(1..f) /\ IsFiniteSet(B)
    BY <2>1, FS_Product
  <2>3. QED
    BY <1>2, <2>1, <2>2
<1>5. Flight(C, g) = A \cup B
  <2>1. ASSUME NEW a \in Flight(C, g) PROVE a \in A \cup B
    <3>1. a \in C \X (1..MaxLoads) /\ a[2] <= g[a[1]].fetches
      BY <2>1 DEF Flight
    <3>2. PICK d \in C, i \in 1..MaxLoads : a = <<d, i>>
      BY <3>1
    <3>3. CASE d = c
      BY <1>1, <1>2, <3>1, <3>2, <3>3
    <3>4. CASE d # c
      BY <3>1, <3>2, <3>4 DEF Flight
    <3>5. QED
      BY <3>3, <3>4
  <2>2. ASSUME NEW a \in B PROVE a \in Flight(C, g)
    <3>1. PICK i \in 1..f : a = <<c, i>>
      BY <2>2
    <3>2. QED
      BY <1>1, <1>2, <3>1 DEF Flight
  <2>3. A \subseteq Flight(C, g)
    BY DEF Flight
  <2>4. QED
    BY <2>1, <2>2, <2>3
<1>6. A \cap B = {}
  <2>1. ASSUME NEW a \in A, a \in B PROVE FALSE
    <3>1. a[1] \in C \ {c}
      BY DEF Flight
    <3>2. a[1] = c
      BY <2>1
    <3>3. QED
      BY <3>1, <3>2
  <2>2. QED
    BY <2>1
<1> HIDE DEF A, B
<1>7. Cardinality(A \cup B) = Cardinality(A) + Cardinality(B) - Cardinality(A \cap B)
  BY <1>3, <1>4, FS_Union
<1>8. Cardinality(A) \in Nat /\ Cardinality(A \cap B) = 0
  BY <1>3, <1>6, FS_CardinalityType, FS_EmptySet
<1>9. QED
  BY <1>1, <1>2, <1>4, <1>5, <1>7, <1>8 DEF A

Queue(b, D, K) == Num(b.waiting, D, K)
If1(p) == IF p THEN 1 ELSE 0

\* One context has started n loads, ended e of them, and left the queue of
\* the budget or come to wait in it: q is what left the queue.
LoadsMoved(C, c, h, o, q, n, w) ==
  /\ q \in Seq(WaitOf(C)) /\ n \in Nat /\ (w = "none" \/ w \in Resumptions)
  /\ (o = "none" \/ o \in ControlOps)
  /\ \A D, K : Num(tasks', D, K) + If1(c \in D /\ h \in K)
                 = Num(tasks, D, K) + If1(c \in D /\ o \in K /\ o # "none") + Num(q, D, K)
  /\ \A D, K : Num(budget'.waiting, D, K) + Num(q, D, K)
                 = Num(budget.waiting, D, K) + If1(c \in D /\ w \in K /\ w # "none")
  /\ loading' = [loading EXCEPT ![c] = @ + n]
  /\ \A d \in C : d # c => ctx'[d] = ctx[d]
  /\ ctx'[c].fetches = ctx[c].fetches + n - If1(h \in LoadOps)
  /\ budget'.loads = budget.loads + n - If1(h \in LoadOps)
  /\ budget'.loads <= MaxLoads
  /\ Waiting(ctx'[c]) + If1(h \in Resumptions) = Waiting(ctx[c]) + If1(w # "none")
  /\ ctx'[c].next >= 0 /\ ctx'[c].revalidate >= 0
  /\ ctx'[c].waits /\ ~(ctx'[c].revalidate > 0) =>
       ctx'[c].revalidate = ctx[c].revalidate /\ w # "ResumeRevalidateInputs"
  /\ budget'.waiting # <<>> =>
       \/ budget'.loads >= MaxLoads
       \/ /\ budget.waiting # <<>>
          /\ n + Num(q, C, Resumptions) >= If1(h \in LoadOps) + If1(h \in Resumptions)

LEMMA LoadsFrom ==
  ASSUME NEW C, Contexts = C, Typed, Typed', Frame, LoadsInv, NEW c \in C, NEW h, NEW o, NEW q,
         NEW n, NEW w, LoadsMoved(C, c, h, o, q, n, w)
  PROVE  LoadsInv'
<1>1. Contexts' = C /\ IsFiniteSet(C) /\ MaxLoads \in Nat
  BY LinksKept, LimitsAssumption DEF Typed, FlushInv, Records
<1>2. /\ tasks \in Seq(TaskOf(C)) /\ tasks' \in Seq(TaskOf(C)) /\ loading \in [C -> Int]
      /\ budget.waiting \in Seq(WaitOf(C)) /\ budget'.waiting \in Seq(WaitOf(C))
      /\ budget.loads \in Int /\ budget'.loads \in Int
      /\ q \in Seq(WaitOf(C)) /\ n \in Nat
  BY <1>1 DEF Typed, Types, TypesOf, BudgetOf, LoadsMoved
<1>3. ASSUME NEW D, NEW K
      PROVE  /\ Num(tasks, D, K) \in Nat /\ Num(tasks', D, K) \in Nat /\ Num(q, D, K) \in Nat
             /\ Num(budget.waiting, D, K) \in Nat /\ Num(budget'.waiting, D, K) \in Nat
  BY <1>2, NumPlaces
<1>4. ASSUME NEW D, NEW K \in LoadKinds
      PROVE  Num(tasks', D, K) + If1(c \in D /\ h \in K) = Num(tasks, D, K) + Num(q, D, K)
  <2>1. ~(o \in K /\ o # "none")
    BY KindsApart DEF LoadsMoved
  <2>2. /\ Num(tasks', D, K) + If1(c \in D /\ h \in K)
             = Num(tasks, D, K) + If1(c \in D /\ o \in K /\ o # "none") + Num(q, D, K)
        /\ If1(c \in D /\ o \in K /\ o # "none") = 0
    BY <2>1 DEF LoadsMoved, If1
  <2>3. QED
    BY <1>3, <2>2
<1>5. \A D : Num(q, D, LoadOps) = 0
  <2>1. ASSUME NEW D PROVE Num(q, D, LoadOps) = 0
    <3>1. \A i \in DOMAIN q : q[i] \in WaitOf(C)
      BY <1>2, ElementOfSeq, LenProperties
    <3>2. \A i \in DOMAIN q : q[i].op \notin LoadOps
      BY <3>1 DEF WaitOf, LoadOps, Resumptions
    <3>3. QED
      BY <1>2, <3>2, NumPlaces
  <2>2. QED
    BY <2>1
<1>6. /\ LoadOps \in LoadKinds /\ Resumptions \in LoadKinds /\ {"ResumeRevalidateInputs"} \in LoadKinds
      /\ {"ResumeRevalidateInputs"} \subseteq Resumptions /\ "none" \notin Resumptions
  BY Kinds DEF Resumptions
<1> DEFINE Both(D, K) == Num(tasks, D, K) + Num(budget.waiting, D, K)
           BothNow(D, K) == Num(tasks', D, K) + Num(budget'.waiting, D, K)
<1>7. ASSUME NEW D, NEW K \in LoadKinds
      PROVE  /\ BothNow(D, K) + If1(c \in D /\ h \in K) = Both(D, K) + If1(c \in D /\ w \in K /\ w # "none")
             /\ BothNow(D, K) \in Nat /\ Both(D, K) \in Nat
  <2>1. Num(budget'.waiting, D, K) + Num(q, D, K)
          = Num(budget.waiting, D, K) + If1(c \in D /\ w \in K /\ w # "none")
    BY DEF LoadsMoved
  <2>2. If1(c \in D /\ w \in K /\ w # "none") \in Nat /\ If1(c \in D /\ h \in K) \in Nat
    BY DEF If1
  <2>3. QED
    BY <1>3, <1>4, <2>1, <2>2
<1>8. ASSUME NEW d \in C, d # c PROVE LoadsOf(d)' /\ ctx'[d].fetches <= MaxLoads
  <2>1. LoadsOf(d) /\ ctx[d].fetches <= MaxLoads /\ ctx'[d] = ctx[d] /\ loading'[d] = loading[d]
    BY <1>2, <1>8 DEF LoadsInv, LoadsMoved
  <2>2. \A K : If1(c \in {d} /\ h \in K) = 0 /\ If1(c \in {d} /\ w \in K /\ w # "none") = 0
    BY <1>8 DEF If1
  <2>3. Num(tasks', {d}, LoadOps) = Num(tasks, {d}, LoadOps)
    <3>1. /\ Num(tasks', {d}, LoadOps) + If1(c \in {d} /\ h \in LoadOps)
               = Num(tasks, {d}, LoadOps) + Num(q, {d}, LoadOps)
          /\ Num(q, {d}, LoadOps) = 0 /\ If1(c \in {d} /\ h \in LoadOps) = 0
      BY <1>4, <1>5, <1>6, <2>2
    <3>2. QED
      BY <1>3, <3>1
  <2>4. ASSUME NEW K \in LoadKinds PROVE BothNow({d}, K) = Both({d}, K)
    <3>1. /\ BothNow({d}, K) + If1(c \in {d} /\ h \in K) = Both({d}, K) + If1(c \in {d} /\ w \in K /\ w # "none")
          /\ BothNow({d}, K) \in Nat /\ Both({d}, K) \in Nat
      BY <1>7
    <3> HIDE DEF Both, BothNow
    <3>2. QED
      BY <2>2, <3>1
  <2>5. BothNow({d}, Resumptions) = Both({d}, Resumptions)
        /\ BothNow({d}, {"ResumeRevalidateInputs"}) = Both({d}, {"ResumeRevalidateInputs"})
    BY <1>6, <2>4
  <2>6. QED
    BY <2>1, <2>3, <2>5 DEF LoadsOf
<1>19. PICK e : e = If1(h \in LoadOps)
  OBVIOUS
<1>9. Num(tasks', {c}, LoadOps) = Num(tasks, {c}, LoadOps) - e
  <2>1. /\ Num(tasks', {c}, LoadOps) + If1(c \in {c} /\ h \in LoadOps)
             = Num(tasks, {c}, LoadOps) + Num(q, {c}, LoadOps)
        /\ Num(q, {c}, LoadOps) = 0 /\ If1(c \in {c} /\ h \in LoadOps) = If1(h \in LoadOps)
        /\ If1(h \in LoadOps) \in Nat
    BY <1>4, <1>5, <1>6 DEF If1
  <2>2. QED
    BY <1>3, <1>19, <2>1
<1>10. /\ LoadsOf(c) /\ loading'[c] = loading[c] + n /\ loading[c] \in Int
       /\ ctx'[c].fetches = ctx[c].fetches + n - e
       /\ budget'.loads = budget.loads + n - e /\ budget'.loads <= MaxLoads
       /\ ctx[c].fetches <= MaxLoads
       /\ e \in Nat
  BY <1>2, <1>19 DEF LoadsInv, LoadsMoved, If1
<1>11. /\ ctx[c].fetches = loading[c] + Num(tasks, {c}, LoadOps) /\ loading[c] >= 0
       /\ Num(tasks, {c}, LoadOps) \in Nat /\ Num(tasks', {c}, LoadOps) \in Nat
  BY <1>3, <1>10 DEF LoadsOf
<1>20. n \in Nat /\ budget.loads \in Int /\ budget'.loads \in Int /\ MaxLoads \in Nat
  BY <1>1, <1>2
<1>12. /\ ctx'[c].fetches = loading'[c] + Num(tasks', {c}, LoadOps) /\ loading'[c] >= 0
       /\ ctx'[c].fetches \in Nat /\ ctx[c].fetches \in Nat
  <2>1. PICK f, g, l, m, a, b : /\ f = ctx[c].fetches /\ g = ctx'[c].fetches /\ l = loading[c]
                                /\ m = loading'[c] /\ a = Num(tasks, {c}, LoadOps)
                                /\ b = Num(tasks', {c}, LoadOps)
    OBVIOUS
  <2>2. /\ f = l + a /\ l >= 0 /\ l \in Int /\ a \in Nat /\ b \in Nat /\ b = a - e /\ m = l + n
        /\ g = f + n - e /\ e \in Nat /\ n \in Nat
    BY <1>9, <1>10, <1>11, <1>20, <2>1
  <2>3. g = m + b /\ m >= 0 /\ g \in Nat /\ f \in Nat
    BY <2>2
  <2>4. QED
    BY <2>1, <2>3
<1>13. /\ Waiting(ctx[c]) = Both({c}, Resumptions)
       /\ Waiting(ctx'[c]) = BothNow({c}, Resumptions)
  <2>1. Waiting(ctx[c]) = Both({c}, Resumptions)
    BY <1>10 DEF LoadsOf, Waiting
  <2>2. /\ BothNow({c}, Resumptions) + If1(h \in Resumptions) = Both({c}, Resumptions) + If1(w # "none")
        /\ BothNow({c}, Resumptions) \in Nat /\ Both({c}, Resumptions) \in Nat
    <3>1. If1(c \in {c} /\ h \in Resumptions) = If1(h \in Resumptions)
          /\ If1(c \in {c} /\ w \in Resumptions /\ w # "none") = If1(w # "none")
      BY DEF If1, LoadsMoved
    <3>2. /\ BothNow({c}, Resumptions) + If1(c \in {c} /\ h \in Resumptions)
               = Both({c}, Resumptions) + If1(c \in {c} /\ w \in Resumptions /\ w # "none")
          /\ BothNow({c}, Resumptions) \in Nat /\ Both({c}, Resumptions) \in Nat
      BY <1>6, <1>7
    <3>3. QED
      BY <3>1, <3>2
  <2>3. Waiting(ctx'[c]) + If1(h \in Resumptions) = Waiting(ctx[c]) + If1(w # "none")
        /\ If1(h \in Resumptions) \in Nat /\ If1(w # "none") \in Nat /\ Waiting(ctx'[c]) \in Nat
    BY DEF LoadsMoved, If1, Waiting
  <2> HIDE DEF Both, BothNow
  <2>4. QED
    BY <2>1, <2>2, <2>3
<1>14. BothNow({c}, {"ResumeRevalidateInputs"}) > 0 => ctx'[c].revalidate > 0
  <2> DEFINE K == {"ResumeRevalidateInputs"}
  <2>1. SUFFICES ASSUME BothNow({c}, K) > 0, ~(ctx'[c].revalidate > 0) PROVE FALSE
    OBVIOUS
  <2>2. ctx'[c].waits
    <3>1. SUFFICES ASSUME ~ctx'[c].waits PROVE FALSE
      OBVIOUS
    <3>2. BothNow({c}, Resumptions) = 0
      BY <1>13, <3>1 DEF Waiting
    <3>3. Num(tasks', {c}, Resumptions) = 0 /\ Num(budget'.waiting, {c}, Resumptions) = 0
      BY <1>3, <3>2
    <3>4. Num(tasks', {c}, K) = 0 /\ Num(budget'.waiting, {c}, K) = 0
      BY <1>2, <1>6, <3>3, NumNone
    <3>5. QED
      BY <2>1, <3>4
  <2>3. ctx'[c].revalidate = ctx[c].revalidate /\ w # "ResumeRevalidateInputs"
    BY <2>1, <2>2 DEF LoadsMoved
  <2>4. /\ BothNow({c}, K) + If1(c \in {c} /\ h \in K) = Both({c}, K) + If1(c \in {c} /\ w \in K /\ w # "none")
        /\ BothNow({c}, K) \in Nat /\ Both({c}, K) \in Nat
    BY <1>6, <1>7
  <2>5. If1(c \in {c} /\ w \in K /\ w # "none") = 0 /\ If1(c \in {c} /\ h \in K) \in Nat
    BY <2>3 DEF If1
  <2>6. Both({c}, K) > 0
    <3> HIDE DEF Both, BothNow
    <3>1. QED
      BY <2>1, <2>4, <2>5
  <2>7. ctx[c].revalidate > 0
    BY <1>10, <2>6 DEF LoadsOf
  <2>8. QED
    BY <2>1, <2>3, <2>7
<1>15. LoadsOf(c)'
  BY <1>12, <1>13, <1>14 DEF LoadsOf, Waiting, LoadsMoved
<1>16. /\ budget'.loads = Cardinality(InFlight') /\ ctx'[c].fetches <= MaxLoads
  <2>1. InFlight = Flight(C, ctx) /\ InFlight' = Flight(C, ctx')
    BY <1>1 DEF InFlight, Flight
  <2>2. Flight(C \ {c}, ctx') = Flight(C \ {c}, ctx)
    <3>1. \A d \in C \ {c} : ctx'[d] = ctx[d]
      BY DEF LoadsMoved
    <3>2. \A a \in (C \ {c}) \X (1..MaxLoads) : ctx'[a[1]] = ctx[a[1]]
      BY <3>1
    <3>3. QED
      BY <3>2 DEF Flight
  <2>3. /\ Cardinality(Flight(C \ {c}, ctx)) \in Nat
        /\ Cardinality(Flight(C, ctx)) = Cardinality(Flight(C \ {c}, ctx)) + ctx[c].fetches
    BY <1>1, <1>10, <1>12, FlightParts
  <2>4. budget.loads = Cardinality(Flight(C, ctx))
    BY <2>1 DEF LoadsInv
  <2>5. ctx'[c].fetches <= MaxLoads
    <3>1. PICK f, g, l, m, a : /\ f = ctx[c].fetches /\ g = ctx'[c].fetches /\ l = budget.loads
                               /\ m = budget'.loads /\ a = Cardinality(Flight(C \ {c}, ctx))
      OBVIOUS
    <3>2. /\ a \in Nat /\ l = a + f /\ g = f + n - e /\ m = l + n - e /\ m <= MaxLoads
          /\ f \in Nat /\ n \in Nat /\ e \in Nat /\ MaxLoads \in Nat
      BY <1>10, <1>12, <1>20, <2>3, <2>4, <3>1
    <3>3. g <= MaxLoads
      BY <3>2
    <3>4. QED
      BY <3>1, <3>3
  <2>6. Cardinality(Flight(C, ctx')) = Cardinality(Flight(C \ {c}, ctx')) + ctx'[c].fetches
    BY <1>1, <1>12, <2>5, FlightParts
  <2>7. QED
    <3>1. PICK f, g, l, m, a, b : /\ f = ctx[c].fetches /\ g = ctx'[c].fetches /\ l = budget.loads
                                  /\ m = budget'.loads /\ a = Cardinality(Flight(C \ {c}, ctx))
                                  /\ b = Cardinality(Flight(C, ctx'))
      OBVIOUS
    <3>2. /\ a \in Nat /\ l = a + f /\ g = f + n - e /\ m = l + n - e /\ b = a + g
          /\ f \in Nat /\ n \in Nat /\ e \in Nat
      BY <1>10, <1>12, <1>20, <2>2, <2>3, <2>4, <2>6, <3>1
    <3>3. m = b
      BY <3>2
    <3>4. QED
      BY <2>1, <2>5, <3>1, <3>3
<1>17. NoWaiterForgotten'
  <2>1. /\ Cardinality({i \in DOMAIN tasks : tasks[i].op \in Resumptions}) = Num(tasks, C, Resumptions)
        /\ Cardinality({i \in DOMAIN tasks' : tasks'[i].op \in Resumptions}) = Num(tasks', C, Resumptions)
    BY <1>2, ResumptionsCount
  <2>2. SUFFICES ASSUME budget'.waiting # <<>> PROVE MaxLoads - budget'.loads <= Num(tasks', C, Resumptions)
    BY <2>1 DEF NoWaiterForgotten, Room
  <2>3. Num(tasks', C, Resumptions) \in Nat /\ Num(tasks, C, Resumptions) \in Nat /\ Num(q, C, Resumptions) \in Nat
    BY <1>3
  <2>4. CASE budget'.loads >= MaxLoads
    BY <1>1, <1>2, <2>3, <2>4
  <2>5. CASE /\ budget.waiting # <<>>
             /\ n + Num(q, C, Resumptions) >= If1(h \in LoadOps) + If1(h \in Resumptions)
    <3>1. MaxLoads - budget.loads <= Num(tasks, C, Resumptions)
      BY <2>1, <2>5 DEF LoadsInv, NoWaiterForgotten, Room
    <3>2. Num(tasks', C, Resumptions) + If1(h \in Resumptions) = Num(tasks, C, Resumptions) + Num(q, C, Resumptions)
      <4>1. If1(c \in C /\ h \in Resumptions) = If1(h \in Resumptions)
        BY DEF If1
      <4>2. QED
        BY <1>4, <1>6, <4>1
    <3>3. If1(h \in Resumptions) \in Nat
      BY DEF If1
    <3>4. QED
      <4>1. PICK l, m, a, b, x, i : /\ l = budget.loads /\ m = budget'.loads
                                    /\ a = Num(tasks, C, Resumptions) /\ b = Num(tasks', C, Resumptions)
                                    /\ x = Num(q, C, Resumptions) /\ i = If1(h \in Resumptions)
        OBVIOUS
      <4>2. /\ l \in Int /\ m = l + n - e /\ a \in Nat /\ b \in Nat /\ x \in Nat /\ i \in Nat /\ n \in Nat
            /\ e \in Nat /\ MaxLoads \in Nat /\ MaxLoads - l <= a /\ b + i = a + x /\ n + x >= e + i
        BY <1>10, <1>19, <1>20, <2>3, <2>5, <3>1, <3>2, <3>3, <4>1
      <4>3. MaxLoads - m <= b
        BY <4>2
      <4>4. QED
        BY <4>1, <4>3
  <2>6. QED
    BY <2>2, <2>4, <2>5 DEF LoadsMoved
<1>18. QED
  BY <1>1, <1>8, <1>10, <1>15, <1>16, <1>17 DEF LoadsInv

LoaderOps == {"FetchInputs", "RevalidateInputs"} \cup LoadOps \cup Resumptions

LEMMA LoaderKinds ==
  /\ \A h \in LoaderOps : h \notin EndingOps /\ h \notin LastOps /\ h \notin NestedOps /\ h # "Start"
  /\ \A h \in LoadOps \cup Resumptions : h \notin ControlOps
  /\ "FetchInputs" \in StartedOps /\ "RevalidateInputs" \in StartedOps
  /\ "FetchInputs" \notin LoadOps \cup Resumptions /\ "RevalidateInputs" \notin LoadOps \cup Resumptions
  /\ LoadOps \cap Resumptions = {} /\ StartedOps \subseteq ControlOps
  BY DEF LoaderOps, EndingOps, LastOps, RepeatedOps, NestedOps, LoadOps, Resumptions, ControlOps,
         StartedOps, Ops

\* What is known of a context that loads.
Loader(c, h) ==
  /\ ctx[c].state = "started" /\ ~Repeating(c) /\ ctx[c].nested = 0
  /\ \A k \in {"lookup", "lock", "rewrite"} : <<k, c>> \notin asked
  /\ ctx[c].preds = Waiting(ctx[c]) /\ ctx[c].waits \in BOOLEAN
  /\ ctx[c].fetches \in Nat /\ ctx[c].next \in Nat /\ ctx[c].revalidate \in Nat
  /\ \A K \in ControlKinds : Num(tasks, {c}, K) = IF h \in K THEN 1 ELSE 0
  /\ h \in Resumptions => ctx[c].waits
  /\ h \in {"FetchInputs", "RevalidateInputs"} => ~ctx[c].waits /\ ctx[c].fetches = 0
  /\ h \in LoadOps => ctx[c].fetches > 0
  /\ h = "ResumeRevalidateInputs" => ctx[c].revalidate > 0

LEMMA AwaitsLoads ==
  ASSUME Typed, Core, NEW c \in Contexts, NEW h, h \in LoadOps \cup Resumptions,
         ctx[c].fetches > 0 \/ ctx[c].waits,
         h \in Resumptions => ctx[c].waits,
         h \in LoadOps => ctx[c].fetches > 0,
         h = "ResumeRevalidateInputs" => ctx[c].revalidate > 0
  PROVE  Loader(c, h)
<1>1. Awaits(c, "loads")
  BY Awaiting DEF Core
<1>2. /\ ctx[c].fetches \in Nat /\ ctx[c].nested \in Nat /\ ctx[c] \in CtxType(Contexts)
      /\ tasks \in Seq(TaskOf(Contexts))
  BY Naturals DEF Core, Typed, Types, TypesOf
<1>3. ctx[c].waits \in BOOLEAN /\ ctx[c].next \in Nat /\ ctx[c].revalidate \in Nat
  <2>1. ctx[c].waits \in BOOLEAN /\ ctx[c].next \in Int /\ ctx[c].revalidate \in Int
    BY <1>2 DEF CtxType
  <2>2. ctx[c].next >= 0 /\ ctx[c].revalidate >= 0
    BY DEF Core, LoadsInv, LoadsOf
  <2>3. QED
    BY <2>1, <2>2
<1>4. ctx[c].preds = Waiting(ctx[c])
  <2>1. OpenLinks(c) = {} /\ ctx[c].preds = Cardinality(OpenLinks(c)) + Waiting(ctx[c])
    BY <1>1 DEF Core, LinksInv, Awaits, Waiting
  <2>2. Cardinality({}) = 0 /\ Waiting(ctx[c]) \in Nat
    BY FS_EmptySet DEF Waiting
  <2>3. QED
    BY <2>1, <2>2
<1>5. ASSUME NEW K \in ControlKinds PROVE Num(tasks, {c}, K) = IF h \in K THEN 1 ELSE 0
  <2>1. Num(tasks, {c}, K) = 0
    BY <1>1, <1>2, NumNone, KindsApart DEF Awaits, Holds
  <2>2. h \notin K
    BY LoaderKinds, KindsApart
  <2>3. QED
    BY <2>1, <2>2
<1>6. /\ ctx[c].state = "started" /\ ~Repeating(c) /\ ctx[c].nested = 0
      /\ \A k \in {"lookup", "lock", "rewrite"} : <<k, c>> \notin asked
  BY <1>1, <1>2 DEF Awaits, Holds
<1>7. h \notin {"FetchInputs", "RevalidateInputs"}
  BY LoaderKinds
<1>8. QED
  BY <1>2, <1>3, <1>4, <1>5, <1>6, <1>7 DEF Loader

LEMMA HeadLoads ==
  ASSUME Typed, Core, NEW c, c = Running, NEW h, h = Head(tasks).op, tasks # <<>>, h \in LoaderOps
  PROVE  c \in Contexts /\ Loader(c, h)
<1>1. c \in Contexts /\ tasks \in Seq(TaskOf(Contexts)) /\ budget.waiting \in Seq(WaitOf(Contexts))
  BY HeadType DEF Typed, Types, TypesOf, BudgetOf
<1>2. ASSUME NEW K, h \in K PROVE Num(tasks, {c}, K) > 0
  <2>1. /\ Num(tasks, {c}, K) = (IF Running \in {c} /\ Head(tasks).op \in K THEN 1 ELSE 0) + Num(Tail(tasks), {c}, K)
        /\ Num(Tail(tasks), {c}, K) \in Nat
    BY <1>1, TaskNums
  <2>2. QED
    BY <1>2, <2>1
<1>3. LoadsOf(c)
  BY <1>1 DEF Core, LoadsInv
<1>4. CASE h \in LoadOps \cup Resumptions
  <2>1. h \in LoadOps => ctx[c].fetches > 0
    <3>1. SUFFICES ASSUME h \in LoadOps PROVE ctx[c].fetches > 0
      OBVIOUS
    <3>2. /\ ctx[c].fetches = loading[c] + Num(tasks, {c}, LoadOps) /\ loading[c] >= 0
          /\ Num(tasks, {c}, LoadOps) > 0 /\ Num(tasks, {c}, LoadOps) \in Nat /\ loading[c] \in Int
      BY <1>1, <1>2, <1>3, <3>1, NumPlaces DEF LoadsOf, Typed, Types, TypesOf
    <3>3. QED
      BY <3>2
  <2>2. h \in Resumptions => ctx[c].waits
    <3>1. SUFFICES ASSUME h \in Resumptions PROVE ctx[c].waits
      OBVIOUS
    <3>2. /\ Num(tasks, {c}, Resumptions) > 0 /\ Num(budget.waiting, {c}, Resumptions) \in Nat
          /\ Num(tasks, {c}, Resumptions) \in Nat
      BY <1>1, <1>2, <3>1, NumPlaces
    <3>3. (IF ctx[c].waits THEN 1 ELSE 0) = Num(tasks, {c}, Resumptions) + Num(budget.waiting, {c}, Resumptions)
      BY <1>3 DEF LoadsOf
    <3>4. QED
      BY <3>2, <3>3
  <2>3. h = "ResumeRevalidateInputs" => ctx[c].revalidate > 0
    <3>1. SUFFICES ASSUME h = "ResumeRevalidateInputs" PROVE ctx[c].revalidate > 0
      OBVIOUS
    <3>2. /\ Num(tasks, {c}, {"ResumeRevalidateInputs"}) > 0
          /\ Num(tasks, {c}, {"ResumeRevalidateInputs"}) \in Nat
          /\ Num(budget.waiting, {c}, {"ResumeRevalidateInputs"}) \in Nat
      BY <1>1, <1>2, <3>1, NumPlaces
    <3>3. Num(tasks, {c}, {"ResumeRevalidateInputs"}) + Num(budget.waiting, {c}, {"ResumeRevalidateInputs"}) > 0
      BY <3>2
    <3>4. QED
      BY <1>3, <3>3 DEF LoadsOf
  <2>4. QED
    BY <1>1, <1>4, <2>1, <2>2, <2>3, AwaitsLoads
<1>5. CASE h \in {"FetchInputs", "RevalidateInputs"}
  <2>1. h \in StartedOps /\ h \in ControlOps /\ h \notin LoadOps /\ h \notin Resumptions
    BY <1>5, LoaderKinds
  <2>2. Runs(c, h)
    BY <2>1, HeadRuns DEF Core
  <2>3. ctx[c] \in CtxType(Contexts)
    BY <1>1 DEF Typed, Types, TypesOf
  <2>4. ctx[c].waits \in BOOLEAN /\ ctx[c].next \in Nat /\ ctx[c].revalidate \in Nat
    <3>1. ctx[c].waits \in BOOLEAN /\ ctx[c].next \in Int /\ ctx[c].revalidate \in Int
      BY <2>3 DEF CtxType
    <3>2. ctx[c].next >= 0 /\ ctx[c].revalidate >= 0
      BY <1>3 DEF LoadsOf
    <3>3. QED
      BY <3>1, <3>2
  <2>5. ctx[c].preds = Waiting(ctx[c])
    <3>1. OpenLinks(c) = {} /\ ctx[c].preds = Cardinality(OpenLinks(c)) + Waiting(ctx[c])
      BY <1>1, <2>1, <2>2 DEF Core, LinksInv, Runs, Waiting
    <3>2. Cardinality({}) = 0 /\ Waiting(ctx[c]) \in Nat
      BY FS_EmptySet DEF Waiting
    <3>3. QED
      BY <3>1, <3>2
  <2>6. ASSUME NEW K \in ControlKinds PROVE Num(tasks, {c}, K) = IF h \in K THEN 1 ELSE 0
    <3>1. Num(tasks, {c}, K) = (IF Running \in {c} /\ Head(tasks).op \in K THEN 1 ELSE 0) + Num(Tail(tasks), {c}, K)
      BY <1>1, TaskNums
    <3>2. Num(Tail(tasks), {c}, K) = 0
      BY <2>2 DEF Runs
    <3>3. QED
      BY <3>1, <3>2
  <2>7. /\ ctx[c].state = "started" /\ ~Repeating(c) /\ ctx[c].nested = 0 /\ ~ctx[c].waits
        /\ ctx[c].fetches = 0 /\ \A k \in {"lookup", "lock", "rewrite"} : <<k, c>> \notin asked
    BY <2>1, <2>2 DEF Runs
  <2>8. h # "ResumeRevalidateInputs" /\ ctx[c].fetches \in Nat
    BY <1>5, <2>7
  <2>9. \A K \in ControlKinds : Num(tasks, {c}, K) = IF h \in K THEN 1 ELSE 0
    BY <2>6
  <2>10. QED
    BY <1>1, <2>1, <2>4, <2>5, <2>7, <2>8, <2>9 DEF Loader
<1>6. QED
  BY <1>4, <1>5 DEF LoaderOps

\* A loading context goes on, or loads and waits.
LEMMA LoadKeeps ==
  ASSUME NEW C, Contexts = C, Typed, Typed', Frame, Core, NEW c \in C, NEW h, Loader(c, h),
         h \in LoaderOps, NEW o,
         Now(c, o), \A d \in C \ {c} : SameTasks(d),
         \/ o = "none" /\ (ctx'[c].fetches > 0 \/ ctx'[c].waits)
         \/ o \in StartedOps /\ ~(ctx'[c].fetches > 0 \/ ctx'[c].waits),
         \A d \in C \ {c} : ctx'[d] = ctx[d],
         ctx'[c].state = ctx[c].state, ctx'[c].nested = ctx[c].nested,
         ctx'[c].repeated = ctx[c].repeated, ctx'[c].successors = ctx[c].successors,
         ctx'[c].preds = Waiting(ctx'[c]),
         UNCHANGED <<asked, primary, html>>,
         drv'.rewrites = drv.rewrites, drv'.canRewrite = drv.canRewrite
  PROVE  OneContinuation' /\ LinksInv' /\ NestedInv' /\ WindowsInv' /\ PrimaryInv'
<1>1. SameChains
  BY DEF SameChains, Loader, Waiting
<1>2. \A d \in C \ {c} : /\ ctx'[d].state = ctx[d].state /\ SameLoad(d) /\ SameTasks(d) /\ SameAsked(d)
                         /\ ctx'[d].nested = ctx[d].nested /\ ctx'[d].repeated = ctx[d].repeated
  BY DEF SameLoad, SameAsked
<1>3. Num(tasks', {c}, {"Start"}) = 0 /\ Num(tasks', {c}, NestedOps) = 0
  <2>1. o # "Start" /\ o \notin NestedOps
    BY DEF StartedOps, NestedOps
  <2>2. QED
    BY <2>1, Kinds DEF Now
<1>4. Num(tasks, {c}, LastOps) = 0
  BY Kinds, LoaderKinds DEF Loader
<1>5. Moves(c)
  <2>1. ctx[c].state = "started"
    BY DEF Loader
  <2>2. ~(Num(tasks, {c}, LastOps) > 0)
    BY <1>4
  <2>3. \A d \in C : ctx'[d].nested = ctx[d].nested /\ ctx'[d].repeated = ctx[d].repeated
    BY <1>2
  <2>4. QED
    BY <1>1, <1>2, <1>3, <2>1, <2>2, <2>3 DEF Moves
<1>6. ~Repeating(c)' /\ ~(ctx'[c].nested > 0)
  BY <1>5, MoveRepeating DEF Loader, Core
<1>7. Continuation(c)'
  <2>1. CASE o = "none" /\ (ctx'[c].fetches > 0 \/ ctx'[c].waits)
    <3>1. Became(c, {"loads"})
      BY <1>6, <2>1 DEF Became, Loader
    <3>2. ctx'[c].state = "started"
      BY DEF Loader
    <3>3. PICK S : S = {"loads"}
      OBVIOUS
    <3>4. QED
      BY <2>1, <3>1, <3>2, <3>3, Continued
  <2>2. CASE o \in StartedOps /\ ~(ctx'[c].fetches > 0 \/ ctx'[c].waits)
    <3>1. Became(c, {})
      BY <1>6, <2>2 DEF Became, Loader
    <3>2. ctx'[c].state = "started"
      BY DEF Loader
    <3>3. QED
      BY <2>2, <3>1, <3>2, Continued
  <2>3. QED
    BY <2>1, <2>2
<1>8. QED
  BY <1>5, <1>7, MovesAre, MoveContinues, MoveLinks, MoveNested, MoveWindows, MovePrimary DEF Core

\* What PopWaiting takes from the queue of the budget, it adds to the tasks.
Popped(C, b, t, r, q) ==
  /\ q \in Seq(WaitOf(C)) /\ r.tasks = t \o q /\ r.budget.loads = b.loads
  /\ \A D, K : Num(r.budget.waiting, D, K) + Num(q, D, K) = Num(b.waiting, D, K)
  /\ r.budget.waiting # <<>> => \/ b.loads >= MaxLoads
                                \/ b.waiting # <<>> /\ Num(q, C, Resumptions) = 1

LEMMA PopOf ==
  ASSUME NEW C, NEW b \in BudgetOf(C), NEW t \in Seq(TaskOf(C)), NEW r, r = PopWaiting(b, t)
  PROVE  \E q : Popped(C, b, t, r, q)
<1>1. b.waiting \in Seq(WaitOf(C)) /\ DOMAIN b = {"contexts", "loads", "bytes", "entries", "waiting"}
  BY DEF BudgetOf
<1>2. CASE b.waiting = <<>> \/ b.loads >= MaxLoads
  <2>1. PICK q : q = <<>>
    OBVIOUS
  <2>2. r.tasks = t /\ r.budget = b
    BY <1>2 DEF PopWaiting
  <2>3. t \o q = t /\ q \in Seq(WaitOf(C))
    BY <2>1
  <2>4. \A D, K : Num(q, D, K) = 0
    <3>1. DOMAIN q = {}
      BY <2>1
    <3>2. ASSUME NEW D, NEW K PROVE Num(q, D, K) = 0
      <4>1. {i \in DOMAIN q : q[i].c \in D /\ q[i].op \in K} = {}
        BY <3>1
      <4>2. QED
        BY <4>1, FS_EmptySet DEF Num
    <3>3. QED
      BY <3>2
  <2>5. \A D, K : Num(b.waiting, D, K) \in Nat
    BY <1>1, NumPlaces
  <2>6. \A D, K : Num(r.budget.waiting, D, K) + Num(q, D, K) = Num(b.waiting, D, K)
    <3>1. ASSUME NEW D, NEW K PROVE Num(r.budget.waiting, D, K) + Num(q, D, K) = Num(b.waiting, D, K)
      <4>1. Num(q, D, K) = 0 /\ Num(b.waiting, D, K) \in Nat /\ r.budget.waiting = b.waiting
        BY <2>2, <2>4, <2>5
      <4>2. QED
        BY <4>1
    <3>2. QED
      BY <3>1
  <2>7. Popped(C, b, t, r, q)
    BY <1>2, <2>2, <2>3, <2>6 DEF Popped
  <2>8. QED
    BY <2>7
<1>3. CASE ~(b.waiting = <<>> \/ b.loads >= MaxLoads)
  <2>1. PICK x, q, v : x = Head(b.waiting) /\ q = <<x>> /\ v = b.waiting
    OBVIOUS
  <2>2. v \in Seq(WaitOf(C)) /\ v # <<>>
    BY <1>1, <1>3, <2>1
  <2>3. x \in WaitOf(C) /\ x = Head(v) /\ q \in Seq(WaitOf(C))
    <3>1. x = Head(v)
      BY <2>1
    <3>2. x \in WaitOf(C)
      BY <2>2, <3>1, HeadTailProperties
    <3>3. QED
      BY <2>1, <3>1, <3>2
  <2>4. r.tasks = Append(t, x) /\ r.budget = [b EXCEPT !.waiting = Tail(v)]
    BY <1>3, <2>1 DEF PopWaiting
  <2>5. r.budget.waiting = Tail(v) /\ r.budget.loads = b.loads
    BY <1>1, <2>4
  <2>6. x \in TaskOf(C) /\ x.op \in Resumptions /\ x.c \in C
    BY <2>3, WaitIn DEF WaitOf
  <2>7. r.tasks = t \o q
    BY <2>1, <2>4, <2>6
  <2>8. ASSUME NEW D, NEW K
        PROVE  Num(r.budget.waiting, D, K) + Num(q, D, K) = Num(b.waiting, D, K)
    <3>1. Num(v, D, K) = (IF x.c \in D /\ x.op \in K THEN 1 ELSE 0) + Num(Tail(v), D, K)
      BY <2>2, <2>3, NumTail
    <3>2. Num(q, D, K) = IF x.c \in D /\ x.op \in K THEN 1 ELSE 0
      BY <2>1, NumOne
    <3>3. Num(Tail(v), D, K) \in Nat
      <4>1. Tail(v) \in Seq(WaitOf(C))
        BY <2>2, HeadTailProperties
      <4>2. QED
        BY <4>1, NumPlaces
    <3>4. QED
      BY <2>1, <2>5, <3>1, <3>2, <3>3
  <2>9. Num(q, C, Resumptions) = 1
    BY <2>1, <2>6, NumOne
  <2>10. b.waiting # <<>>
    BY <1>3
  <2>11. Popped(C, b, t, r, q)
    BY <2>3, <2>5, <2>7, <2>8, <2>9, <2>10 DEF Popped
  <2>12. QED
    BY <2>11
<1>4. QED
  BY <1>2, <1>3

\* The operations that a load goes on with.
AfterLoads == {"StopForPageInputBytes", "PartitionAsync", "Finalize", "OutputCacheMiss"}

\* The tasks after a load or a try to load.
LoadTasks(c, o, q) ==
  \/ o = "none" /\ tasks' = Tail(tasks) \o q
  \/ o \in AfterLoads /\ tasks' = <<Task(o, c, "")>> \o (Tail(tasks) \o q)

LEMMA LoadNums ==
  ASSUME NEW C, Contexts = C, Typed, Core, NEW c, c = Running, NEW h, h = Head(tasks).op, tasks # <<>>,
         h \in LoaderOps, NEW o, NEW q \in Seq(WaitOf(C)), LoadTasks(c, o, q)
  PROVE  /\ \A D, K : Num(tasks', D, K) + If1(c \in D /\ h \in K)
                        = Num(tasks, D, K) + If1(c \in D /\ o \in K /\ o # "none") + Num(q, D, K)
         /\ EndsFirst'
<1>1. PICK r : r = Tail(tasks)
  OBVIOUS
<1>2. tasks \in Seq(TaskOf(C)) /\ r \in Seq(TaskOf(C)) /\ c \in C /\ h \notin EndingOps
  BY <1>1, HeadType, LoaderKinds DEF Typed, Types, TypesOf
<1>3. q \in Seq(TaskOf(C)) /\ NoEnds(q)
  <2>1. WaitOf(C) \subseteq TaskOf(C)
    BY WaitIn
  <2>2. q \in Seq(TaskOf(C))
    <3>1. PICK m \in Nat : q \in [1..m -> WaitOf(C)]
      BY SeqDef
    <3>2. q \in [1..m -> TaskOf(C)]
      BY <2>1, <3>1
    <3>3. QED
      BY <3>2, SeqDef
  <2>3. \A i \in DOMAIN q : q[i] \in WaitOf(C)
    BY ElementOfSeq, LenProperties
  <2>4. \A i \in DOMAIN q : q[i].op \notin EndingOps
    BY <2>3 DEF WaitOf, Resumptions, EndingOps, RepeatedOps
  <2>5. QED
    BY <2>2, <2>4 DEF NoEnds
<1>4. NoEnds(r)
  BY <1>1, <1>2, NoneEnds DEF Core
<1>5. PICK u : u = r \o q
  OBVIOUS
<1>6. u \in Seq(TaskOf(C)) /\ NoEnds(u)
  BY <1>2, <1>3, <1>4, <1>5, ConcatProperties, NoEndsConcat
<1>7. ASSUME NEW D, NEW K
      PROVE  /\ Num(tasks, D, K) = If1(c \in D /\ h \in K) + Num(r, D, K)
             /\ Num(u, D, K) = Num(r, D, K) + Num(q, D, K)
             /\ Num(r, D, K) \in Nat /\ Num(q, D, K) \in Nat
             /\ If1(c \in D /\ h \in K) \in Nat
  <2>1. Num(tasks, D, K) = (IF Running \in D /\ Head(tasks).op \in K THEN 1 ELSE 0) + Num(Tail(tasks), D, K)
    BY <1>2, TaskNums
  <2>2. Num(r, D, K) \in Nat /\ Num(q, D, K) \in Nat
    BY <1>2, <1>3, NumPlaces
  <2>3. Num(u, D, K) = Num(r, D, K) + Num(q, D, K)
    BY <1>2, <1>3, <1>5, NumConcat
  <2>4. QED
    BY <1>1, <2>1, <2>2, <2>3 DEF If1
<1>8. CASE o = "none" /\ tasks' = u
  <2>1. ASSUME NEW D, NEW K
        PROVE  Num(tasks', D, K) + If1(c \in D /\ h \in K)
                 = Num(tasks, D, K) + If1(c \in D /\ o \in K /\ o # "none") + Num(q, D, K)
    <3>1. If1(c \in D /\ o \in K /\ o # "none") = 0
      BY <1>8 DEF If1
    <3>2. QED
      BY <1>7, <1>8, <3>1
  <2>2. EndsFirst'
    BY <1>6, <1>8, NoEndsFirst
  <2>3. QED
    BY <2>1, <2>2
<1>9. CASE o \in AfterLoads /\ tasks' = <<Task(o, c, "")>> \o u
  <2>1. PICK x : x = Task(o, c, "")
    OBVIOUS
  <2>2. o \in Ops /\ o \notin EndingOps /\ o # "none"
    BY <1>9 DEF AfterLoads, Ops, EndingOps, RepeatedOps
  <2>3. x \in TaskOf(C) /\ x.op = o /\ x.c = c
    BY <1>2, <2>1, <2>2, OpsArgs DEF Task, TaskOf
  <2>4. PICK s : s = <<x>>
    OBVIOUS
  <2>5. s \in Seq(TaskOf(C)) /\ tasks' = s \o u
    <3>1. s \in Seq(TaskOf(C))
      BY <2>3, <2>4
    <3>2. tasks' = s \o u
      BY <1>9, <2>1, <2>4
    <3>3. QED
      BY <3>1, <3>2
  <2>6. ASSUME NEW D, NEW K
        PROVE  Num(tasks', D, K) + If1(c \in D /\ h \in K)
                 = Num(tasks, D, K) + If1(c \in D /\ o \in K /\ o # "none") + Num(q, D, K)
    <3>1. Num(s, D, K) = If1(c \in D /\ o \in K /\ o # "none")
      BY <2>2, <2>3, <2>4, NumOne DEF If1
    <3>2. Num(tasks', D, K) = Num(s, D, K) + Num(u, D, K)
      BY <1>6, <2>5, NumConcat
    <3>3. If1(c \in D /\ o \in K /\ o # "none") \in Nat
      BY DEF If1
    <3>4. QED
      BY <1>7, <3>1, <3>2, <3>3
  <2>7. NoEnds(s)
    BY <2>2, <2>3, <2>4, NoEndsOne
  <2>8. EndsFirst'
    BY <1>6, <2>5, <2>7, NoEndsConcat, NoEndsFirst
  <2>9. QED
    BY <2>6, <2>8
<1>10. QED
  BY <1>1, <1>5, <1>8, <1>9 DEF LoadTasks

\* The step of a context that loads: y is its new record.
LoadStep(C, c, h, o, q, n, w, y) ==
  /\ q \in Seq(WaitOf(C)) /\ n \in Nat /\ (w = "none" \/ w \in Resumptions)
  /\ LoadTasks(c, o, q)
  /\ o = "none" <=> (y.fetches > 0 \/ y.waits)
  /\ \A D, K : Num(budget'.waiting, D, K) + Num(q, D, K)
                 = Num(budget.waiting, D, K) + If1(c \in D /\ w \in K /\ w # "none")
  /\ loading' = [loading EXCEPT ![c] = @ + n]
  /\ ctx' = [ctx EXCEPT ![c] = y]
  /\ y.state = ctx[c].state /\ y.nested = ctx[c].nested /\ y.repeated = ctx[c].repeated
  /\ y.successors = ctx[c].successors /\ y.preds = Waiting(y)
  /\ y.fetches = ctx[c].fetches + n - If1(h \in LoadOps)
  /\ budget'.loads = budget.loads + n - If1(h \in LoadOps)
  /\ budget'.loads <= MaxLoads
  /\ Waiting(y) + If1(h \in Resumptions) = Waiting(ctx[c]) + If1(w # "none")
  /\ y.next >= 0 /\ y.revalidate >= 0
  /\ y.waits /\ ~(y.revalidate > 0) =>
       y.revalidate = ctx[c].revalidate /\ w # "ResumeRevalidateInputs"
  /\ budget'.waiting # <<>> =>
       \/ budget'.loads >= MaxLoads
       \/ /\ budget.waiting # <<>>
          /\ n + Num(q, C, Resumptions) >= If1(h \in LoadOps) + If1(h \in Resumptions)

LEMMA LoadStepKeeps ==
  ASSUME NEW C, Contexts = C, Typed, Typed', Frame, Core, NEW c, c = Running, NEW h,
         h = Head(tasks).op, tasks # <<>>, h \in LoaderOps, NEW o, NEW q, NEW n, NEW w, NEW y,
         LoadStep(C, c, h, o, q, n, w, y), UNCHANGED <<asked, primary, drv, html>>
  PROVE  Core'
<1>1. c \in C /\ Loader(c, h) /\ q \in Seq(WaitOf(C)) /\ tasks \in Seq(TaskOf(C)) /\ ctx \in [C -> CtxType(C)]
  BY HeadLoads DEF LoadStep, Typed, Types, TypesOf
<1>2. ctx'[c] = y /\ \A d \in C : d # c => ctx'[d] = ctx[d]
  BY <1>1 DEF LoadStep
<1>3. /\ \A D, K : Num(tasks', D, K) + If1(c \in D /\ h \in K)
                     = Num(tasks, D, K) + If1(c \in D /\ o \in K /\ o # "none") + Num(q, D, K)
      /\ EndsFirst'
  <2>1. LoadTasks(c, o, q)
    BY DEF LoadStep
  <2>2. QED
    BY <1>1, <2>1, LoadNums
<1>4. (o = "none" \/ o \in AfterLoads) /\ AfterLoads \subseteq StartedOps /\ "none" \notin AfterLoads
      /\ "none" \notin Ops /\ StartedOps \subseteq ControlOps
  BY DEF LoadStep, LoadTasks, AfterLoads, StartedOps, ControlOps, Ops, LoadOps, Resumptions, NestedOps
<1>5. LoadsMoved(C, c, h, o, q, n, w)
  BY <1>2, <1>3, <1>4 DEF LoadsMoved, LoadStep
<1>6. LoadsInv'
  BY <1>1, <1>5, LoadsFrom DEF Core
<1>7. ASSUME NEW D, NEW K \in ControlKinds PROVE Num(q, D, K) = 0
  <2>1. \A i \in DOMAIN q : q[i] \in WaitOf(C)
    BY <1>1, ElementOfSeq, LenProperties
  <2>2. \A i \in DOMAIN q : q[i].op \in Resumptions
    BY <2>1 DEF WaitOf
  <2>3. \A i \in DOMAIN q : q[i].op \notin K
    BY <2>2, KindsApart, Kinds
  <2>4. QED
    BY <1>1, <2>3, NumPlaces
<1>8. ASSUME NEW D, NEW K PROVE Num(tasks', D, K) \in Nat /\ Num(tasks, D, K) \in Nat
  <2>1. tasks' \in Seq(TaskOf(Contexts'))
    BY DEF Typed, Types, TypesOf
  <2>2. QED
    BY <1>1, <2>1, NumPlaces
<1>9. Now(c, o)
  <2>1. ASSUME NEW K \in ControlKinds PROVE Num(tasks', {c}, K) = IF o \in K THEN 1 ELSE 0
    <3>1. /\ Num(tasks', {c}, K) + If1(c \in {c} /\ h \in K)
               = Num(tasks, {c}, K) + If1(c \in {c} /\ o \in K /\ o # "none") + Num(q, {c}, K)
          /\ Num(q, {c}, K) = 0 /\ Num(tasks, {c}, K) = (IF h \in K THEN 1 ELSE 0)
          /\ Num(tasks', {c}, K) \in Nat
      BY <1>1, <1>3, <1>7, <1>8 DEF Loader
    <3>2. o \in K => o # "none"
      BY <1>4, KindsApart DEF ControlOps
    <3>3. QED
      BY <3>1, <3>2 DEF If1
  <2>2. QED
    BY <2>1 DEF Now
<1>10. ASSUME NEW d \in C \ {c} PROVE SameTasks(d)
  <2>1. ASSUME NEW K \in ControlKinds PROVE Num(tasks', {d}, K) = Num(tasks, {d}, K)
    <3>1. /\ Num(tasks', {d}, K) + If1(c \in {d} /\ h \in K)
               = Num(tasks, {d}, K) + If1(c \in {d} /\ o \in K /\ o # "none") + Num(q, {d}, K)
          /\ Num(q, {d}, K) = 0 /\ Num(tasks', {d}, K) \in Nat /\ Num(tasks, {d}, K) \in Nat
      BY <1>3, <1>7, <1>8
    <3>2. If1(c \in {d} /\ h \in K) = 0 /\ If1(c \in {d} /\ o \in K /\ o # "none") = 0
      BY <1>10 DEF If1
    <3>3. QED
      BY <3>1, <3>2
  <2>2. QED
    BY <2>1 DEF SameTasks
<1>11. OneContinuation' /\ LinksInv' /\ NestedInv' /\ WindowsInv' /\ PrimaryInv'
  <2>1. \/ o = "none" /\ (ctx'[c].fetches > 0 \/ ctx'[c].waits)
        \/ o \in StartedOps /\ ~(ctx'[c].fetches > 0 \/ ctx'[c].waits)
    BY <1>2, <1>4 DEF LoadStep
  <2>2. /\ ctx'[c].state = ctx[c].state /\ ctx'[c].nested = ctx[c].nested
        /\ ctx'[c].repeated = ctx[c].repeated /\ ctx'[c].successors = ctx[c].successors
        /\ ctx'[c].preds = Waiting(ctx'[c]) /\ \A d \in C \ {c} : ctx'[d] = ctx[d]
    BY <1>2 DEF LoadStep
  <2>3. QED
    BY <1>1, <1>9, <1>10, <2>1, <2>2, LoadKeeps
<1>12. QED
  BY <1>3, <1>6, <1>11 DEF Core

\* The context y that a load or a try to load of n inputs leaves of c.
Goes(c, h, n, y) ==
  /\ y.state = ctx[c].state /\ y.nested = ctx[c].nested /\ y.repeated = ctx[c].repeated
  /\ y.successors = ctx[c].successors /\ y.preds = Waiting(y)
  /\ y.fetches = ctx[c].fetches + n - If1(h \in LoadOps)
  /\ y.next >= 0 /\ y.revalidate >= 0
  /\ ctx' = [ctx EXCEPT ![c] = y]

\* The context goes on with o, or with nothing yet.
Onward(c, o) ==
  \/ o = "none" /\ tasks' = Tail(tasks)
  \/ o \in AfterLoads /\ tasks' = <<Task(o, c, "")>> \o Tail(tasks)

LEMMA NothingQueued ==
  ASSUME NEW C, NEW q, q = <<>>
  PROVE  q \in Seq(WaitOf(C)) /\ \A D, K : Num(q, D, K) = 0
<1>1. DOMAIN q = {}
  OBVIOUS
<1>2. ASSUME NEW D, NEW K PROVE Num(q, D, K) = 0
  <2>1. {i \in DOMAIN q : q[i].c \in D /\ q[i].op \in K} = {}
    BY <1>1
  <2>2. QED
    BY <2>1, FS_EmptySet DEF Num
<1>3. q \in Seq(WaitOf(C))
  OBVIOUS
<1>4. QED
  BY <1>2, <1>3

\* No load starts, and the turn or the place that was freed is passed on.
LEMMA PassedOn ==
  ASSUME NEW C, Contexts = C, Typed, Typed', Frame, Core, NEW c, c = Running, NEW h,
         h = Head(tasks).op, tasks # <<>>, h \in LoaderOps, NEW o, NEW q, NEW y, NEW b, NEW p,
         Popped(C, b, Tail(tasks), p, q), b.waiting = budget.waiting,
         b.loads = budget.loads - If1(h \in LoadOps),
         budget' = p.budget, LoadTasks(c, o, q), o = "none" <=> (y.fetches > 0 \/ y.waits),
         UNCHANGED loading, Goes(c, h, 0, y), Waiting(y) + If1(h \in Resumptions) = Waiting(ctx[c]),
         y.waits => y.revalidate = ctx[c].revalidate,
         UNCHANGED <<asked, primary, drv, html>>
  PROVE  Core'
<1>1. PICK n, w : n = 0 /\ w = "none"
  OBVIOUS
<1>2. /\ budget.loads \in Int /\ budget.loads <= MaxLoads /\ MaxLoads \in Int /\ loading \in [C -> Int]
      /\ c \in C /\ budget.waiting \in Seq(WaitOf(C)) /\ ctx \in [C -> CtxType(C)]
  <2>1. budget \in BudgetOf(C) /\ loading \in [C -> Int] /\ ctx \in [C -> CtxType(C)]
    BY DEF Typed, Types, TypesOf
  <2>2. c \in C
    BY HeadLoads
  <2>3. budget.loads \in Int /\ budget.waiting \in Seq(WaitOf(C))
    BY <2>1 DEF BudgetOf
  <2>4. budget.loads <= MaxLoads /\ MaxLoads \in Int
    BY LimitsAssumption DEF Core, LoadsInv
  <2>5. QED
    BY <2>1, <2>2, <2>3, <2>4
<1>3. q \in Seq(WaitOf(C)) /\ budget'.loads = b.loads
  BY DEF Popped
<1>4. loading' = [loading EXCEPT ![c] = @ + n]
  BY <1>1, <1>2
<1>5. ASSUME NEW D, NEW K
      PROVE  Num(budget'.waiting, D, K) + Num(q, D, K)
               = Num(budget.waiting, D, K) + If1(c \in D /\ w \in K /\ w # "none")
  <2>1. Num(budget'.waiting, D, K) + Num(q, D, K) = Num(budget.waiting, D, K)
    BY DEF Popped
  <2>2. If1(c \in D /\ w \in K /\ w # "none") = 0 /\ Num(budget.waiting, D, K) \in Nat
    BY <1>1, <1>2, NumPlaces DEF If1
  <2>3. QED
    BY <2>1, <2>2
<1>6. PICK a, r, e, l, m, k : /\ a = If1(h \in LoadOps) /\ r = If1(h \in Resumptions)
                              /\ e = budget.loads /\ l = budget'.loads /\ m = MaxLoads
                              /\ k = Num(q, C, Resumptions)
  OBVIOUS
<1>7. a \in {0, 1} /\ r \in {0, 1} /\ a + r <= 1 /\ e \in Int /\ e <= m /\ m \in Int /\ l = e - a
  BY <1>2, <1>3, <1>6, LoaderKinds DEF If1
<1>8. l = e + 0 - a /\ l <= m
  BY <1>7
<1>9. budget'.loads = budget.loads + n - If1(h \in LoadOps) /\ budget'.loads <= MaxLoads
  BY <1>1, <1>6, <1>8
<1>10. budget'.waiting # <<>> =>
         \/ budget'.loads >= MaxLoads
         \/ /\ budget.waiting # <<>>
            /\ n + Num(q, C, Resumptions) >= If1(h \in LoadOps) + If1(h \in Resumptions)
  <2>1. budget'.waiting # <<>> => l >= m \/ (budget.waiting # <<>> /\ k = 1)
    BY <1>3, <1>6 DEF Popped
  <2>2. k = 1 => 0 + k >= a + r
    BY <1>7
  <2>3. QED
    BY <1>1, <1>6, <2>1, <2>2
<1>11. Waiting(y) + If1(h \in Resumptions) = Waiting(ctx[c]) + If1(w # "none")
  BY <1>1, <1>2 DEF If1, Waiting
<1>12. y.waits /\ ~(y.revalidate > 0) => y.revalidate = ctx[c].revalidate /\ w # "ResumeRevalidateInputs"
  BY <1>1
<1>13. /\ y.state = ctx[c].state /\ y.nested = ctx[c].nested /\ y.repeated = ctx[c].repeated
       /\ y.successors = ctx[c].successors /\ y.preds = Waiting(y)
       /\ y.fetches = ctx[c].fetches + n - If1(h \in LoadOps)
       /\ y.next >= 0 /\ y.revalidate >= 0
       /\ ctx' = [ctx EXCEPT ![c] = y]
  BY <1>1 DEF Goes
<1>14. n \in Nat
  BY <1>1
<1>15. LoadStep(C, c, h, o, q, n, w, y)
  BY <1>1, <1>3, <1>4, <1>5, <1>9, <1>10, <1>11, <1>12, <1>13, <1>14 DEF LoadStep
<1>16. QED
  BY <1>15, LoadStepKeeps

\* The n loads that are left start, and there is room for them.
LEMMA AllLoaded ==
  ASSUME NEW C, Contexts = C, Typed, Typed', Frame, Core, NEW c, c = Running, NEW h,
         h = Head(tasks).op, tasks # <<>>, h \in LoaderOps, h \notin LoadOps, NEW n \in Nat, NEW y,
         n <= Room, n >= If1(h \in Resumptions), StartLoads(c, n), NEW o,
         Onward(c, o),
         o = "none" <=> (y.fetches > 0 \/ y.waits), ~y.waits, Goes(c, h, n, y), Waiting(y) + If1(h \in Resumptions) = Waiting(ctx[c]),
         UNCHANGED <<asked, primary, drv, html>>
  PROVE  Core'
<1>1. PICK w, q : w = "none" /\ q = <<>>
  OBVIOUS
<1>2. /\ budget \in BudgetOf(C) /\ budget.loads \in Int /\ MaxLoads \in Int
      /\ c \in C /\ budget.waiting \in Seq(WaitOf(C)) /\ ctx \in [C -> CtxType(C)]
      /\ Tail(tasks) \in Seq(TaskOf(C))
      /\ DOMAIN budget = {"contexts", "loads", "bytes", "entries", "waiting"}
  <2>1. budget \in BudgetOf(C) /\ tasks \in Seq(TaskOf(C)) /\ ctx \in [C -> CtxType(C)]
    BY DEF Typed, Types, TypesOf
  <2>2. c \in C
    BY HeadLoads
  <2>3. /\ budget.loads \in Int /\ budget.waiting \in Seq(WaitOf(C))
        /\ DOMAIN budget = {"contexts", "loads", "bytes", "entries", "waiting"}
    BY <2>1 DEF BudgetOf
  <2>4. Tail(tasks) \in Seq(TaskOf(C)) /\ MaxLoads \in Int
    BY <2>1, HeadType, LimitsAssumption
  <2>5. QED
    BY <2>1, <2>2, <2>3, <2>4
<1>3. q \in Seq(WaitOf(C)) /\ \A D, K : Num(q, D, K) = 0
  BY <1>1, NothingQueued
<1>4. Tail(tasks) \o q = Tail(tasks)
  BY <1>1, <1>2
<1>5. /\ budget'.waiting = budget.waiting /\ budget'.loads = budget.loads + n
      /\ loading' = [loading EXCEPT ![c] = @ + n]
  BY <1>2 DEF StartLoads
<1>6. ASSUME NEW D, NEW K
      PROVE  Num(budget'.waiting, D, K) + Num(q, D, K)
               = Num(budget.waiting, D, K) + If1(c \in D /\ w \in K /\ w # "none")
  <2>1. Num(q, D, K) = 0 /\ Num(budget.waiting, D, K) \in Nat
        /\ If1(c \in D /\ w \in K /\ w # "none") = 0
    BY <1>1, <1>2, <1>3, NumPlaces DEF If1
  <2>2. QED
    BY <1>5, <2>1
<1>7. PICK r, e, l, m, k : /\ r = If1(h \in Resumptions) /\ k = Num(q, C, Resumptions)
                           /\ e = budget.loads /\ l = budget'.loads /\ m = MaxLoads
  OBVIOUS
<1>8. r \in {0, 1} /\ e \in Int /\ m \in Int /\ l = e + n /\ n <= m - e /\ k = 0 /\ n >= r
      /\ If1(h \in LoadOps) = 0
  BY <1>2, <1>3, <1>5, <1>7 DEF If1, Room
<1>9. l = e + n - 0 /\ l <= m /\ n + k >= 0 + r
  BY <1>8
<1>10. /\ budget'.loads = budget.loads + n - If1(h \in LoadOps) /\ budget'.loads <= MaxLoads
       /\ n + Num(q, C, Resumptions) >= If1(h \in LoadOps) + If1(h \in Resumptions)
  BY <1>7, <1>8, <1>9
<1>11. Waiting(y) + If1(h \in Resumptions) = Waiting(ctx[c]) + If1(w # "none")
  BY <1>1, <1>2 DEF If1, Waiting
<1>12. LoadTasks(c, o, q)
  BY <1>4 DEF LoadTasks, Onward
<1>13. /\ y.state = ctx[c].state /\ y.nested = ctx[c].nested /\ y.repeated = ctx[c].repeated
       /\ y.successors = ctx[c].successors /\ y.preds = Waiting(y)
       /\ y.fetches = ctx[c].fetches + n - If1(h \in LoadOps)
       /\ y.next >= 0 /\ y.revalidate >= 0
       /\ ctx' = [ctx EXCEPT ![c] = y]
  BY DEF Goes
<1>14. LoadStep(C, c, h, o, q, n, w, y)
  BY <1>1, <1>3, <1>5, <1>6, <1>10, <1>11, <1>12, <1>13 DEF LoadStep
<1>15. QED
  BY <1>14, LoadStepKeeps

\* There is no room for all the loads: n start, and the context waits.
LEMMA LoadedAndWaits ==
  ASSUME NEW C, Contexts = C, Typed, Typed', Frame, Core, NEW c, c = Running, NEW h,
         h = Head(tasks).op, tasks # <<>>, h \in LoaderOps, h \notin LoadOps, NEW n \in Nat, NEW x, NEW y,
         n = Room, NEW w \in Resumptions, LoadAndWait(c, x, n, w),
         y = [x EXCEPT !.fetches = @ + n, !.waits = TRUE, !.preds = @ + 1],
         y.waits, Goes(c, h, n, y), Waiting(ctx[c]) = If1(h \in Resumptions),
         y.revalidate > 0 \/ (y.revalidate = ctx[c].revalidate /\ w # "ResumeRevalidateInputs"),
         UNCHANGED <<asked, primary, drv, html>>
  PROVE  Core'
<1>1. PICK o, q, v, z : o = "none" /\ q = <<>> /\ v = budget.waiting /\ z = Task(w, c, "")
  OBVIOUS
<1>2. /\ budget \in BudgetOf(C) /\ budget.loads \in Int /\ MaxLoads \in Int
      /\ c \in C /\ v \in Seq(WaitOf(C)) /\ Tail(tasks) \in Seq(TaskOf(C))
      /\ DOMAIN budget = {"contexts", "loads", "bytes", "entries", "waiting"}
  <2>1. budget \in BudgetOf(C) /\ tasks \in Seq(TaskOf(C))
    BY DEF Typed, Types, TypesOf
  <2>2. c \in C
    BY HeadLoads
  <2>3. /\ budget.loads \in Int /\ v \in Seq(WaitOf(C))
        /\ DOMAIN budget = {"contexts", "loads", "bytes", "entries", "waiting"}
    BY <1>1, <2>1 DEF BudgetOf
  <2>4. Tail(tasks) \in Seq(TaskOf(C)) /\ MaxLoads \in Int
    BY <2>1, HeadType, LimitsAssumption
  <2>5. QED
    BY <2>1, <2>2, <2>3, <2>4
<1>3. q \in Seq(WaitOf(C)) /\ \A D, K : Num(q, D, K) = 0
  BY <1>1, NothingQueued
<1>4. Tail(tasks) \o q = Tail(tasks)
  <2>1. Tail(tasks) \in Seq(TaskOf(C)) /\ q = <<>>
    BY <1>1, <1>2
  <2>2. QED
    BY <2>1
<1>5. /\ tasks' = Tail(tasks) /\ loading' = [loading EXCEPT ![c] = @ + n]
      /\ budget' = [budget EXCEPT !.loads = @ + n, !.waiting = Append(@, z)]
  BY <1>1 DEF LoadAndWait
<1>6. budget'.loads = budget.loads + n /\ budget'.waiting = Append(v, z)
  BY <1>1, <1>2, <1>5
<1>7. z \in WaitOf(C) /\ z.c = c /\ z.op = w /\ w # "none"
  BY <1>1, <1>2, WaitIn DEF Task, Resumptions, WaitOf
<1>8. ASSUME NEW D, NEW K
      PROVE  Num(budget'.waiting, D, K) + Num(q, D, K)
               = Num(budget.waiting, D, K) + If1(c \in D /\ w \in K /\ w # "none")
  <2>1. Num(Append(v, z), D, K) = Num(v, D, K) + (IF z.c \in D /\ z.op \in K THEN 1 ELSE 0)
    BY <1>2, <1>7, NumAppend
  <2>2. Num(q, D, K) = 0 /\ Num(v, D, K) \in Nat
    BY <1>2, <1>3, NumPlaces
  <2>3. If1(c \in D /\ w \in K /\ w # "none") = IF z.c \in D /\ z.op \in K THEN 1 ELSE 0
    BY <1>7 DEF If1
  <2>4. PICK i, j, k : i = Num(Append(v, z), D, K) /\ j = Num(v, D, K)
                       /\ k = If1(c \in D /\ w \in K /\ w # "none")
    OBVIOUS
  <2>5. i = j + k /\ j \in Nat /\ k \in Nat
    BY <2>1, <2>2, <2>3, <2>4
  <2>6. i + 0 = j + k
    BY <2>5
  <2>7. Num(budget'.waiting, D, K) = i /\ Num(budget.waiting, D, K) = j /\ Num(q, D, K) = 0
    BY <1>1, <1>6, <2>2, <2>4
  <2>8. QED
    BY <2>4, <2>6, <2>7
<1>9. PICK e, l, m : e = budget.loads /\ l = budget'.loads /\ m = MaxLoads
  OBVIOUS
<1>10. e \in Int /\ m \in Int /\ l = e + n /\ n = m - e /\ If1(h \in LoadOps) = 0
  BY <1>2, <1>6, <1>9 DEF If1, Room
<1>11. l = e + n - 0 /\ l <= m /\ l >= m
  BY <1>10
<1>12. /\ budget'.loads = budget.loads + n - If1(h \in LoadOps) /\ budget'.loads <= MaxLoads
       /\ budget'.loads >= MaxLoads
  BY <1>9, <1>10, <1>11
<1>13. Waiting(y) + If1(h \in Resumptions) = Waiting(ctx[c]) + If1(w # "none")
  <2>1. Waiting(y) = 1 /\ If1(w # "none") = 1 /\ If1(h \in Resumptions) \in {0, 1}
    BY <1>7 DEF If1, Waiting
  <2>2. QED
    BY <2>1
<1>14. LoadTasks(c, o, q)
  BY <1>1, <1>4, <1>5 DEF LoadTasks
<1>15. /\ y.state = ctx[c].state /\ y.nested = ctx[c].nested /\ y.repeated = ctx[c].repeated
       /\ y.successors = ctx[c].successors /\ y.preds = Waiting(y)
       /\ y.fetches = ctx[c].fetches + n - If1(h \in LoadOps)
       /\ y.next >= 0 /\ y.revalidate >= 0
       /\ ctx' = [ctx EXCEPT ![c] = y]
  BY DEF Goes
<1>16. o = "none" <=> (y.fetches > 0 \/ y.waits)
  BY <1>1
<1>17. LoadStep(C, c, h, o, q, n, w, y)
  BY <1>3, <1>5, <1>8, <1>12, <1>13, <1>14, <1>15, <1>16 DEF LoadStep
<1>18. QED
  BY <1>17, LoadStepKeeps

\* A context as a try to load finds it.
Fresh(c, x) ==
  /\ DOMAIN x = CtxFields /\ x.fetches = ctx[c].fetches /\ x.waits = FALSE /\ x.preds = 0
  /\ x.state = ctx[c].state /\ x.nested = ctx[c].nested /\ x.repeated = ctx[c].repeated
  /\ x.successors = ctx[c].successors /\ x.next = ctx[c].next /\ x.revalidate = ctx[c].revalidate
  /\ x.inputs = ctx[c].inputs

LEMMA ResumedIs ==
  ASSUME Records, NEW c \in Contexts, NEW h, h = Head(tasks).op, Loader(c, h), NEW v \in Resumptions,
         h = v \/ h \in {"FetchInputs", "RevalidateInputs"}, NEW x, x = Resumed(c, v)
  PROVE  Fresh(c, x) /\ Waiting(ctx[c]) = If1(h \in Resumptions)
<1>1. DOMAIN ctx[c] = CtxFields
  BY DEF Records
<1>2. CASE h = v
  <2>1. ctx[c].waits /\ ctx[c].preds = 1 /\ Waiting(ctx[c]) = 1
    BY <1>2 DEF Loader, Waiting
  <2>2. x = [ctx[c] EXCEPT !.waits = FALSE, !.preds = @ - 1]
    BY <1>2 DEF Resumed
  <2>3. QED
    BY <1>1, <1>2, <2>1, <2>2 DEF Fresh, If1, CtxFields
<1>3. CASE h # v
  <2>1. h \in {"FetchInputs", "RevalidateInputs"} /\ h \notin Resumptions
    BY <1>3, LoaderKinds
  <2>2. ctx[c].waits = FALSE /\ ctx[c].preds = 0 /\ Waiting(ctx[c]) = 0
    BY <2>1 DEF Loader, Waiting
  <2>3. x = ctx[c]
    BY <1>3 DEF Resumed
  <2>4. QED
    BY <1>1, <2>1, <2>2, <2>3 DEF Fresh, If1
<1>4. QED
  BY <1>2, <1>3

LEMMA TurnPasses ==
  ASSUME NEW C, Contexts = C, Typed, tasks # <<>>
  PROVE  \E q : Popped(C, budget, Tail(tasks), PassTurn, q)
<1>1. budget \in BudgetOf(C) /\ Tail(tasks) \in Seq(TaskOf(C))
  BY HeadType DEF Typed, Types, TypesOf
<1>2. QED
  BY <1>1, PopOf DEF PassTurn

\* What a try to load is about to do.
LEMMA TryFacts ==
  ASSUME Typed, Core, NEW c, c = Running, NEW h, h = Head(tasks).op, tasks # <<>>, NEW v \in Resumptions,
         (h = v \/ h \in {"FetchInputs", "RevalidateInputs"}), NEW x, x = Resumed(c, v)
  PROVE  /\ h \in LoaderOps /\ h \notin LoadOps /\ c \in Contexts /\ Loader(c, h) /\ Fresh(c, x)
         /\ Waiting(ctx[c]) = If1(h \in Resumptions) /\ If1(h \in LoadOps) = 0
         /\ x.fetches \in Nat /\ x.next \in Nat /\ x.revalidate \in Nat /\ x.inputs \in Nat
         /\ Room \in Nat /\ If1(h \in Resumptions) \in {0, 1}
<1>1. h \in LoaderOps /\ h \notin LoadOps /\ If1(h \in LoadOps) = 0
  BY LoaderKinds DEF LoaderOps, If1
<1>2. c \in Contexts /\ Loader(c, h)
  BY <1>1, HeadLoads
<1>3. Fresh(c, x) /\ Waiting(ctx[c]) = If1(h \in Resumptions)
  <2>1. Records
    BY DEF Typed, FlushInv
  <2>2. QED
    BY <1>2, <2>1, ResumedIs
<1>4. x.fetches \in Nat /\ x.next \in Nat /\ x.revalidate \in Nat
  BY <1>2, <1>3 DEF Loader, Fresh
<1>5. x.inputs \in Nat
  <2>1. ctx[c] \in CtxType(Contexts)
    BY <1>2 DEF Typed, Types, TypesOf
  <2>2. QED
    BY <1>3, <2>1 DEF Fresh, CtxType
<1>6. Room \in Nat
  <2>1. budget \in BudgetOf(Contexts)
    BY DEF Typed, Types, TypesOf
  <2>2. budget.loads \in Int
    BY <2>1 DEF BudgetOf
  <2>3. budget.loads <= MaxLoads /\ MaxLoads \in Nat
    BY LimitsAssumption DEF Core, LoadsInv
  <2>4. QED
    BY <2>2, <2>3 DEF Room
<1>7. QED
  BY <1>1, <1>2, <1>3, <1>4, <1>5, <1>6 DEF If1

LEMMA ReadyOr ==
  ASSUME NEW y, y.fetches \in Nat, y.waits \in BOOLEAN, y.preds = Waiting(y), NEW t, NEW c, NEW o,
         o = IF ~Ready(y) THEN "none" ELSE IF y.spent THEN "StopForPageInputBytes" ELSE "PartitionAsync"
  PROVE  o = "none" <=> (y.fetches > 0 \/ y.waits)
<1>1. Ready(y) <=> ~(y.fetches > 0 \/ y.waits)
  BY DEF Ready, Waiting
<1>2. QED
  BY <1>1

LEMMA FetchKeeps ==
  ASSUME Typed, Typed', Frame, Core, FetchInputs
  PROVE  Core'
<1>1. PICK C, c, h, x, v : /\ C = Contexts /\ c = Running /\ h = Head(tasks).op
                           /\ v = "ResumeFetchInputs" /\ x = Resumed(c, v)
  OBVIOUS
<1>2. tasks # <<>> /\ (h = v \/ h \in {"FetchInputs", "RevalidateInputs"}) /\ v \in Resumptions
      /\ UNCHANGED <<asked, primary, drv, html>>
  BY <1>1 DEF FetchInputs, AtHead, Resumptions
<1>3. /\ h \in LoaderOps /\ h \notin LoadOps /\ c \in Contexts /\ Loader(c, h) /\ Fresh(c, x)
      /\ Waiting(ctx[c]) = If1(h \in Resumptions) /\ If1(h \in LoadOps) = 0
      /\ x.fetches \in Nat /\ x.next \in Nat /\ x.revalidate \in Nat /\ x.inputs \in Nat
      /\ Room \in Nat /\ If1(h \in Resumptions) \in {0, 1}
  BY <1>1, <1>2, TryFacts
<1>4. PICK found, need, n :
          /\ found \in 0..(x.inputs - x.next)
          /\ need = x.inputs - x.next - found /\ n = Min({need, Room})
          /\ \/ /\ need = 0 \/ InputBytesSpent
                /\ Activate(c, [x EXCEPT !.spent = need > 0], PassTurn.tasks)
                /\ budget' = PassTurn.budget
                /\ UNCHANGED loading
             \/ /\ need > 0 /\ ~InputBytesSpent /\ need <= Room
                /\ StartLoads(c, n)
                /\ Activate(c, [x EXCEPT !.next = @ + found + n, !.fetches = @ + n], Tail(tasks))
             \/ /\ ~InputBytesSpent /\ need > Room
                /\ LoadAndWait(c, [x EXCEPT !.next = @ + found + n], n, v)
  BY <1>1 DEF FetchInputs
<1>5. /\ need \in Nat /\ found \in Nat /\ n \in Nat
      /\ n = (IF need <= Room THEN need ELSE Room)
  <2>1. need \in Nat /\ found \in Nat
    BY <1>3, <1>4
  <2>2. n = IF need <= Room THEN need ELSE Room
    BY <1>3, <1>4, <2>1, Min2
  <2>3. QED
    BY <1>3, <2>1, <2>2
<1>6. CASE /\ need = 0 \/ InputBytesSpent
           /\ Activate(c, [x EXCEPT !.spent = need > 0], PassTurn.tasks)
           /\ budget' = PassTurn.budget
           /\ UNCHANGED loading
  <2>1. PICK y, p, o, b : /\ y = [x EXCEPT !.spent = need > 0] /\ p = PassTurn /\ b = budget
                          /\ o = IF ~Ready(y) THEN "none"
                                 ELSE IF y.spent THEN "StopForPageInputBytes" ELSE "PartitionAsync"
    OBVIOUS
  <2>2. PICK q : Popped(C, b, Tail(tasks), p, q)
    BY <1>1, <1>2, <2>1, TurnPasses
  <2>3. /\ y.fetches = x.fetches /\ y.waits = FALSE /\ y.preds = 0 /\ y.state = ctx[c].state
        /\ y.nested = ctx[c].nested /\ y.repeated = ctx[c].repeated /\ y.successors = ctx[c].successors
        /\ y.next = x.next /\ y.revalidate = x.revalidate
    BY <1>3, <2>1 DEF Fresh, CtxFields
  <2>4. Waiting(y) = 0
    BY <2>3 DEF Waiting
  <2>5. ctx' = [ctx EXCEPT ![c] = y]
    BY <1>6, <2>1 DEF Activate
  <2>6. LoadTasks(c, o, q)
    BY <1>6, <2>1, <2>2 DEF Activate, LoadTasks, AfterLoads, Popped
  <2>7. o = "none" <=> (y.fetches > 0 \/ y.waits)
    BY <1>3, <2>1, <2>3, <2>4, ReadyOr
  <2>8. x.fetches = ctx[c].fetches
    BY <1>3 DEF Fresh
  <2>9. Goes(c, h, 0, y)
    BY <1>3, <2>3, <2>4, <2>5, <2>8 DEF Goes
  <2>10. Waiting(y) + If1(h \in Resumptions) = Waiting(ctx[c])
    BY <1>3, <2>4
  <2>11. b.loads = budget.loads - If1(h \in LoadOps) /\ b.waiting = budget.waiting
    <3>1. budget \in BudgetOf(Contexts)
      BY DEF Typed, Types, TypesOf
    <3>2. budget.loads \in Int
      BY <3>1 DEF BudgetOf
    <3>3. QED
      BY <1>3, <2>1, <3>2
  <2>12. budget' = p.budget /\ UNCHANGED loading
    BY <1>6, <2>1
  <2>13. QED
    BY <1>1, <1>2, <1>3, <2>2, <2>3, <2>6, <2>7, <2>9, <2>10, <2>11, <2>12, PassedOn
<1>7. CASE /\ need > 0 /\ ~InputBytesSpent /\ need <= Room
           /\ StartLoads(c, n)
           /\ Activate(c, [x EXCEPT !.next = @ + found + n, !.fetches = @ + n], Tail(tasks))
  <2>1. PICK y : y = [x EXCEPT !.next = @ + found + n, !.fetches = @ + n]
    OBVIOUS
  <2>2. n > 0 /\ n = need /\ n <= Room /\ n >= If1(h \in Resumptions)
    BY <1>3, <1>5, <1>7
  <2>3. /\ y.fetches = x.fetches + n /\ y.waits = FALSE /\ y.preds = 0 /\ y.state = ctx[c].state
        /\ y.nested = ctx[c].nested /\ y.repeated = ctx[c].repeated /\ y.successors = ctx[c].successors
        /\ y.next = x.next + found + n /\ y.revalidate = x.revalidate
    BY <1>3, <2>1 DEF Fresh, CtxFields
  <2>4. Waiting(y) = 0
    BY <2>3 DEF Waiting
  <2>5. y.fetches > 0 /\ y.next >= 0 /\ y.revalidate >= 0
    BY <1>3, <1>5, <2>2, <2>3
  <2>6. ctx' = [ctx EXCEPT ![c] = y] /\ tasks' = Tail(tasks)
    <3>1. y.fetches # 0
      BY <1>3, <1>5, <2>2, <2>3
    <3>2. ~Ready(y)
      BY <3>1 DEF Ready
    <3>3. QED
      BY <1>7, <2>1, <3>2 DEF Activate
  <2>7. Goes(c, h, n, y)
    <3>1. y.fetches = ctx[c].fetches + n - If1(h \in LoadOps)
      <4>1. x.fetches = ctx[c].fetches
        BY <1>3 DEF Fresh
      <4>2. QED
        BY <1>3, <1>5, <2>3, <4>1
    <3>2. QED
      BY <2>3, <2>4, <2>5, <2>6, <3>1 DEF Goes
  <2>8. Waiting(y) + If1(h \in Resumptions) = Waiting(ctx[c])
    BY <1>3, <2>4
  <2>9. PICK o : o = "none"
    OBVIOUS
  <2>10. Onward(c, o) /\ (o = "none" <=> (y.fetches > 0 \/ y.waits)) /\ ~y.waits
    BY <2>3, <2>5, <2>6, <2>9 DEF Onward
  <2>11. QED
    BY <1>1, <1>2, <1>3, <1>5, <1>7, <2>2, <2>7, <2>8, <2>10, AllLoaded
<1>8. CASE /\ ~InputBytesSpent /\ need > Room
           /\ LoadAndWait(c, [x EXCEPT !.next = @ + found + n], n, v)
  <2>1. PICK z, y : /\ z = [x EXCEPT !.next = @ + found + n]
                    /\ y = [z EXCEPT !.fetches = @ + n, !.waits = TRUE, !.preds = @ + 1]
    OBVIOUS
  <2>2. n = Room /\ v # "ResumeRevalidateInputs"
    BY <1>1, <1>3, <1>5, <1>8
  <2>3. /\ DOMAIN z = CtxFields /\ z.fetches = x.fetches /\ z.preds = 0 /\ z.state = ctx[c].state
        /\ z.nested = ctx[c].nested /\ z.repeated = ctx[c].repeated /\ z.successors = ctx[c].successors
        /\ z.next = x.next + found + n /\ z.revalidate = ctx[c].revalidate
    BY <1>3, <2>1 DEF Fresh, CtxFields
  <2>4. /\ y.fetches = x.fetches + n /\ y.preds = 1 /\ y.state = ctx[c].state
        /\ y.nested = ctx[c].nested /\ y.repeated = ctx[c].repeated /\ y.successors = ctx[c].successors
        /\ y.next = x.next + found + n /\ y.revalidate = ctx[c].revalidate /\ y.waits = TRUE
    BY <2>1, <2>3 DEF CtxFields
  <2>5. Waiting(y) = 1
    BY <2>4 DEF Waiting
  <2>6. x.fetches = ctx[c].fetches /\ x.revalidate = ctx[c].revalidate
    BY <1>3 DEF Fresh
  <2>7. y.fetches = ctx[c].fetches + n - If1(h \in LoadOps) /\ y.next >= 0 /\ y.revalidate >= 0
    BY <1>3, <1>5, <2>4, <2>6
  <2>8. ctx' = [ctx EXCEPT ![c] = y] /\ LoadAndWait(c, z, n, v)
    BY <1>8, <2>1 DEF LoadAndWait
  <2>9. Goes(c, h, n, y)
    BY <2>4, <2>5, <2>7, <2>8 DEF Goes
  <2>10. QED
    BY <1>1, <1>2, <1>3, <1>5, <2>1, <2>2, <2>4, <2>8, <2>9, LoadedAndWaits
<1>9. QED
  BY <1>4, <1>6, <1>7, <1>8

LEMMA RevalidateKeeps ==
  ASSUME Typed, Typed', Frame, Core, RevalidateInputs
  PROVE  Core'
<1>1. PICK C, c, h, x, v, n : /\ C = Contexts /\ c = Running /\ h = Head(tasks).op
                              /\ v = "ResumeRevalidateInputs" /\ x = Resumed(c, v)
                              /\ n = Min({x.revalidate, Room})
  OBVIOUS
<1>2. tasks # <<>> /\ (h = v \/ h \in {"FetchInputs", "RevalidateInputs"}) /\ v \in Resumptions
      /\ UNCHANGED <<asked, primary, drv, html>> /\ (h = "RevalidateInputs" \/ h = v)
  BY <1>1 DEF RevalidateInputs, AtHead, Resumptions
<1>3. /\ h \in LoaderOps /\ h \notin LoadOps /\ c \in Contexts /\ Loader(c, h) /\ Fresh(c, x)
      /\ Waiting(ctx[c]) = If1(h \in Resumptions) /\ If1(h \in LoadOps) = 0
      /\ x.fetches \in Nat /\ x.next \in Nat /\ x.revalidate \in Nat /\ x.inputs \in Nat
      /\ Room \in Nat /\ If1(h \in Resumptions) \in {0, 1}
  BY <1>1, <1>2, TryFacts
<1>4. \/ /\ InputBytesSpent
         /\ FinishRevalidation(c, [x EXCEPT !.revalidate = 0, !.revalidateOk = FALSE], PassTurn.tasks)
         /\ budget' = PassTurn.budget
         /\ UNCHANGED loading
      \/ /\ ~InputBytesSpent /\ x.revalidate <= Room
         /\ StartLoads(c, n)
         /\ FinishRevalidation(c, [x EXCEPT !.revalidate = 0, !.fetches = @ + n], Tail(tasks))
      \/ /\ ~InputBytesSpent /\ x.revalidate > Room
         /\ LoadAndWait(c, [x EXCEPT !.revalidate = @ - n], n, v)
  BY <1>1 DEF RevalidateInputs
<1>5. n \in Nat /\ n = (IF x.revalidate <= Room THEN x.revalidate ELSE Room)
  <2>1. n = IF x.revalidate <= Room THEN x.revalidate ELSE Room
    BY <1>1, <1>3, Min2
  <2>2. QED
    BY <1>3, <2>1
<1>6. x.fetches = ctx[c].fetches /\ x.revalidate = ctx[c].revalidate
  BY <1>3 DEF Fresh
<1>7. CASE /\ InputBytesSpent
           /\ FinishRevalidation(c, [x EXCEPT !.revalidate = 0, !.revalidateOk = FALSE], PassTurn.tasks)
           /\ budget' = PassTurn.budget
           /\ UNCHANGED loading
  <2>1. PICK z, y, p, o, b : /\ z = [x EXCEPT !.revalidate = 0, !.revalidateOk = FALSE]
                             /\ y = [z EXCEPT !.partitions = z.fetches = 0 /\ z.revalidateOk]
                             /\ p = PassTurn /\ b = budget
                             /\ o = IF z.fetches > 0 THEN "none"
                                    ELSE IF z.revalidateOk THEN "Finalize" ELSE "OutputCacheMiss"
    OBVIOUS
  <2>2. PICK q : Popped(C, b, Tail(tasks), p, q)
    BY <1>1, <1>2, <2>1, TurnPasses
  <2>3. /\ DOMAIN z = CtxFields /\ z.fetches = x.fetches /\ z.waits = FALSE /\ z.preds = 0
        /\ z.state = ctx[c].state
        /\ z.nested = ctx[c].nested /\ z.repeated = ctx[c].repeated /\ z.successors = ctx[c].successors
        /\ z.next = x.next /\ z.revalidate = 0
    BY <1>3, <2>1 DEF Fresh, CtxFields
  <2>4. /\ y.fetches = x.fetches /\ y.waits = FALSE /\ y.preds = 0 /\ y.state = ctx[c].state
        /\ y.nested = ctx[c].nested /\ y.repeated = ctx[c].repeated /\ y.successors = ctx[c].successors
        /\ y.next = x.next /\ y.revalidate = 0
    BY <2>1, <2>3 DEF CtxFields
  <2>5. Waiting(y) = 0
    BY <2>4 DEF Waiting
  <2>6. ctx' = [ctx EXCEPT ![c] = y]
    BY <1>7, <2>1 DEF FinishRevalidation
  <2>7. LoadTasks(c, o, q)
    BY <1>7, <2>1, <2>2 DEF FinishRevalidation, LoadTasks, AfterLoads, Popped
  <2>8. o = "none" <=> (y.fetches > 0 \/ y.waits)
    BY <2>1, <2>3, <2>4
  <2>9. Goes(c, h, 0, y)
    BY <1>3, <1>6, <2>4, <2>5, <2>6 DEF Goes
  <2>10. Waiting(y) + If1(h \in Resumptions) = Waiting(ctx[c])
    BY <1>3, <2>5
  <2>11. b.loads = budget.loads - If1(h \in LoadOps) /\ b.waiting = budget.waiting
    <3>1. budget \in BudgetOf(Contexts)
      BY DEF Typed, Types, TypesOf
    <3>2. budget.loads \in Int
      BY <3>1 DEF BudgetOf
    <3>3. QED
      BY <1>3, <2>1, <3>2
  <2>12. budget' = p.budget /\ UNCHANGED loading /\ ~y.waits
    BY <1>7, <2>1, <2>4
  <2>13. QED
    BY <1>1, <1>2, <1>3, <2>2, <2>7, <2>8, <2>9, <2>10, <2>11, <2>12, PassedOn
<1>8. CASE /\ ~InputBytesSpent /\ x.revalidate <= Room
           /\ StartLoads(c, n)
           /\ FinishRevalidation(c, [x EXCEPT !.revalidate = 0, !.fetches = @ + n], Tail(tasks))
  <2>1. PICK z, y, o : /\ z = [x EXCEPT !.revalidate = 0, !.fetches = @ + n]
                       /\ y = [z EXCEPT !.partitions = z.fetches = 0 /\ z.revalidateOk]
                       /\ o = IF z.fetches > 0 THEN "none"
                              ELSE IF z.revalidateOk THEN "Finalize" ELSE "OutputCacheMiss"
    OBVIOUS
  <2>2. n <= Room /\ n >= If1(h \in Resumptions)
    <3>1. h \in Resumptions => x.revalidate > 0
      BY <1>1, <1>2, <1>3, <1>6, LoaderKinds DEF Loader
    <3>2. PICK i, j, k : i = If1(h \in Resumptions) /\ j = x.revalidate /\ k = Room
      OBVIOUS
    <3>3. n = j /\ j \in Nat /\ j <= k /\ (i = 0 \/ (i = 1 /\ j > 0)) /\ k \in Nat
      BY <1>3, <1>5, <1>8, <3>1, <3>2 DEF If1
    <3>4. n <= k /\ n >= i
      BY <3>3
    <3>5. QED
      BY <3>2, <3>4
  <2>3. /\ DOMAIN z = CtxFields /\ z.fetches = x.fetches + n /\ z.waits = FALSE /\ z.preds = 0
        /\ z.state = ctx[c].state
        /\ z.nested = ctx[c].nested /\ z.repeated = ctx[c].repeated /\ z.successors = ctx[c].successors
        /\ z.next = x.next /\ z.revalidate = 0
    BY <1>3, <2>1 DEF Fresh, CtxFields
  <2>4. /\ y.fetches = x.fetches + n /\ y.waits = FALSE /\ y.preds = 0 /\ y.state = ctx[c].state
        /\ y.nested = ctx[c].nested /\ y.repeated = ctx[c].repeated /\ y.successors = ctx[c].successors
        /\ y.next = x.next /\ y.revalidate = 0 /\ y.fetches = z.fetches
    BY <2>1, <2>3 DEF CtxFields
  <2>5. Waiting(y) = 0
    BY <2>4 DEF Waiting
  <2>6. ctx' = [ctx EXCEPT ![c] = y]
    BY <1>8, <2>1 DEF FinishRevalidation
  <2>7. Onward(c, o)
    BY <1>8, <2>1 DEF FinishRevalidation, AfterLoads, Onward
  <2>8. (o = "none" <=> (y.fetches > 0 \/ y.waits)) /\ ~y.waits
    BY <2>1, <2>4
  <2>9. Goes(c, h, n, y)
    <3>1. y.fetches = ctx[c].fetches + n - If1(h \in LoadOps) /\ y.next >= 0 /\ y.revalidate >= 0
      BY <1>3, <1>5, <1>6, <2>4
    <3>2. QED
      BY <2>4, <2>5, <2>6, <3>1 DEF Goes
  <2>10. Waiting(y) + If1(h \in Resumptions) = Waiting(ctx[c])
    BY <1>3, <2>5
  <2>11. QED
    BY <1>1, <1>2, <1>3, <1>5, <1>8, <2>2, <2>7, <2>8, <2>9, <2>10, AllLoaded
<1>9. CASE /\ ~InputBytesSpent /\ x.revalidate > Room
           /\ LoadAndWait(c, [x EXCEPT !.revalidate = @ - n], n, v)
  <2>1. PICK z, y : /\ z = [x EXCEPT !.revalidate = @ - n]
                    /\ y = [z EXCEPT !.fetches = @ + n, !.waits = TRUE, !.preds = @ + 1]
    OBVIOUS
  <2>2. n = Room /\ x.revalidate - n > 0
    BY <1>3, <1>5, <1>9
  <2>3. /\ DOMAIN z = CtxFields /\ z.fetches = x.fetches /\ z.preds = 0 /\ z.state = ctx[c].state
        /\ z.nested = ctx[c].nested /\ z.repeated = ctx[c].repeated /\ z.successors = ctx[c].successors
        /\ z.next = x.next /\ z.revalidate = x.revalidate - n
    BY <1>3, <2>1 DEF Fresh, CtxFields
  <2>4. /\ y.fetches = x.fetches + n /\ y.preds = 1 /\ y.state = ctx[c].state
        /\ y.nested = ctx[c].nested /\ y.repeated = ctx[c].repeated /\ y.successors = ctx[c].successors
        /\ y.next = x.next /\ y.revalidate = x.revalidate - n /\ y.waits = TRUE
    BY <2>1, <2>3 DEF CtxFields
  <2>5. Waiting(y) = 1
    BY <2>4 DEF Waiting
  <2>6. y.revalidate > 0
    BY <2>2, <2>4
  <2>7. y.fetches = ctx[c].fetches + n - If1(h \in LoadOps) /\ y.next >= 0 /\ y.revalidate >= 0
    BY <1>3, <1>5, <1>6, <2>2, <2>4
  <2>8. ctx' = [ctx EXCEPT ![c] = y] /\ LoadAndWait(c, z, n, v)
    BY <1>9, <2>1 DEF LoadAndWait
  <2>9. Goes(c, h, n, y)
    BY <2>4, <2>5, <2>7, <2>8 DEF Goes
  <2>10. QED
    BY <1>1, <1>2, <1>3, <1>5, <2>1, <2>2, <2>4, <2>6, <2>8, <2>9, LoadedAndWaits
<1>10. QED
  BY <1>4, <1>7, <1>8, <1>9

\* The end of a load, for the context and for the budget.
LEMMA DoneFacts ==
  ASSUME Typed, Core, NEW c, c = Running, NEW h, h = Head(tasks).op, tasks # <<>>, h \in LoadOps,
         NEW b, b = [budget EXCEPT !.loads = @ - 1, !.bytes = IF Argument = "failed" THEN @ ELSE @ + 1]
  PROVE  /\ h \in LoaderOps /\ c \in Contexts /\ Loader(c, h) /\ DOMAIN ctx[c] = CtxFields
         /\ h \notin Resumptions /\ If1(h \in LoadOps) = 1 /\ If1(h \in Resumptions) = 0
         /\ b \in BudgetOf(Contexts) /\ b.loads = budget.loads - If1(h \in LoadOps)
         /\ b.waiting = budget.waiting /\ ctx[c].fetches \in Nat /\ ctx[c].fetches > 0
         /\ ctx[c].waits \in BOOLEAN /\ ctx[c].preds = Waiting(ctx[c]) /\ Waiting(ctx[c]) \in Nat
<1>1. h \in LoaderOps /\ h \notin Resumptions /\ If1(h \in LoadOps) = 1 /\ If1(h \in Resumptions) = 0
  BY LoaderKinds DEF LoaderOps, If1
<1>2. c \in Contexts /\ Loader(c, h)
  BY <1>1, HeadLoads
<1>3. DOMAIN ctx[c] = CtxFields
  BY <1>2 DEF Typed, FlushInv, Records
<1>4. budget \in BudgetOf(Contexts)
  BY DEF Typed, Types, TypesOf
<1>5. b \in BudgetOf(Contexts) /\ b.loads = budget.loads - 1 /\ b.waiting = budget.waiting
  <2>1. budget.loads \in Int /\ budget.bytes \in Nat
    BY <1>4 DEF BudgetOf
  <2>2. PICK l, y : l = budget.loads - 1 /\ y = IF Argument = "failed" THEN budget.bytes ELSE budget.bytes + 1
    OBVIOUS
  <2>3. l \in Int /\ y \in Nat
    BY <2>1, <2>2
  <2>4. b = [budget EXCEPT !.loads = l, !.bytes = y]
    BY <2>2
  <2>5. QED
    BY <1>4, <2>2, <2>3, <2>4 DEF BudgetOf
<1>6. QED
  BY <1>1, <1>2, <1>3, <1>5 DEF Loader, Waiting

LEMMA FetchDoneKeeps ==
  ASSUME Typed, Typed', Frame, Core, ResourceFetchDone
  PROVE  Core'
<1>1. PICK C, c, h, b, p, y, o :
        /\ C = Contexts /\ c = Running /\ h = Head(tasks).op
        /\ b = [budget EXCEPT !.loads = @ - 1, !.bytes = IF Argument = "failed" THEN @ ELSE @ + 1]
        /\ p = PopWaiting(b, Tail(tasks)) /\ y = [ctx[c] EXCEPT !.fetches = @ - 1]
        /\ o = IF ~Ready(y) THEN "none"
               ELSE IF y.spent THEN "StopForPageInputBytes" ELSE "PartitionAsync"
  OBVIOUS
<1>2. tasks # <<>> /\ h \in LoadOps /\ UNCHANGED <<asked, primary, drv, html>> /\ UNCHANGED loading
  BY <1>1 DEF ResourceFetchDone, AtHead, LoadOps
<1>3. /\ h \in LoaderOps /\ c \in Contexts /\ Loader(c, h) /\ DOMAIN ctx[c] = CtxFields
      /\ h \notin Resumptions /\ If1(h \in LoadOps) = 1 /\ If1(h \in Resumptions) = 0
      /\ b \in BudgetOf(Contexts) /\ b.loads = budget.loads - If1(h \in LoadOps)
      /\ b.waiting = budget.waiting /\ ctx[c].fetches \in Nat /\ ctx[c].fetches > 0
      /\ ctx[c].waits \in BOOLEAN /\ ctx[c].preds = Waiting(ctx[c]) /\ Waiting(ctx[c]) \in Nat
  BY <1>1, <1>2, DoneFacts
<1>4. budget' = p.budget /\ Activate(c, y, p.tasks)
  BY <1>1 DEF ResourceFetchDone, InputLoadDone
<1>5. PICK q : Popped(C, b, Tail(tasks), p, q)
  <2>1. Tail(tasks) \in Seq(TaskOf(C))
    BY <1>1, <1>2, HeadType DEF Typed, Types, TypesOf
  <2>2. QED
    BY <1>1, <1>3, <2>1, PopOf
<1>6. /\ y.fetches = ctx[c].fetches - 1 /\ y.waits = ctx[c].waits /\ y.preds = ctx[c].preds
      /\ y.state = ctx[c].state
      /\ y.nested = ctx[c].nested /\ y.repeated = ctx[c].repeated /\ y.successors = ctx[c].successors
      /\ y.next = ctx[c].next /\ y.revalidate = ctx[c].revalidate
  BY <1>1, <1>3 DEF CtxFields
<1>7. Waiting(y) = Waiting(ctx[c])
  BY <1>6 DEF Waiting
<1>8. ctx' = [ctx EXCEPT ![c] = y] /\ LoadTasks(c, o, q)
  BY <1>1, <1>4, <1>5 DEF Activate, LoadTasks, AfterLoads, Popped
<1>9. y.fetches \in Nat
  BY <1>3, <1>6
<1>10. o = "none" <=> (y.fetches > 0 \/ y.waits)
  BY <1>1, <1>3, <1>6, <1>7, <1>9, ReadyOr
<1>11. Goes(c, h, 0, y)
  <2>1. y.next >= 0 /\ y.revalidate >= 0 /\ y.fetches = ctx[c].fetches + 0 - If1(h \in LoadOps)
    BY <1>3, <1>6 DEF Loader
  <2>2. QED
    BY <1>3, <1>6, <1>7, <1>8, <2>1 DEF Goes
<1>12. Waiting(y) + If1(h \in Resumptions) = Waiting(ctx[c])
  BY <1>3, <1>7
<1>13. QED
  BY <1>1, <1>2, <1>3, <1>4, <1>5, <1>6, <1>8, <1>10, <1>11, <1>12, PassedOn, ZenonT(30)

LEMMA RevalidateDoneKeeps ==
  ASSUME Typed, Typed', Frame, Core, ResourceRevalidateDone
  PROVE  Core'
<1>1. PICK C, c, h, b, p, x :
        /\ C = Contexts /\ c = Running /\ h = Head(tasks).op
        /\ b = [budget EXCEPT !.loads = @ - 1, !.bytes = IF Argument = "failed" THEN @ ELSE @ + 1]
        /\ p = PopWaiting(b, Tail(tasks))
        /\ x = [ctx[c] EXCEPT !.fetches = @ - 1, !.revalidateOk = @ /\ Argument = "same"]
  OBVIOUS
<1>2. PICK y, o :
        /\ y = IF x.waits THEN x ELSE [x EXCEPT !.partitions = x.fetches = 0 /\ x.revalidateOk]
        /\ o = IF x.waits \/ x.fetches > 0 THEN "none"
               ELSE IF x.revalidateOk THEN "Finalize" ELSE "OutputCacheMiss"
  OBVIOUS
<1>3. tasks # <<>> /\ h \in LoadOps /\ UNCHANGED <<asked, primary, drv, html>> /\ UNCHANGED loading
  BY <1>1 DEF ResourceRevalidateDone, AtHead, LoadOps
<1>4. /\ h \in LoaderOps /\ c \in Contexts /\ Loader(c, h) /\ DOMAIN ctx[c] = CtxFields
      /\ h \notin Resumptions /\ If1(h \in LoadOps) = 1 /\ If1(h \in Resumptions) = 0
      /\ b \in BudgetOf(Contexts) /\ b.loads = budget.loads - If1(h \in LoadOps)
      /\ b.waiting = budget.waiting /\ ctx[c].fetches \in Nat /\ ctx[c].fetches > 0
      /\ ctx[c].waits \in BOOLEAN /\ ctx[c].preds = Waiting(ctx[c]) /\ Waiting(ctx[c]) \in Nat
  BY <1>1, <1>3, DoneFacts
<1>5. budget' = p.budget
      /\ IF x.waits THEN ctx' = [ctx EXCEPT ![c] = x] /\ tasks' = p.tasks
                    ELSE FinishRevalidation(c, x, p.tasks)
  BY <1>1 DEF ResourceRevalidateDone, InputLoadDone
<1>6. PICK q : Popped(C, b, Tail(tasks), p, q)
  <2>1. Tail(tasks) \in Seq(TaskOf(C))
    BY <1>1, <1>3, HeadType DEF Typed, Types, TypesOf
  <2>2. QED
    BY <1>1, <1>4, <2>1, PopOf
<1>7. /\ DOMAIN x = CtxFields /\ x.fetches = ctx[c].fetches - 1 /\ x.waits = ctx[c].waits
      /\ x.preds = ctx[c].preds /\ x.state = ctx[c].state
      /\ x.nested = ctx[c].nested /\ x.repeated = ctx[c].repeated /\ x.successors = ctx[c].successors
      /\ x.next = ctx[c].next /\ x.revalidate = ctx[c].revalidate
  BY <1>1, <1>4 DEF CtxFields
<1>8. /\ y.fetches = ctx[c].fetches - 1 /\ y.waits = ctx[c].waits /\ y.preds = ctx[c].preds
      /\ y.state = ctx[c].state
      /\ y.nested = ctx[c].nested /\ y.repeated = ctx[c].repeated /\ y.successors = ctx[c].successors
      /\ y.next = ctx[c].next /\ y.revalidate = ctx[c].revalidate
  BY <1>2, <1>7 DEF CtxFields
<1>9. Waiting(y) = Waiting(ctx[c])
  BY <1>8 DEF Waiting
<1>10. ctx' = [ctx EXCEPT ![c] = y]
  BY <1>2, <1>5 DEF FinishRevalidation
<1>11. LoadTasks(c, o, q)
  <2>1. \/ o = "none" /\ tasks' = p.tasks
        \/ o \in AfterLoads /\ tasks' = <<Task(o, c, "")>> \o p.tasks
    BY <1>2, <1>5 DEF FinishRevalidation, AfterLoads
  <2>2. QED
    BY <1>6, <2>1 DEF LoadTasks, Popped
<1>12. o = "none" <=> (y.fetches > 0 \/ y.waits)
  BY <1>2, <1>7, <1>8
<1>13. Goes(c, h, 0, y)
  <2>1. y.next >= 0 /\ y.revalidate >= 0 /\ y.fetches = ctx[c].fetches + 0 - If1(h \in LoadOps)
    BY <1>4, <1>8 DEF Loader
  <2>2. QED
    BY <1>4, <1>8, <1>9, <1>10, <2>1 DEF Goes
<1>14. Waiting(y) + If1(h \in Resumptions) = Waiting(ctx[c])
  BY <1>4, <1>9
<1>15. QED
  BY <1>1, <1>3, <1>4, <1>5, <1>6, <1>8, <1>11, <1>12, <1>13, <1>14, PassedOn

LEMMA LoadDoneKeeps ==
  ASSUME Typed, Typed', Frame, Core, NEW c \in Contexts, LoadDone(c)
  PROVE  Core'
<1>1. PICK C, o, a, x, h : /\ C = Contexts /\ o \in LoadOps /\ a \in Args /\ x = Task(o, c, a)
                           /\ tasks' = Append(tasks, x) /\ h = "ResourceFetchDone"
  BY DEF LoadDone, AddRewriteTask, LoadOps, Args
<1>2. /\ loading[c] > 0 /\ loading' = [loading EXCEPT ![c] = @ - 1]
      /\ UNCHANGED <<ctx, asked, primary, budget, drv, html>>
  BY DEF LoadDone
<1>3. TypesOf(C) /\ c \in C /\ tasks \in Seq(TaskOf(C)) /\ loading \in [C -> Int]
  BY <1>1 DEF Typed, Types, TypesOf
<1>4. x \in TaskOf(C) /\ x.c = c /\ x.op = o /\ o \in Ops /\ o \notin ControlOps
      /\ o \notin Resumptions /\ o # "ResumeRevalidateInputs" /\ o \notin EndingOps
  BY <1>1, <1>3 DEF Task, TaskOf, LoadOps, Ops, ControlOps, Resumptions, EndingOps, RepeatedOps
<1>5. h \in LoadOps /\ h \in LoaderOps /\ h \notin Resumptions /\ h # "ResumeRevalidateInputs"
      /\ h \notin ControlOps
  BY <1>1 DEF LoadOps, LoaderOps, Resumptions, ControlOps
<1>6. ASSUME NEW D, NEW K
      PROVE  /\ Num(tasks, D, K) \in Nat
             /\ Num(tasks', D, K) = Num(tasks, D, K) + (IF c \in D /\ o \in K THEN 1 ELSE 0)
  BY <1>1, <1>3, <1>4, TaskNums
<1>7. ctx[c].fetches > 0 /\ ctx[c].fetches \in Nat
  <2>1. ctx[c].fetches = loading[c] + Num(tasks, {c}, LoadOps)
    BY <1>3 DEF Core, LoadsInv, LoadsOf
  <2>2. Num(tasks, {c}, LoadOps) \in Nat /\ loading[c] \in Int
    BY <1>3, <1>6
  <2>3. QED
    BY <1>2, <2>1, <2>2
<1>8. Loader(c, h)
  BY <1>5, <1>7, AwaitsLoads
<1>9. ASSUME NEW d \in C, NEW K \in ControlKinds PROVE Num(tasks', {d}, K) = Num(tasks, {d}, K)
  <2>1. o \notin K
    BY <1>4, KindsApart
  <2>2. QED
    BY <1>6, <2>1
<1>10. OneContinuation' /\ LinksInv' /\ NestedInv' /\ WindowsInv' /\ PrimaryInv'
  <2>1. PICK e : e = "none"
    OBVIOUS
  <2>2. Now(c, e)
    <3>1. ASSUME NEW K \in ControlKinds PROVE Num(tasks', {c}, K) = IF e \in K THEN 1 ELSE 0
      <4>1. Num(tasks', {c}, K) = IF h \in K THEN 1 ELSE 0
        BY <1>3, <1>8, <1>9 DEF Loader
      <4>2. h \notin K /\ e \notin K
        BY <1>5, <2>1, KindsApart DEF ControlOps, Ops
      <4>3. QED
        BY <4>1, <4>2
    <3>2. QED
      BY <3>1 DEF Now
  <2>3. \A d \in C \ {c} : SameTasks(d)
    BY <1>9 DEF SameTasks
  <2>4. e = "none" /\ (ctx'[c].fetches > 0 \/ ctx'[c].waits)
    BY <1>2, <1>7, <2>1
  <2>5. /\ \A d \in C \ {c} : ctx'[d] = ctx[d]
        /\ ctx'[c].state = ctx[c].state /\ ctx'[c].nested = ctx[c].nested
        /\ ctx'[c].repeated = ctx[c].repeated /\ ctx'[c].successors = ctx[c].successors
        /\ ctx'[c].preds = Waiting(ctx'[c])
        /\ drv'.rewrites = drv.rewrites /\ drv'.canRewrite = drv.canRewrite
    BY <1>2, <1>8 DEF Loader
  <2>6. QED
    BY <1>1, <1>2, <1>3, <1>5, <1>8, <2>2, <2>3, <2>4, <2>5, LoadKeeps
<1>11. Contexts' = Contexts
  BY LinksKept
<1>12. LoadsInv'
  <2>1. ASSUME NEW d \in C PROVE LoadsOf(d)' /\ ctx'[d].fetches <= MaxLoads
    <3>1. LoadsOf(d) /\ ctx[d].fetches <= MaxLoads
      BY <1>1 DEF Core, LoadsInv
    <3>2. /\ Num(tasks', {d}, Resumptions) = Num(tasks, {d}, Resumptions)
          /\ Num(tasks', {d}, {"ResumeRevalidateInputs"}) = Num(tasks, {d}, {"ResumeRevalidateInputs"})
          /\ Num(tasks', {d}, LoadOps) = Num(tasks, {d}, LoadOps) + (IF c = d THEN 1 ELSE 0)
          /\ Num(tasks, {d}, LoadOps) \in Nat
      BY <1>1, <1>4, <1>6
    <3>3. PICK l, m, n, k : /\ l = loading[d] /\ m = loading'[d] /\ n = Num(tasks, {d}, LoadOps)
                            /\ k = Num(tasks', {d}, LoadOps)
      OBVIOUS
    <3>4. l \in Int /\ l >= 0 /\ n \in Nat /\ k = n + (IF c = d THEN 1 ELSE 0)
          /\ m = l - (IF c = d THEN 1 ELSE 0) /\ (c = d => l > 0)
      BY <1>2, <1>3, <3>1, <3>2, <3>3 DEF LoadsOf
    <3>5. m + k = l + n /\ m >= 0
      BY <3>4
    <3>6. loading'[d] + Num(tasks', {d}, LoadOps) = loading[d] + Num(tasks, {d}, LoadOps) /\ loading'[d] >= 0
      BY <3>3, <3>5
    <3>7. QED
      BY <1>2, <3>1, <3>2, <3>6 DEF LoadsOf
  <2>2. InFlight' = InFlight
    BY <1>2, <1>11 DEF InFlight
  <2>3. NoWaiterForgotten'
    <3>1. /\ Cardinality({i \in DOMAIN tasks : tasks[i].op \in Resumptions}) = Num(tasks, C, Resumptions)
          /\ Cardinality({i \in DOMAIN tasks' : tasks'[i].op \in Resumptions}) = Num(tasks', C, Resumptions)
      <4>1. tasks \in Seq(TaskOf(C)) /\ tasks' \in Seq(TaskOf(C))
        BY <1>1, <1>11 DEF Typed, Types, TypesOf
      <4>2. QED
        BY <4>1, ResumptionsCount
    <3>2. Num(tasks', C, Resumptions) = Num(tasks, C, Resumptions)
      BY <1>4, <1>6
    <3>3. NoWaiterForgotten
      BY DEF Core, LoadsInv
    <3>4. QED
      BY <1>2, <3>1, <3>2, <3>3 DEF NoWaiterForgotten, Room
  <2>4. budget'.loads = Cardinality(InFlight') /\ budget'.loads <= MaxLoads
    BY <1>2, <2>2 DEF Core, LoadsInv
  <2>5. QED
    BY <1>1, <1>11, <2>1, <2>3, <2>4 DEF LoadsInv
<1>13. EndsFirst'
  <2>1. PICK s : s = <<x>>
    OBVIOUS
  <2>2. s \in Seq(TaskOf(C)) /\ NoEnds(s)
    BY <1>4, <2>1, NoEndsOne
  <2>3. tasks' = tasks \o s
    BY <1>1, <1>3, <1>4, <2>1
  <2>4. QED
    BY <1>1, <1>2, <1>3, <2>2, <2>3, EndsAppended DEF Core
<1>14. QED
  BY <1>10, <1>12, <1>13 DEF Core

---------------------------------------------------------------------------
(* The end of a context, for those chained to it.                           *)

LEMMA LinksApart ==
  ASSUME Typed, NEW c \in Contexts, NEW e \in Contexts, c # e, NEW d \in Contexts
  PROVE  Links(ctx, c, d) \cap Links(ctx, e, d) = {} /\ Links(ctx, c, c) = {}
<1>1. c \in Nat /\ e \in Nat /\ Contexts \subseteq Nat
  BY DEF Typed, FlushInv, Records
<1>2. c < e \/ e < c
  BY <1>1
<1>3. ~(c < c)
  BY <1>1
<1>4. Links(ctx, c, c) = {}
  BY <1>3 DEF Links
<1>5. ASSUME NEW s, s \in Links(ctx, c, d), s \in Links(ctx, e, d) PROVE FALSE
  <2>1. /\ s \in ctx[c].slots /\ s \in ctx[e].slots /\ c < d /\ e < d
        /\ c < e /\ e < d => s \notin ctx[e].slots
        /\ e < c /\ c < d => s \notin ctx[c].slots
    BY <1>5 DEF Links, Contexts
  <2>2. QED
    BY <1>2, <2>1
<1>6. QED
  BY <1>4, <1>5

\* Those chained to a context that ends have been built, and nothing goes on
\* with them yet.
LEMMA ChainedWait ==
  ASSUME Typed, Core, NEW c \in Contexts, ctx[c].state = "done", NEW d \in Successors(c)
  PROVE  /\ d \in Contexts /\ d # c /\ ctx[d].state = "built" /\ Still(d, {})
         /\ Num(tasks, {d}, ControlOps) = 0 /\ d \notin drv.rewrites
         /\ ctx[d].parent = ctx[c].parent
<1>1. d \in Contexts /\ ctx[c].successors[d] > 0 /\ ctx[c].successors[d] # 0
  <2>1. d \in Contexts /\ ctx[c].successors[d] > 0
    BY DEF Successors
  <2>2. ctx[c].successors \in [Contexts -> Nat]
    BY DEF Typed, Types, TypesOf, CtxType
  <2>3. QED
    BY <2>1, <2>2
<1>2. PICK s : s \in Links(ctx, c, d)
  <2>1. ctx[c].successors[d] \in {0, Cardinality(Links(ctx, c, d))}
    BY <1>1 DEF Core, LinksInv
  <2>2. Links(ctx, c, d) # {}
    BY <1>1, <2>1, FS_EmptySet
  <2>3. QED
    BY <2>2
<1>3. s \in OpenLinks(d) /\ s \in ctx[c].slots \cap ctx[d].slots
  BY <1>1, <1>2 DEF OpenLinks, Links
<1>4. d # c
  BY <1>2, LinksApart DEF Links, Typed, FlushInv, Records
<1>5. ctx[d].parent = ctx[c].parent /\ ctx[d].window = ctx[c].window
  BY <1>1, <1>3 DEF Typed, Types, Shapes
<1>6. ctx[d].state \notin {"started", "done", "retired"} /\ ~(Num(tasks, {d}, {"Start"}) > 0)
  BY <1>1, <1>3 DEF Core, LinksInv
<1>7. ctx[d].state \in States /\ drv.canRewrite
  <2>1. ctx[d] \in CtxType(Contexts)
    BY <1>1 DEF Typed, Types, TypesOf
  <2>2. drv.canRewrite
    BY DEF Core, WindowsInv
  <2>3. QED
    BY <2>1, <2>2 DEF CtxType
<1>8. ctx[d].state \notin {"unborn", "deleted"}
  <2>1. CASE Top(c)
    <3>1. Top(d)
      BY <1>5, <2>1 DEF Top
    <3>2. c \notin drv.rewrites
      BY DEF Core, WindowsInv
    <3>3. ctx[c].window <= html.window /\ ~(ctx[c].window = html.window /\ html.pc = "parsing")
      BY <1>7, <2>1, <3>2 DEF Core, WindowsInv
    <3>4. ctx[c].window \in Int /\ html.window \in Int
      <4>1. ctx[c] \in CtxType(Contexts) /\ html.window \in 1..NumWindows
        BY DEF Typed, Types, TypesOf
      <4>2. NumWindows \in Nat
        BY LimitsAssumption
      <4>3. QED
        BY <4>1, <4>2 DEF CtxType
    <3>5. ctx[d].state # "unborn"
      <4>1. ctx[d].state = "unborn" =>
              ctx[d].window > html.window \/ (ctx[d].window = html.window /\ html.pc = "parsing")
        BY <1>1, <3>1 DEF Core, WindowsInv
      <4>2. ~(ctx[d].window > html.window)
        BY <1>5, <3>3, <3>4
      <4>3. QED
        BY <1>5, <3>3, <4>1, <4>2
    <3>6. ctx[d].state # "deleted"
      BY <1>1, <1>3, <1>7, <3>1 DEF Core, WindowsInv
    <3>7. QED
      BY <3>5, <3>6
  <2>2. CASE ~Top(c)
    <3>1. PICK p : p = ctx[c].parent
      OBVIOUS
    <3>2. p \in Contexts /\ c \in Children(p) /\ d \in Children(p)
      BY <1>1, <1>5, <2>2, <3>1 DEF Typed, Types, Shapes, Children, Top
    <3>3. QED
      BY <3>2 DEF Core, NestedInv
  <2>3. QED
    BY <2>1, <2>2
<1>9. ctx[d].state = "built"
  BY <1>6, <1>7, <1>8 DEF States
<1>10. Still(d, {})
  <2>1. Still(d, {}) \/ Still(d, {"Start"})
    BY <1>1, <1>9 DEF Core, OneContinuation, Continuation
  <2>2. ~Still(d, {"Start"})
    <3>1. SUFFICES ASSUME Still(d, {"Start"}) PROVE FALSE
      OBVIOUS
    <3>2. Num(tasks, {d}, ControlOps) = 1 /\ Num(tasks, {d}, {"Start"}) = Num(tasks, {d}, ControlOps)
      BY <3>1 DEF Still, Holds
    <3>3. QED
      BY <1>6, <3>2
  <2>3. QED
    BY <2>1, <2>2
<1>11. d \notin drv.rewrites
  <2>1. SUFFICES ASSUME d \in drv.rewrites PROVE FALSE
    OBVIOUS
  <2>2. html.pc = "parsing" /\ ctx[d].window = html.window
    BY <2>1 DEF Typed, FlushInv, WindowInv
  <2>3. Top(d) /\ Top(c)
    BY <1>5, <2>1 DEF Core, WindowsInv, Top
  <2>4. c \in drv.rewrites
    BY <1>5, <1>7, <2>2, <2>3 DEF Core, WindowsInv
  <2>5. ctx[c].state = "built"
    BY <2>4 DEF Core, WindowsInv
  <2>6. QED
    BY <2>5
<1>12. QED
  BY <1>1, <1>4, <1>5, <1>9, <1>10, <1>11 DEF Still, Holds

\* The context c lets go of those chained to it.
Unlinked(c) ==
  /\ \A d \in Contexts : ctx'[c].successors[d] = 0
  /\ \A e \in Contexts \ {c} : ctx'[e].successors = ctx[e].successors
  /\ \A d \in Contexts : ctx'[d].preds = ctx[d].preds - ctx[c].successors[d] /\ ctx'[d].waits = ctx[d].waits

LEMMA LinksCut ==
  ASSUME NEW C, Contexts = C, Typed, Typed', Frame, LinksInv, NEW c \in C, Unlinked(c), NEW d \in C
  PROVE  /\ OpenLinks(d)' \subseteq OpenLinks(d)
         /\ ctx'[d].preds = Cardinality(OpenLinks(d)') + Waiting(ctx'[d])
         /\ Cardinality(OpenLinks(d)') \in Nat
         /\ Cardinality(OpenLinks(d)') = 0 => OpenLinks(d)' = {}
<1>1. Contexts' = C /\ \A e \in C : Links(ctx', e, d) = Links(ctx, e, d)
  BY LinksKept
<1>2. PICK F, G, A, B, L : /\ F = {e \in C : ctx[e].successors[d] # 0}
                           /\ G = {e \in C : ctx'[e].successors[d] # 0}
                           /\ A = UNION {Links(ctx, e, d) : e \in F}
                           /\ B = UNION {Links(ctx, e, d) : e \in G} /\ L = Links(ctx, c, d)
  OBVIOUS
<1>3. OpenLinks(d) = A /\ OpenLinks(d)' = B
  <2>1. OpenLinks(d) = A
    BY <1>2 DEF OpenLinks
  <2>2. OpenLinks(d)' = UNION {Links(ctx', e, d) : e \in G}
    BY <1>1, <1>2 DEF OpenLinks
  <2>3. G \subseteq C
    BY <1>2
  <2>4. UNION {Links(ctx', e, d) : e \in G} = UNION {Links(ctx, e, d) : e \in G}
    BY <1>1, <2>3
  <2>5. QED
    BY <1>2, <2>1, <2>2, <2>4
<1>4. G = F \ {c}
  <2>1. ASSUME NEW e \in C PROVE e \in G <=> e \in F /\ e # c
    <3>1. CASE e = c
      BY <1>2, <3>1 DEF Unlinked
    <3>2. CASE e # c
      BY <1>2, <3>2 DEF Unlinked
    <3>3. QED
      BY <3>1, <3>2
  <2>2. QED
    BY <1>2, <2>1
<1>5. B \subseteq A
  BY <1>2, <1>4
<1>6. IsFiniteSet(A) /\ IsFiniteSet(B)
  <2>1. A \subseteq ctx[d].slots
    BY <1>2 DEF Links
  <2>2. IsFiniteSet(ctx[d].slots)
    BY DEF Typed, Types, Shapes
  <2>3. QED
    BY <1>5, <2>1, <2>2, FS_Subset
<1>7. Cardinality(A) \in Nat /\ Cardinality(B) \in Nat /\ (Cardinality(B) = 0 => B = {})
  BY <1>6, FS_CardinalityType, FS_EmptySet
<1>8. Cardinality(B) = Cardinality(A) - ctx[c].successors[d]
  <2>1. CASE ctx[c].successors[d] = 0
    <3>1. G = F
      BY <1>2, <1>4, <2>1
    <3>2. A = B
      BY <1>2, <3>1
    <3>3. QED
      BY <1>7, <2>1, <3>2
  <2>2. CASE ctx[c].successors[d] # 0
    <3>1. ctx[c].successors[d] = Cardinality(L) /\ c \in F
      BY <1>2, <2>2 DEF LinksInv
    <3>2. L \subseteq A /\ A = B \cup L
      BY <1>2, <1>4, <3>1
    <3>3. B \cap L = {}
      <4>1. ASSUME NEW s, s \in B, s \in L PROVE FALSE
        <5>1. PICK e \in G : s \in Links(ctx, e, d)
          BY <1>2, <4>1
        <5>2. e \in C /\ e # c
          BY <1>2, <1>4, <5>1
        <5>3. QED
          BY <1>2, <4>1, <5>1, <5>2, LinksApart
      <4>2. QED
        BY <4>1
    <3>4. IsFiniteSet(L)
      BY <1>6, <3>2, FS_Subset
    <3>5. Cardinality(A) = Cardinality(B) + Cardinality(L) - Cardinality(B \cap L) /\ Cardinality(L) \in Nat
      BY <1>6, <3>2, <3>4, FS_Union, FS_CardinalityType
    <3>6. Cardinality(B \cap L) = 0
      BY <3>3, FS_EmptySet
    <3>7. PICK i, j, k, n : i = Cardinality(A) /\ j = Cardinality(B) /\ k = Cardinality(L) /\ n = Cardinality(B \cap L)
      OBVIOUS
    <3>8. i \in Nat /\ j \in Nat /\ k \in Nat /\ i = j + k - n /\ n = 0
      BY <1>7, <3>5, <3>6, <3>7
    <3>9. j = i - k
      BY <3>8
    <3>10. QED
      BY <3>1, <3>7, <3>9
  <2>3. QED
    BY <2>1, <2>2
<1>9. ctx'[d].preds = Cardinality(B) + Waiting(ctx'[d])
  <2>1. ctx[d].preds = Cardinality(A) + Waiting(ctx[d])
    BY <1>3 DEF LinksInv, Waiting
  <2>2. ctx'[d].preds = ctx[d].preds - ctx[c].successors[d] /\ Waiting(ctx'[d]) = Waiting(ctx[d])
    BY DEF Unlinked, Waiting
  <2>3. ctx[c].successors[d] \in Nat /\ Waiting(ctx[d]) \in Nat
    <3>1. ctx[c] \in CtxType(C)
      BY DEF Typed, Types, TypesOf
    <3>2. QED
      BY <3>1 DEF CtxType, Waiting
  <2>4. PICK i, j, k, w, e, f : /\ i = Cardinality(A) /\ j = Cardinality(B) /\ k = ctx[c].successors[d]
                                /\ w = Waiting(ctx[d]) /\ e = ctx[d].preds /\ f = ctx'[d].preds
    OBVIOUS
  <2>5. /\ i \in Nat /\ j \in Nat /\ k \in Nat /\ w \in Nat /\ e = i + w /\ f = e - k /\ j = i - k
    BY <1>7, <1>8, <2>1, <2>2, <2>3, <2>4
  <2>6. f = j + w
    BY <2>5
  <2>7. QED
    BY <2>2, <2>4, <2>6
<1>10. QED
  BY <1>3, <1>5, <1>7, <1>9

LEMMA UnlinkedKeeps ==
  ASSUME NEW C, Contexts = C, Typed, Typed', Frame, LinksInv, NEW c \in C, Unlinked(c),
         \A d \in C :
           ctx'[d].state \in {"started", "done", "retired"} \/ Num(tasks', {d}, {"Start"}) > 0 =>
             OpenLinks(d)' = {}
  PROVE  LinksInv'
<1>1. Contexts' = C /\ \A e, d \in C : Links(ctx', e, d) = Links(ctx, e, d)
  BY LinksKept
<1>2. ASSUME NEW d \in C, NEW e \in C PROVE ctx'[e].successors[d] \in {0, Cardinality(Links(ctx', e, d))}
  <2>1. CASE e = c
    BY <2>1 DEF Unlinked
  <2>2. CASE e # c
    BY <1>1, <2>2 DEF Unlinked, LinksInv
  <2>3. QED
    BY <2>1, <2>2
<1>3. ASSUME NEW d \in C PROVE ctx'[d].preds = Cardinality(OpenLinks(d)') + Waiting(ctx'[d])
  BY LinksCut
<1>4. QED
  BY <1>1, <1>2, <1>3 DEF LinksInv, Waiting

\* The context c has retired, and its parent p, if any, has one less.
Retired(c, p) ==
  /\ ctx'[c].state = "retired"
  /\ \A d \in Contexts \ {c} : ctx'[d].state = ctx[d].state
  /\ \A d \in Contexts :
       /\ SameLoad(d) /\ ctx'[d].next = ctx[d].next /\ ctx'[d].revalidate = ctx[d].revalidate
       /\ ctx'[d].repeated = ctx[d].repeated
       /\ ctx'[d].nested = ctx[d].nested - If1(d = p)

\* The tasks after it: the starts of U and, for q, o.
Leaves(C, U, q, o) ==
  /\ \A d \in C : \A K :
       Num(tasks', {d}, K)
         = Num(Tail(tasks), {d}, K) + If1(d \in U /\ "Start" \in K) + If1(d = q /\ o \in K)
  /\ \A D : \A K \in LoadKinds : Num(tasks', D, K) = Num(Tail(tasks), D, K)
  /\ \E s \in Seq(TaskOf(C)) : NoEnds(s) /\ tasks' = Tail(tasks) \o s

\* The parent waits for its nested contexts.
LEMMA ParentWaits ==
  ASSUME Typed, Core, NEW c \in Contexts, ctx[c].state = "done", ~Top(c), NEW p, p = ctx[c].parent
  PROVE  /\ p \in Contexts /\ p # c /\ c \in Children(p) /\ Awaits(p, "nests")
         /\ ctx[p].nested \in Nat /\ ctx[p].nested > 0
<1>1. p \in Contexts /\ c \in Children(p) /\ p # c
  <2>1. p \in Contexts /\ p < c
    BY DEF Typed, Types, Shapes, Top
  <2>2. c \in Nat
    BY DEF Typed, FlushInv, Records
  <2>3. QED
    BY <2>1, <2>2 DEF Children
<1>2. PICK S : S = {d \in Children(p) : ctx[d].state \in Live}
  OBVIOUS
<1>3. c \in S /\ IsFiniteSet(S)
  <2>1. IsFiniteSet(Children(p))
    BY <1>1, ChildrenOf
  <2>2. S \subseteq Children(p)
    BY <1>2
  <2>3. QED
    BY <1>1, <1>2, <2>1, <2>2, FS_Subset DEF Live
<1>4. ctx[p].nested = Cardinality(S)
  BY <1>1, <1>2 DEF Core, NestedInv
<1>5. Cardinality(S) \in Nat /\ Cardinality(S) # 0
  BY <1>3, FS_CardinalityType, FS_EmptySet
<1>6. ctx[p].nested \in Nat /\ ctx[p].nested > 0
  BY <1>4, <1>5
<1>7. Awaits(p, "nests")
  <2>1. Awaits(p, "nests") \/ (ctx[p].state = "started" /\ Holds(p, NestedOps, {"nests"}))
    BY <1>1, <1>6, Awaiting DEF Core
  <2>2. ~Holds(p, NestedOps, {"nests"})
    <3>1. SUFFICES ASSUME Holds(p, NestedOps, {"nests"}) PROVE FALSE
      OBVIOUS
    <3>2. Num(tasks, {p}, NestedOps) = 1
      BY <3>1 DEF Holds, NestedOps
    <3>3. ctx[c].state = "built"
      <4>1. Num(tasks, {p}, NestedOps) > 0
        BY <3>2
      <4>2. QED
        BY <1>1, <4>1 DEF Core, NestedInv
    <3>4. QED
      BY <3>3
  <2>3. QED
    BY <2>1, <2>2
<1>8. QED
  BY <1>1, <1>6, <1>7

LEMMA RetireKeeps ==
  ASSUME NEW C, Contexts = C, Typed, Typed', Frame, Core, tasks # <<>>, Head(tasks).op = "Retire",
         NEW c, c = Running, NEW p, p = ctx[c].parent, NEW U, U \subseteq Successors(c),
         \A d \in U : ctx'[d].preds = 0,
         NEW q, NEW o, Leaves(C, U, q, o), Retired(c, p), Unlinked(c), Deregister(c),
         \/ Top(c) /\ q = c /\ o = "Delete"
         \/ ~Top(c) /\ ctx[p].nested # 1 /\ q = NoContext /\ o = "none"
         \/ ~Top(c) /\ ctx[p].nested = 1 /\ q = p /\ o = "RewriteDoneImpl",
         UNCHANGED <<asked, loading, budget, html>>,
         drv'.rewrites = drv.rewrites, drv'.canRewrite = drv.canRewrite
  PROVE  Core'
<1>1. PICK r : r = Tail(tasks)
  OBVIOUS
<1>2. c \in C /\ Runs(c, "Retire")
  BY HeadRuns, Controls DEF Core
<1>3. TypesOf(C) /\ tasks \in Seq(TaskOf(C)) /\ r \in Seq(TaskOf(C)) /\ Records
  BY <1>1, HeadType DEF Typed, Types, TypesOf, FlushInv
<1>4. /\ ctx[c].state = "done" /\ ctx[c].nested = 0 /\ ~Repeating(c) /\ ctx[c].fetches = 0 /\ ~ctx[c].waits
      /\ \A k \in {"lookup", "lock", "rewrite"} : <<k, c>> \notin asked
      /\ \A K \in ControlKinds : Num(r, {c}, K) = 0
  BY <1>1, <1>2 DEF Runs
<1>5. \A d \in U : /\ d \in C /\ d # c /\ ctx[d].state = "built" /\ Still(d, {})
                   /\ Num(tasks, {d}, ControlOps) = 0 /\ d \notin drv.rewrites
                   /\ ctx[d].parent = p
  BY <1>2, <1>4, ChainedWait
<1>6. ~Top(c) => /\ p \in C /\ p # c /\ c \in Children(p) /\ Awaits(p, "nests")
                 /\ ctx[p].nested \in Nat /\ ctx[p].nested > 0 /\ p \notin U
  <2>1. SUFFICES ASSUME ~Top(c) PROVE /\ p \in C /\ p # c /\ c \in Children(p) /\ Awaits(p, "nests")
                                      /\ ctx[p].nested \in Nat /\ ctx[p].nested > 0 /\ p \notin U
    OBVIOUS
  <2>2. /\ p \in C /\ p # c /\ c \in Children(p) /\ Awaits(p, "nests")
        /\ ctx[p].nested \in Nat /\ ctx[p].nested > 0
    BY <1>2, <1>4, <2>1, ParentWaits
  <2>3. p \notin U
    BY <1>5, <2>2 DEF Awaits
  <2>4. QED
    BY <2>2, <2>3
<1>7. Top(c) => p \notin C
  BY <1>3 DEF Top, Records
<1>8. \A D, K : /\ Num(r, D, K) \in Nat /\ Num(tasks, D, K) \in Nat
                /\ Num(tasks, D, K) = (IF c \in D /\ "Retire" \in K THEN 1 ELSE 0) + Num(r, D, K)
  BY <1>1, <1>3, TaskNums
<1>9. ASSUME NEW d \in C, d # c, NEW K
      PROVE  Num(tasks', {d}, K) = Num(tasks, {d}, K) + If1(d \in U /\ "Start" \in K) + If1(d = q /\ o \in K)
  <2>1. Num(tasks', {d}, K) = Num(r, {d}, K) + If1(d \in U /\ "Start" \in K) + If1(d = q /\ o \in K)
    BY <1>1 DEF Leaves
  <2>2. Num(tasks, {d}, K) = 0 + Num(r, {d}, K) /\ Num(r, {d}, K) \in Nat
    BY <1>8, <1>9
  <2>3. QED
    BY <2>1, <2>2
<1>10. o \notin {"Start"} /\ o \notin NestedOps /\ o \notin EndingOps
  BY DEF NestedOps, EndingOps, RepeatedOps
<1>11. ASSUME NEW d \in C, d # c, d \notin U, d # p, NEW K PROVE Num(tasks', {d}, K) = Num(tasks, {d}, K)
  <2>1. d # q
    BY <1>3, <1>11 DEF Records
  <2>2. If1(d \in U /\ "Start" \in K) = 0 /\ If1(d = q /\ o \in K) = 0 /\ Num(tasks, {d}, K) \in Nat
    BY <1>8, <1>11, <2>1 DEF If1
  <2>3. QED
    BY <1>9, <1>11, <2>2
<1>12. ASSUME NEW d \in U, NEW K \in ControlKinds PROVE Num(tasks', {d}, K) = IF "Start" \in K THEN 1 ELSE 0
  <2>1. d \in C /\ d # c /\ Num(tasks, {d}, K) = 0
    BY <1>3, <1>5, NumNone, KindsApart
  <2>2. d # q
    BY <1>3, <1>6, <2>1 DEF Records
  <2>3. If1(d = q /\ o \in K) = 0 /\ If1(d \in U /\ "Start" \in K) = IF "Start" \in K THEN 1 ELSE 0
    BY <2>2 DEF If1
  <2>4. QED
    BY <1>9, <2>1, <2>3
<1>13. ASSUME NEW K \in ControlKinds PROVE Num(tasks', {c}, K) = If1(c = q /\ o \in K)
  <2>1. Num(tasks', {c}, K) = Num(r, {c}, K) + If1(c \in U /\ "Start" \in K) + If1(c = q /\ o \in K)
    BY <1>1, <1>2 DEF Leaves
  <2>2. Num(r, {c}, K) = 0 /\ If1(c \in U /\ "Start" \in K) = 0 /\ If1(c = q /\ o \in K) \in {0, 1}
    BY <1>4, <1>5 DEF If1
  <2>3. QED
    BY <2>1, <2>2
<1>14. ASSUME ~Top(c), NEW K \in ControlKinds PROVE Num(tasks', {p}, K) = If1(p = q /\ o \in K)
  <2>1. p \in C /\ p # c /\ p \notin U /\ Holds(p, {}, {"nests"})
    BY <1>6, <1>14 DEF Awaits
  <2>2. Num(tasks, {p}, ControlOps) = 0
    BY <2>1 DEF Holds
  <2>3. Num(tasks, {p}, K) = 0
    BY <1>3, <2>2, NumNone, KindsApart
  <2>4. If1(p \in U /\ "Start" \in K) = 0 /\ If1(p = q /\ o \in K) \in {0, 1}
    BY <2>1 DEF If1
  <2>5. Num(tasks', {p}, K) = Num(tasks, {p}, K) + If1(p \in U /\ "Start" \in K) + If1(p = q /\ o \in K)
    BY <1>9, <2>1
  <2>6. QED
    BY <2>3, <2>4, <2>5
<1>15. Contexts' = C /\ \A d \in C : Children(d)' = Children(d) /\ (Top(d)' <=> Top(d))
  BY LinksKept
<1>16. \A d : Repeating(d)' <=> Repeating(d)
  <2>1. /\ \A e \in Contexts : ctx'[e].repeated = ctx[e].repeated
        /\ \A e \in Contexts : ctx'[e].state = "started" <=> ctx[e].state = "started"
    BY <1>4 DEF Retired
  <2>2. QED
    BY <2>1, RepeatingKept
<1>17. \A d \in C : SameAsked(d) /\ SameLoad(d)
  BY DEF SameAsked, Retired
<1>18. \A K \in ControlKinds : "none" \notin K
  BY KindsApart DEF ControlOps, Ops
<1>19. OneContinuation'
  <2>1. ASSUME NEW d \in C, d # c, d \notin U, d # p PROVE Continuation(d)'
    <3>1. SameTasks(d)
      BY <1>11, <2>1 DEF SameTasks
    <3>2. ctx'[d].nested = ctx[d].nested - 0 /\ ctx'[d].state = ctx[d].state
      BY <2>1 DEF Retired, If1
    <3>3. ctx[d].nested \in Nat
      BY <2>1, Naturals DEF Core
    <3>4. ctx'[d].nested = ctx[d].nested
      BY <3>2, <3>3
    <3>5. QED
      BY <1>16, <1>17, <3>1, <3>2, <3>4, ContinuationKept DEF Core, OneContinuation
  <2>2. ASSUME NEW d \in U PROVE Continuation(d)'
    <3>1. Now(d, "Start")
      BY <1>12 DEF Now
    <3>2. d \in C /\ d # c /\ d # p /\ ctx[d].state = "built" /\ Still(d, {})
      BY <1>5, <1>6, <1>7
    <3>3. ctx'[d].nested = ctx[d].nested - 0 /\ ctx'[d].state = "built" /\ ctx[d].nested \in Nat
      BY <3>2, Naturals DEF Retired, If1, Core
    <3>4. ctx'[d].nested = ctx[d].nested
      BY <3>3
    <3>5. Became(d, {})
      BY <1>16, <1>17, <3>2, <3>4 DEF Still, Holds, Became, SameAsked, SameLoad
    <3>6. QED
      BY <3>1, <3>3, <3>5, Continued
  <2>3. Continuation(c)'
    <3>1. PICK e : e = IF Top(c) THEN "Delete" ELSE "none"
      OBVIOUS
    <3>2. Now(c, e)
      <4>1. ASSUME NEW K \in ControlKinds PROVE Num(tasks', {c}, K) = IF e \in K THEN 1 ELSE 0
        <5>1. (c = q /\ o \in K) <=> e \in K
          BY <1>2, <1>6, <1>18, <3>1
        <5>2. QED
          BY <1>13, <5>1 DEF If1
      <4>2. QED
        BY <4>1 DEF Now
    <3>3. c # p
      BY <1>2, <1>6, <1>7
    <3>4. ctx'[c].nested = 0 - 0
      BY <1>2, <1>4, <3>3 DEF Retired, If1
    <3>5. ctx'[c].nested = 0 /\ ctx'[c].state = "retired"
      BY <3>4 DEF Retired
    <3>6. Became(c, {})
      BY <1>2, <1>4, <1>16, <1>17, <3>5 DEF Became, SameLoad
    <3>7. e = IF Top(c)' THEN "Delete" ELSE "none"
      BY <1>2, <1>15, <3>1
    <3>8. QED
      BY <3>2, <3>5, <3>6, <3>7, Continued
  <2>4. ASSUME ~Top(c) PROVE Continuation(p)'
    <3>1. /\ p \in C /\ p # c /\ Awaits(p, "nests") /\ ctx[p].nested \in Nat /\ ctx[p].nested > 0
      BY <1>6, <2>4
    <3>2. ctx'[p].state = "started" /\ ctx'[p].nested = ctx[p].nested - 1 /\ SameAsked(p) /\ SameLoad(p)
      BY <1>17, <3>1 DEF Retired, If1, Awaits
    <3>3. PICK e : e = IF ctx[p].nested = 1 THEN "RewriteDoneImpl" ELSE "none"
      OBVIOUS
    <3>4. Now(p, e)
      <4>1. ASSUME NEW K \in ControlKinds PROVE Num(tasks', {p}, K) = IF e \in K THEN 1 ELSE 0
        <5>1. (p = q /\ o \in K) <=> e \in K
          BY <1>18, <2>4, <3>1, <3>3
        <5>2. QED
          BY <1>14, <2>4, <5>1 DEF If1
      <4>2. QED
        BY <4>1 DEF Now
    <3>5. CASE ctx[p].nested = 1
      <4>1. ctx'[p].nested = 0
        BY <3>2, <3>5
      <4>2. Became(p, {})
        BY <1>16, <3>1, <3>2, <4>1 DEF Became, Awaits, Holds, SameAsked, SameLoad
      <4>3. e \in StartedOps
        BY <3>3, <3>5, Controls
      <4>4. QED
        BY <3>2, <3>4, <4>2, <4>3, Continued
    <3>6. CASE ctx[p].nested # 1
      <4>1. ctx'[p].nested > 0
        BY <3>1, <3>2, <3>6
      <4>2. Became(p, {"nests"})
        BY <1>16, <3>1, <3>2, <4>1 DEF Became, Awaits, Holds, SameAsked, SameLoad
      <4>3. e = "none"
        BY <3>3, <3>6
      <4>4. QED
        BY <3>2, <3>4, <4>2, <4>3, Continued
    <3>7. QED
      BY <3>5, <3>6
  <2>5. ASSUME NEW d \in C PROVE Continuation(d)'
    BY <1>7, <2>1, <2>2, <2>3, <2>4
  <2>6. QED
    BY <1>15, <2>5 DEF OneContinuation
<1>20. LoadsInv'
  <2>1. ASSUME NEW D, NEW K \in LoadKinds PROVE Num(tasks', D, K) = Num(tasks, D, K)
    <3>1. "Retire" \notin K
      BY KindsApart, Controls
    <3>2. Num(tasks', D, K) = Num(r, D, K) /\ Num(tasks, D, K) = 0 + Num(r, D, K) /\ Num(r, D, K) \in Nat
      BY <1>1, <1>8, <3>1 DEF Leaves
    <3>3. QED
      BY <3>2
  <2>2. SameLoads
    BY <2>1, Kinds DEF SameLoads
  <2>3. \A d \in C : /\ SameLoad(d) /\ ctx'[d].next = ctx[d].next /\ ctx'[d].revalidate = ctx[d].revalidate
    BY DEF Retired
  <2>4. QED
    BY <2>2, <2>3, LoadsKept DEF Core
<1>21. \A d \in C : OpenLinks(d)' \subseteq OpenLinks(d)
  BY <1>2, LinksCut DEF Core
<1>22. LinksInv'
  <2>1. ASSUME NEW d \in C,
               ctx'[d].state \in {"started", "done", "retired"} \/ Num(tasks', {d}, {"Start"}) > 0
        PROVE  OpenLinks(d)' = {}
    <3>1. CASE d \in U
      <4>1. /\ ctx'[d].preds = Cardinality(OpenLinks(d)') + Waiting(ctx'[d])
            /\ Cardinality(OpenLinks(d)') \in Nat /\ (Cardinality(OpenLinks(d)') = 0 => OpenLinks(d)' = {})
        BY <1>2, <2>1, LinksCut DEF Core
      <4>2. ctx'[d].preds = 0 /\ Waiting(ctx'[d]) \in Nat
        BY <3>1 DEF Waiting
      <4>3. PICK i, j, k : i = ctx'[d].preds /\ j = Cardinality(OpenLinks(d)') /\ k = Waiting(ctx'[d])
        OBVIOUS
      <4>4. i = 0 /\ j \in Nat /\ k \in Nat /\ i = j + k
        BY <4>1, <4>2, <4>3
      <4>5. j = 0
        BY <4>4
      <4>6. QED
        BY <4>1, <4>3, <4>5
    <3>2. CASE d = c
      BY <1>2, <1>4, <1>21, <3>2 DEF Core, LinksInv
    <3>3. CASE d \notin U /\ d # c
      <4>1. Num(tasks', {d}, {"Start"}) = Num(tasks, {d}, {"Start"})
        <5>1. If1(d \in U /\ "Start" \in {"Start"}) = 0 /\ If1(d = q /\ o \in {"Start"}) = 0
          BY <1>10, <3>3 DEF If1
        <5>2. Num(tasks, {d}, {"Start"}) \in Nat
          BY <1>8
        <5>3. QED
          BY <1>9, <3>3, <5>1, <5>2
      <4>2. ctx'[d].state = ctx[d].state
        BY <3>3 DEF Retired
      <4>3. OpenLinks(d) = {}
        BY <2>1, <4>1, <4>2 DEF Core, LinksInv
      <4>4. QED
        BY <1>21, <4>3
    <3>4. QED
      BY <3>1, <3>2, <3>3
  <2>2. QED
    BY <1>2, <2>1, UnlinkedKeeps DEF Core
<1>23. NestedInv'
  <2>1. ASSUME NEW e \in C PROVE NestedAfter(e)
    <3>1. PICK A, B : /\ A = {d \in Children(e) : ctx[d].state \in Live}
                      /\ B = {d \in Children(e) : ctx'[d].state \in Live}
      OBVIOUS
    <3>2. Children(e) \subseteq C /\ IsFiniteSet(Children(e)) /\ \A d \in Children(e) : ctx[d].parent = e
      BY <2>1, ChildrenOf
    <3>3. ctx[e].nested = Cardinality(A) /\ IsFiniteSet(A) /\ Cardinality(A) \in Nat
      <4>1. ctx[e].nested = Cardinality(A)
        BY <3>1 DEF Core, NestedInv
      <4>2. A \subseteq Children(e)
        BY <3>1
      <4>3. QED
        BY <3>2, <4>1, <4>2, FS_Subset, FS_CardinalityType
    <3>4. c \in Children(e) <=> e = p
      BY <1>2, <2>1 DEF Children
    <3>5. B = A \ {c}
      <4>1. ASSUME NEW d \in Children(e) PROVE ctx'[d].state \in Live <=> ctx[d].state \in Live /\ d # c
        <5>1. CASE d = c
          BY <5>1 DEF Retired, Live
        <5>2. CASE d # c
          BY <3>2, <5>2 DEF Retired
        <5>3. QED
          BY <5>1, <5>2
      <4>2. QED
        BY <3>1, <4>1
    <3>6. ctx'[e].nested = Cardinality(B)
      <4>1. ctx'[e].nested = ctx[e].nested - If1(e = p)
        BY DEF Retired
      <4>2. CASE e = p
        <5>1. c \in A
          BY <1>4, <3>1, <3>4, <4>2 DEF Live
        <5>2. Cardinality(A \ {c}) = Cardinality(A) - 1
          BY <3>3, <5>1, FS_RemoveElement
        <5>3. QED
          BY <3>3, <3>5, <4>1, <4>2, <5>2 DEF If1
      <4>3. CASE e # p
        <5>1. c \notin A
          BY <3>1, <3>4, <4>3
        <5>2. B = A
          BY <3>5, <5>1
        <5>3. QED
          BY <3>3, <4>1, <4>3, <5>2 DEF If1
      <4>4. QED
        BY <4>2, <4>3
    <3>7. \A d \in Children(e) : /\ ctx'[d].state = "unborn" <=> ctx[d].state = "unborn"
                                 /\ ctx'[d].state = "deleted" <=> ctx[d].state = "deleted"
      BY <1>4, <3>2 DEF Retired
    <3>8. /\ ctx'[e].state \in {"unborn", "built"} <=> ctx[e].state \in {"unborn", "built"}
          /\ ctx'[e].state = "started" <=> ctx[e].state = "started"
          /\ ctx'[e].state = "deleted" <=> ctx[e].state = "deleted"
      BY <1>4 DEF Retired
    <3>9. ctx[e].state = "started" /\ (ctx[e].nested > 0 \/ Num(tasks, {e}, LastOps) > 0)
            => ctx'[e].nested > 0 \/ Num(tasks', {e}, LastOps) > 0
      <4>1. SUFFICES ASSUME ctx[e].state = "started", ctx[e].nested > 0 \/ Num(tasks, {e}, LastOps) > 0
                     PROVE  ctx'[e].nested > 0 \/ Num(tasks', {e}, LastOps) > 0
        OBVIOUS
      <4>2. e # c
        BY <1>4, <4>1
      <4>3. CASE e = p
        <5>1. ~Top(c)
          BY <1>7, <4>3
        <5>2. ctx'[e].nested = ctx[e].nested - 1 /\ ctx[p].nested \in Nat /\ ctx[p].nested > 0
          BY <1>6, <4>3, <5>1 DEF Retired, If1
        <5>3. CASE ctx[p].nested = 1
          <6>1. p = q /\ o \in LastOps
            BY <5>1, <5>3, Controls
          <6>2. Num(tasks', {p}, LastOps) = If1(p = q /\ o \in LastOps)
            BY <1>14, <5>1, Kinds
          <6>3. QED
            BY <4>3, <6>1, <6>2 DEF If1
        <5>4. CASE ctx[p].nested # 1
          BY <4>3, <5>2, <5>4
        <5>5. QED
          BY <5>3, <5>4
      <4>4. CASE e # p
        <5>1. ctx'[e].nested = ctx[e].nested
          BY <3>3, <4>4 DEF Retired, If1
        <5>2. Num(tasks', {e}, LastOps) = Num(tasks, {e}, LastOps)
          <6>1. e \notin U
            BY <1>5, <4>1
          <6>2. QED
            BY <1>11, <4>2, <4>4, <6>1
        <5>3. QED
          BY <4>1, <5>1, <5>2
      <4>5. QED
        BY <4>3, <4>4
    <3>10. ASSUME Num(tasks', {e}, NestedOps) > 0, NEW d \in Children(e)
           PROVE  ctx'[d].state = "built" /\ Num(tasks', {d}, ControlOps) = 0
      <4>1. e # c
        <5>1. SUFFICES ASSUME e = c PROVE FALSE
          OBVIOUS
        <5>2. Num(tasks', {c}, NestedOps) = If1(c = q /\ o \in NestedOps)
          BY <1>13, Kinds
        <5>3. QED
          BY <1>10, <3>10, <5>1, <5>2 DEF If1
      <4>2. Num(tasks', {e}, NestedOps) = Num(tasks, {e}, NestedOps)
        <5>1. If1(e \in U /\ "Start" \in NestedOps) = 0 /\ If1(e = q /\ o \in NestedOps) = 0
          BY <1>10 DEF If1, NestedOps
        <5>2. Num(tasks, {e}, NestedOps) \in Nat
          BY <1>8
        <5>3. QED
          BY <1>9, <4>1, <5>1, <5>2
      <4>3. ctx[d].state = "built" /\ Num(tasks, {d}, ControlOps) = 0 /\ d \in C
        BY <3>2, <3>10, <4>2 DEF Core, NestedInv
      <4>4. e # p
        <5>1. SUFFICES ASSUME e = p PROVE FALSE
          OBVIOUS
        <5>2. c \in Children(e)
          BY <3>4, <5>1
        <5>3. ctx[c].state = "built"
          BY <3>10, <4>2, <5>2 DEF Core, NestedInv
        <5>4. QED
          BY <1>4, <5>3
      <4>5. d # c /\ d \notin U
        BY <1>4, <1>5, <3>2, <4>3, <4>4
      <4>6. d # p
        <5>1. SUFFICES ASSUME d = p PROVE FALSE
          OBVIOUS
        <5>2. ~Top(c)
          BY <1>7, <4>3, <5>1
        <5>3. QED
          BY <1>6, <4>3, <5>1, <5>2 DEF Awaits
      <4>7. QED
        BY <1>11, <4>3, <4>5, <4>6 DEF Retired
    <3>11. /\ (\A d \in Children(e) : ctx[d].state = "unborn")
                \/ /\ \A d \in Children(e) : ctx[d].state # "unborn"
                   /\ ctx[e].state \notin {"unborn", "built"}
                   /\ ctx[e].state = "started" => ctx[e].nested > 0 \/ Num(tasks, {e}, LastOps) > 0
           /\ \A d \in Children(e) : ctx[d].state = "deleted" => ctx[e].state = "deleted"
           /\ ctx[e].state = "deleted" => \A d \in Children(e) : ctx[d].state \in {"unborn", "deleted"}
      BY <2>1 DEF Core, NestedInv
    <3>12. (\A d \in Children(e) : ctx'[d].state = "unborn")
             \/ /\ \A d \in Children(e) : ctx'[d].state # "unborn"
                /\ ctx'[e].state \notin {"unborn", "built"}
                /\ ctx'[e].state = "started" => ctx'[e].nested > 0 \/ Num(tasks', {e}, LastOps) > 0
      BY <3>7, <3>8, <3>9, <3>11
    <3>13. /\ \A d \in Children(e) : ctx'[d].state = "deleted" => ctx'[e].state = "deleted"
           /\ ctx'[e].state = "deleted" => \A d \in Children(e) : ctx'[d].state \in {"unborn", "deleted"}
      BY <3>7, <3>8, <3>11
    <3>14. QED
      BY <3>1, <3>6, <3>10, <3>12, <3>13 DEF NestedAfter
  <2>2. QED
    BY <2>1, NestedFrom
<1>24. WindowsInv'
  <2>1. drv.rewrites \subseteq C
    BY DEF Typed, FlushInv, WindowInv
  <2>2. ASSUME NEW d \in drv.rewrites
        PROVE  Top(d)' /\ ctx'[d].state = "built" /\ Num(tasks', {d}, ControlOps) = 0
    <3>1. Top(d) /\ ctx[d].state = "built" /\ Num(tasks, {d}, ControlOps) = 0 /\ d \in C
      BY <2>1 DEF Core, WindowsInv
    <3>2. d # c /\ d \notin U
      BY <1>4, <1>5, <3>1
    <3>3. d # p
      BY <1>6, <1>7, <3>1 DEF Awaits
    <3>4. QED
      BY <1>11, <1>15, <3>1, <3>2, <3>3 DEF Retired
  <2>3. ASSUME NEW d \in C, Top(d)
        PROVE  /\ ctx'[d].state = "unborn" =>
                    ctx'[d].window > html'.window \/ (ctx'[d].window = html'.window /\ html'.pc = "parsing")
               /\ ctx'[d].state # "unborn" =>
                    /\ ctx'[d].window <= html'.window
                    /\ drv'.canRewrite /\ ctx'[d].window = html'.window /\ html'.pc = "parsing"
                         => d \in drv'.rewrites
               /\ ctx'[d].state = "deleted" /\ drv'.canRewrite => OpenLinks(d)' = {}
    <3>1. ctx'[d].window = ctx[d].window
      BY DEF Frame, Keeps, Contexts
    <3>2. /\ ctx'[d].state = "unborn" <=> ctx[d].state = "unborn"
          /\ ctx'[d].state = "deleted" <=> ctx[d].state = "deleted"
      BY <1>4 DEF Retired
    <3>3. /\ ctx[d].state = "unborn" =>
               ctx[d].window > html.window \/ (ctx[d].window = html.window /\ html.pc = "parsing")
          /\ ctx[d].state # "unborn" =>
               /\ ctx[d].window <= html.window
               /\ drv.canRewrite /\ ctx[d].window = html.window /\ html.pc = "parsing"
                    => d \in drv.rewrites
          /\ ctx[d].state = "deleted" /\ drv.canRewrite => OpenLinks(d) = {}
      BY <2>3 DEF Core, WindowsInv
    <3>4. QED
      BY <1>21, <3>1, <3>2, <3>3
  <2>4. drv'.canRewrite
    BY <1>2, <1>4 DEF Core, WindowsInv
  <2>5. QED
    BY <1>15, <2>2, <2>3, <2>4 DEF WindowsInv
<1>25. PrimaryInv'
  <2>1. DOMAIN primary' = DOMAIN primary
        /\ \A k \in DOMAIN primary :
             primary'[k] = IF k = ctx[c].key /\ primary[k] = c THEN NoContext ELSE primary[k]
    BY DEF Deregister
  <2>2. ASSUME NEW k \in DOMAIN primary, primary'[k] # NoContext
        PROVE  ctx'[primary'[k]].key = k /\ ctx'[primary'[k]].state \in {"started", "done"}
    <3>1. PICK e : e = primary'[k]
      OBVIOUS
    <3>2. e = primary[k] /\ primary[k] # NoContext
      BY <2>1, <2>2, <3>1
    <3>3. ctx[e].key = k /\ ctx[e].state \in {"started", "done"} /\ e \in C
      BY <1>3, <3>2 DEF Core, PrimaryInv, TypesOf
    <3>4. e # c
      BY <2>1, <2>2, <3>1, <3>2, <3>3
    <3>5. ctx'[e].state = ctx[e].state /\ ctx'[e].key = ctx[e].key
      BY <3>3, <3>4 DEF Retired, Frame, Keeps, Contexts
    <3>6. QED
      BY <3>1, <3>3, <3>5
  <2>3. ASSUME NEW e \in C
        PROVE  /\ ctx'[e].state \in {"unborn", "built"} => ctx'[e].repeated = <<>>
               /\ ctx'[e].repeated # <<>> /\ ctx'[e].state = "started" => primary'[ctx'[e].key] = e
               /\ \A i, j \in DOMAIN ctx'[e].repeated :
                    ctx'[e].repeated[i] = ctx'[e].repeated[j] => i = j
               /\ \A d \in Repeats(e)' : ctx'[d].key = ctx'[e].key
    <3>1. /\ ctx'[e].repeated = ctx[e].repeated /\ ctx'[e].key = ctx[e].key
          /\ ctx'[e].state \in {"unborn", "built", "started"} => ctx[e].state = ctx'[e].state
      BY <1>4 DEF Retired, Frame, Keeps, Contexts
    <3>2. Repeats(e)' = Repeats(e) /\ Repeats(e) \subseteq C
      BY <2>3, <3>1, RepeatsIn DEF Repeats
    <3>3. \A d \in C : ctx'[d].key = ctx[d].key
      BY DEF Frame, Keeps, Contexts
    <3>4. ctx'[e].state = "started" /\ primary[ctx[e].key] = e => primary'[ctx'[e].key] = e
      <4>1. SUFFICES ASSUME ctx'[e].state = "started", primary[ctx[e].key] = e
                     PROVE  primary'[ctx'[e].key] = e
        OBVIOUS
      <4>2. e # c /\ ctx[e].key \in DOMAIN primary
        BY <1>3, <4>1 DEF Retired, TypesOf
      <4>3. QED
        BY <2>1, <3>1, <4>1, <4>2
    <3>5. /\ ctx[e].state \in {"unborn", "built"} => ctx[e].repeated = <<>>
          /\ ctx[e].repeated # <<>> /\ ctx[e].state = "started" => primary[ctx[e].key] = e
          /\ \A i, j \in DOMAIN ctx[e].repeated :
               ctx[e].repeated[i] = ctx[e].repeated[j] => i = j
          /\ \A d \in Repeats(e) : ctx[d].key = ctx[e].key
      BY <2>3 DEF Core, PrimaryInv
    <3>6. \A d \in Repeats(e)' : ctx'[d].key = ctx'[e].key
      BY <3>1, <3>2, <3>3, <3>5
    <3>7. QED
      BY <3>1, <3>4, <3>5, <3>6
  <2>4. QED
    BY <1>15, <2>1, <2>2, <2>3 DEF PrimaryInv
<1>26. EndsFirst'
  <2>1. PICK s \in Seq(TaskOf(C)) : NoEnds(s) /\ tasks' = Tail(tasks) \o s
    BY DEF Leaves
  <2>2. Num(Tail(tasks), {Running}, {"Retire"}) = 0
    BY <1>1, <1>4, Kinds
  <2>3. \A k \in DOMAIN primary : primary'[k] = primary[k] \/ primary[k] = Running
    BY DEF Deregister
  <2>4. QED
    BY <1>3, <2>1, <2>2, <2>3, EndsRetired DEF Core
<1>27. QED
  BY <1>19, <1>20, <1>22, <1>23, <1>24, <1>25, <1>26 DEF Core

LEMMA LeavesStarts ==
  ASSUME NEW C, Contexts = C, Typed, tasks # <<>>, NEW U, U \subseteq C,
         tasks' = Tail(tasks) \o StartTasks(U)
  PROVE  Leaves(C, U, NoContext, "none")
<1>1. PICK r, s : r = Tail(tasks) /\ s = StartTasks(U)
  OBVIOUS
<1>2. r \in Seq(TaskOf(C)) /\ Records /\ C \subseteq Nat \ {NoContext}
  BY <1>1, HeadType DEF Typed, Types, TypesOf, FlushInv, Records
<1>3. WithStarts(C, U, r, tasks')
  BY <1>1, <1>2, StartsNum
<1>4. ASSUME NEW d \in C, NEW K
      PROVE  Num(tasks', {d}, K) = Num(r, {d}, K) + If1(d \in U /\ "Start" \in K) + If1(d = NoContext /\ "none" \in K)
  <2>1. Num(tasks', {d}, K) = Num(r, {d}, K) + If1(d \in U /\ "Start" \in K)
    BY <1>3 DEF WithStarts, If1
  <2>2. If1(d = NoContext /\ "none" \in K) = 0 /\ If1(d \in U /\ "Start" \in K) \in Nat /\ Num(r, {d}, K) \in Nat
    BY <1>2, NumPlaces DEF If1
  <2>3. QED
    BY <2>1, <2>2
<1>5. s \in Seq(TaskOf(C)) /\ NoEnds(s) /\ tasks' = Tail(tasks) \o s
  BY <1>1, <1>3 DEF WithStarts
<1>6. QED
  BY <1>1, <1>3, <1>4, <1>5, ZenonT(30) DEF Leaves, WithStarts

LEMMA LeavesAnother ==
  ASSUME NEW C, Contexts = C, Typed, tasks # <<>>, NEW U, U \subseteq C, NEW x \in TaskOf(C),
         x.op \in ControlOps \ EndingOps,
         tasks' = (Tail(tasks) \o StartTasks(U)) \o <<x>>
  PROVE  Leaves(C, U, x.c, x.op)
<1>1. PICK r, s, t, u : r = Tail(tasks) /\ s = StartTasks(U) /\ t = r \o s /\ u = <<x>>
  OBVIOUS
<1>2. r \in Seq(TaskOf(C)) /\ Records
  BY <1>1, HeadType DEF Typed, Types, TypesOf, FlushInv
<1>3. WithStarts(C, U, r, t)
  BY <1>1, <1>2, StartsNum
<1>4. /\ t \in Seq(TaskOf(C)) /\ s \in Seq(TaskOf(C)) /\ NoEnds(s)
      /\ u \in Seq(TaskOf(C)) /\ NoEnds(u)
  <2>1. t \in Seq(TaskOf(C)) /\ s \in Seq(TaskOf(C)) /\ NoEnds(s)
    BY <1>1, <1>3 DEF WithStarts
  <2>2. u \in Seq(TaskOf(C))
    BY <1>1
  <2>3. NoEnds(u)
    BY <1>1, NoEndsOne
  <2>4. QED
    BY <2>1, <2>2, <2>3
<1>5. tasks' = t \o u
  BY <1>1
<1>6. ASSUME NEW D, NEW K
      PROVE  /\ Num(tasks', D, K) = Num(t, D, K) + (IF x.c \in D /\ x.op \in K THEN 1 ELSE 0)
             /\ Num(t, D, K) \in Nat
  <2>1. Num(t \o u, D, K) = Num(t, D, K) + Num(u, D, K) /\ Num(t, D, K) \in Nat
    BY <1>4, NumConcat, NumPlaces
  <2>2. Num(u, D, K) = IF x.c \in D /\ x.op \in K THEN 1 ELSE 0
    BY <1>1, NumOne
  <2>3. QED
    BY <1>5, <2>1, <2>2
<1>7. ASSUME NEW d \in C, NEW K
      PROVE  Num(tasks', {d}, K) = Num(r, {d}, K) + If1(d \in U /\ "Start" \in K) + If1(d = x.c /\ x.op \in K)
  <2>1. Num(t, {d}, K) = Num(r, {d}, K) + If1(d \in U /\ "Start" \in K)
    BY <1>3 DEF WithStarts, If1
  <2>2. Num(tasks', {d}, K) = Num(t, {d}, K) + If1(d = x.c /\ x.op \in K)
    BY <1>6 DEF If1
  <2>3. QED
    BY <2>1, <2>2
<1>8. ASSUME NEW D, NEW K \in LoadKinds PROVE Num(tasks', D, K) = Num(r, D, K)
  <2>1. x.op \notin K
    BY KindsApart
  <2>2. Num(t, D, K) = Num(r, D, K)
    BY <1>3 DEF WithStarts
  <2>3. QED
    BY <1>6, <2>1, <2>2
<1>9. PICK w : w = s \o u
  OBVIOUS
<1>10. w \in Seq(TaskOf(C)) /\ NoEnds(w)
  BY <1>4, <1>9, NoEndsConcat, ConcatProperties
<1>11. tasks' = Tail(tasks) \o w
  <2>1. (r \o s) \o u = r \o (s \o u)
    BY <1>2, <1>4
  <2>2. QED
    BY <1>1, <1>5, <1>9, <2>1
<1>12. \E v \in Seq(TaskOf(C)) : NoEnds(v) /\ tasks' = Tail(tasks) \o v
  BY <1>10, <1>11
<1>13. \A d \in C : \A K :
          Num(tasks', {d}, K) = Num(Tail(tasks), {d}, K) + If1(d \in U /\ "Start" \in K) + If1(d = x.c /\ x.op \in K)
  <2>1. r = Tail(tasks)
    BY <1>1
  <2>2. QED
    BY <1>7, <2>1
<1>14. \A D : \A K \in LoadKinds : Num(tasks', D, K) = Num(Tail(tasks), D, K)
  <2>1. r = Tail(tasks)
    BY <1>1
  <2>2. QED
    BY <1>8, <2>1
<1>15. QED
  BY <1>12, <1>13, <1>14 DEF Leaves

\* RunSuccessors: the contexts g it leaves.
Ran(C, c, g) ==
  /\ DOMAIN g = C /\ \A d \in C : DOMAIN g[d] = CtxFields
  /\ g[c].state = "retired"
  /\ \A d \in C \ {c} : g[d].state = ctx[d].state /\ g[d].successors = ctx[d].successors
  /\ \A d \in C : g[c].successors[d] = 0
  /\ \A d \in C : /\ g[d].preds = ctx[d].preds - ctx[c].successors[d]
                  /\ g[d].fetches = ctx[d].fetches /\ g[d].waits = ctx[d].waits
                  /\ g[d].next = ctx[d].next /\ g[d].revalidate = ctx[d].revalidate
                  /\ g[d].repeated = ctx[d].repeated /\ g[d].nested = ctx[d].nested

LEMMA SuccessorsRun ==
  ASSUME NEW C, Contexts = C, Typed, Core, NEW c \in C, NEW g, g = RunSuccessors(c)
  PROVE  Ran(C, c, g)
<1>1. \A d \in C : DOMAIN ctx[d] = CtxFields
  BY DEF Typed, FlushInv, Records
<1>2. g = [d \in C |-> IF d = c THEN [ctx[c] EXCEPT !.state = "retired", !.successors = [e \in C |-> 0]]
                                ELSE [ctx[d] EXCEPT !.preds = @ - ctx[c].successors[d]]]
  BY DEF RunSuccessors
<1>3. ctx[c].successors[c] = 0 /\ ctx[c].preds \in Int
  <2>1. ctx[c].successors[c] \in {0, Cardinality(Links(ctx, c, c))}
    BY DEF Core, LinksInv
  <2>2. ~(c < c)
    BY DEF Typed, FlushInv, Records
  <2>3. Links(ctx, c, c) = {}
    BY <2>2 DEF Links
  <2>4. ctx[c] \in CtxType(C)
    BY DEF Typed, Types, TypesOf
  <2>5. QED
    BY <2>1, <2>3, <2>4, FS_EmptySet DEF CtxType
<1>4. ASSUME NEW d \in C, d # c
      PROVE  /\ DOMAIN g[d] = CtxFields
             /\ g[d].state = ctx[d].state /\ g[d].successors = ctx[d].successors
             /\ g[d].preds = ctx[d].preds - ctx[c].successors[d]
             /\ g[d].fetches = ctx[d].fetches /\ g[d].waits = ctx[d].waits
             /\ g[d].next = ctx[d].next /\ g[d].revalidate = ctx[d].revalidate
             /\ g[d].repeated = ctx[d].repeated /\ g[d].nested = ctx[d].nested
  BY <1>1, <1>2, <1>4 DEF CtxFields
<1>5. /\ DOMAIN g[c] = CtxFields /\ g[c].state = "retired" /\ \A d \in C : g[c].successors[d] = 0
      /\ g[c].preds = ctx[c].preds
      /\ g[c].fetches = ctx[c].fetches /\ g[c].waits = ctx[c].waits
      /\ g[c].next = ctx[c].next /\ g[c].revalidate = ctx[c].revalidate
      /\ g[c].repeated = ctx[c].repeated /\ g[c].nested = ctx[c].nested
  <2>1. PICK z : z = [e \in C |-> 0]
    OBVIOUS
  <2>2. g[c] = [ctx[c] EXCEPT !.state = "retired", !.successors = z]
    BY <1>2, <2>1
  <2>3. \A d \in C : z[d] = 0
    BY <2>1
  <2>4. QED
    BY <1>1, <2>2, <2>3 DEF CtxFields
<1>6. g[c].preds = ctx[c].preds - ctx[c].successors[c]
  BY <1>3, <1>5
<1>7. DOMAIN g = C
  BY <1>2
<1>8. QED
  BY <1>4, <1>5, <1>6, <1>7 DEF Ran

LEMMA CompleteKeeps ==
  ASSUME Typed, Typed', Frame, Core, RewriteComplete,
         drv'.rewrites = drv.rewrites, drv'.canRewrite = drv.canRewrite
  PROVE  Core'
<1>1. PICK C, c, p, U, x, g : /\ C = Contexts /\ c = Running /\ p = ctx[c].parent /\ U = Unblocked(c)
                              /\ x = Task("Delete", c, "") /\ g = RunSuccessors(c)
  OBVIOUS
<1>2. /\ tasks # <<>> /\ Head(tasks).op = "Retire" /\ Top(c) /\ Deregister(c) /\ ctx' = g
      /\ tasks' = (Tail(tasks) \o StartTasks(U)) \o <<x>>
      /\ UNCHANGED <<asked, loading, budget, html>>
  BY <1>1 DEF RewriteComplete, AtHead
<1>3. c \in C /\ TypesOf(C)
  BY <1>1, <1>2, HeadType DEF Typed, Types, TypesOf
<1>4. x \in TaskOf(C) /\ x.c = c /\ x.op = "Delete" /\ x.op \in ControlOps \ EndingOps
  BY <1>1, <1>3, Controls DEF Task, TaskOf, EndingOps, RepeatedOps, Ops, Args
<1>5. U \subseteq C /\ U \subseteq Successors(c) /\ \A d \in U : g[d].preds = 0
  BY <1>1 DEF Unblocked, Successors
<1>6. Leaves(C, U, c, "Delete")
  BY <1>1, <1>2, <1>4, <1>5, LeavesAnother
<1>7. Ran(C, c, g)
  BY <1>1, <1>3, SuccessorsRun
<1>8. Unlinked(c)
  BY <1>1, <1>2, <1>7 DEF Unlinked, Ran
<1>9. Retired(c, p)
  <2>1. ASSUME NEW d \in C PROVE ctx'[d].nested = ctx[d].nested - If1(d = p)
    <3>1. d # p
      BY <1>1, <1>2 DEF Typed, FlushInv, Records, Top
    <3>2. ctx[d].nested \in Nat
      BY <1>1, Naturals DEF Core
    <3>3. QED
      BY <1>2, <1>7, <3>1, <3>2 DEF If1, Ran
  <2>2. QED
    BY <1>1, <1>2, <1>7, <2>1 DEF Retired, SameLoad, Ran
<1>10. QED
  BY <1>1, <1>2, <1>5, <1>6, <1>8, <1>9, RetireKeeps

LEMMA RetireNestedKeeps ==
  ASSUME Typed, Typed', Frame, Core, RetireNested
  PROVE  Core'
<1>1. PICK C, c, p, U, x, g : /\ C = Contexts /\ c = Running /\ p = ctx[c].parent /\ U = Unblocked(c)
                              /\ x = Task("RewriteDoneImpl", p, "kRewriteOk") /\ g = RunSuccessors(c)
  OBVIOUS
<1>2. /\ tasks # <<>> /\ Head(tasks).op = "Retire" /\ ~Top(c) /\ Deregister(c)
      /\ ctx' = [g EXCEPT ![p].nested = @ - 1, ![p].busy = @ \/ ctx[c].busy]
      /\ UNCHANGED <<asked, loading, budget, drv, html>>
  BY <1>1 DEF RetireNested, AtHead
<1>3. IF ctx[p].nested = 1
      THEN tasks' = Append(Tail(tasks) \o StartTasks(U), x)
      ELSE tasks' = Tail(tasks) \o StartTasks(U)
  BY <1>1 DEF RetireNested
<1>4. c \in C /\ TypesOf(C) /\ p \in C
  <2>1. c \in C
    BY <1>1, <1>2, HeadType DEF Typed, Types, TypesOf
  <2>2. QED
    BY <1>1, <1>2, <2>1 DEF Typed, Types, Shapes, Top
<1>5. x \in TaskOf(C) /\ x.c = p /\ x.op = "RewriteDoneImpl" /\ x.op \in ControlOps \ EndingOps
  BY <1>1, <1>4, Controls DEF Task, TaskOf, EndingOps, RepeatedOps, Ops, Args
<1>6. U \subseteq C /\ U \subseteq Successors(c) /\ \A d \in U : g[d].preds = 0
  BY <1>1 DEF Unblocked, Successors
<1>7. Ran(C, c, g)
  BY <1>1, <1>4, SuccessorsRun
<1>8. /\ \A d \in C : d # p => ctx'[d] = g[d]
      /\ \A f \in CtxFields \ {"nested", "busy"} : ctx'[p][f] = g[p][f]
      /\ ctx'[p].nested = g[p].nested - 1
  BY <1>2, <1>4, <1>7 DEF CtxFields, Ran
<1>9. ASSUME NEW d \in C
      PROVE  /\ ctx'[d].state = g[d].state /\ ctx'[d].successors = g[d].successors
             /\ ctx'[d].preds = g[d].preds /\ ctx'[d].fetches = g[d].fetches /\ ctx'[d].waits = g[d].waits
             /\ ctx'[d].next = g[d].next /\ ctx'[d].revalidate = g[d].revalidate
             /\ ctx'[d].repeated = g[d].repeated
  BY <1>8 DEF CtxFields
<1>10. Unlinked(c)
  BY <1>1, <1>4, <1>7, <1>9 DEF Unlinked, Ran
<1>11. Retired(c, p)
  <2>1. ASSUME NEW d \in C PROVE ctx'[d].nested = ctx[d].nested - If1(d = p)
    <3>1. ctx[d].nested \in Nat
      BY <1>1, Naturals DEF Core
    <3>2. QED
      BY <1>7, <1>8, <3>1 DEF If1, Ran
  <2>2. QED
    BY <1>1, <1>4, <1>7, <1>9, <2>1 DEF Retired, SameLoad, Ran
<1>12. \A d \in U : ctx'[d].preds = 0
  BY <1>6, <1>9
<1>13. drv'.rewrites = drv.rewrites /\ drv'.canRewrite = drv.canRewrite
  BY <1>2
<1>14. CASE ctx[p].nested = 1
  <2>1. tasks' = (Tail(tasks) \o StartTasks(U)) \o <<x>>
    <3>1. PICK t : t = Tail(tasks) \o StartTasks(U)
      OBVIOUS
    <3>2. t \in Seq(TaskOf(C))
      <4>1. Tail(tasks) \in Seq(TaskOf(C)) /\ Records
        BY <1>1, <1>2, HeadType DEF Typed, Types, TypesOf, FlushInv
      <4>2. WithStarts(C, U, Tail(tasks), t)
        BY <1>1, <1>6, <3>1, <4>1, StartsNum
      <4>3. QED
        BY <4>2 DEF WithStarts
    <3>3. tasks' = Append(t, x)
      BY <1>3, <1>14, <3>1
    <3>4. QED
      BY <1>5, <3>1, <3>2, <3>3
  <2>2. Leaves(C, U, p, "RewriteDoneImpl")
    BY <1>1, <1>2, <1>5, <1>6, <2>1, LeavesAnother
  <2>3. QED
    BY <1>1, <1>2, <1>6, <1>10, <1>11, <1>12, <1>13, <1>14, <2>2, RetireKeeps
<1>15. CASE ctx[p].nested # 1
  <2>1. tasks' = Tail(tasks) \o StartTasks(U)
    BY <1>3, <1>15
  <2>2. Leaves(C, U, NoContext, "none")
    BY <1>1, <1>2, <1>6, <2>1, LeavesStarts
  <2>3. QED
    BY <1>1, <1>2, <1>6, <1>10, <1>11, <1>12, <1>13, <1>15, <2>2, RetireKeeps
<1>16. QED
  BY <1>14, <1>15

---------------------------------------------------------------------------
(* The end of a context and of those nested in it.                          *)

\* A context that is deleted takes with it the contexts nested in it, all of
\* which have ended or were never made.
Gone(C, c, D) ==
  /\ c \in D /\ D \subseteq C
  /\ \A d \in D : Children(d) \subseteq D /\ ctx[d].state \in Dead /\ (d = c \/ ctx[d].parent \in D)

LEMMA DeadHasNone ==
  ASSUME Typed, Core, NEW d \in Contexts, ctx[d].state \in Dead
  PROVE  ctx[d].nested = 0 /\ \A e \in Children(d) : ctx[e].state \in Dead
<1>1. ctx[d].nested \in Nat
  BY Naturals DEF Core
<1>2. ~(ctx[d].nested > 0)
  BY DEF Core, OneContinuation, Continuation, Still, Holds, Dead
<1>3. ctx[d].nested = 0
  BY <1>1, <1>2
<1>4. PICK S : S = {e \in Children(d) : ctx[e].state \in Live}
  OBVIOUS
<1>5. IsFiniteSet(S) /\ Cardinality(S) = 0
  <2>1. IsFiniteSet(Children(d)) /\ S \subseteq Children(d)
    BY <1>4, ChildrenOf
  <2>2. ctx[d].nested = Cardinality(S)
    BY <1>4 DEF Core, NestedInv
  <2>3. QED
    BY <1>3, <2>1, <2>2, FS_Subset
<1>6. S = {}
  BY <1>5, FS_EmptySet
<1>7. ASSUME NEW e \in Children(d) PROVE ctx[e].state \in Dead
  <2>1. e \in Contexts /\ ctx[e].state \in States
    BY <1>7 DEF Children, Typed, Types, TypesOf, CtxType
  <2>2. ctx[e].state \notin Live
    BY <1>4, <1>6, <1>7
  <2>3. QED
    BY <2>1, <2>2 DEF States, Live, Dead
<1>8. QED
  BY <1>3, <1>7

LEMMA GoneAre ==
  ASSUME NEW C, Contexts = C, Typed, Core, NEW c \in C, ctx[c].state \in Dead,
         NEW D, D = Closure({c}, [e \in Contexts |-> Children(e)])
  PROVE  Gone(C, c, D)
<1>1. PICK step : step = [e \in Contexts |-> Children(e)]
  OBVIOUS
<1>2. IsFiniteSet(Contexts)
  BY DEF Typed, FlushInv, Records
<1>3. \A e \in Contexts : step[e] = Children(e) /\ Children(e) \subseteq Contexts
  BY <1>1 DEF Children
<1>4. D = Closure({c}, step)
  BY <1>1
<1>5. {c} \subseteq D /\ \A e \in D : step[e] \subseteq D
  <2>1. PICK S : S = {c}
    OBVIOUS
  <2>2. S \subseteq Contexts /\ S # {} /\ D = Closure(S, step)
    BY <1>4, <2>1
  <2>3. \A e \in Contexts : step[e] \subseteq Contexts
    BY <1>3
  <2>4. S \subseteq D /\ \A e \in D : step[e] \subseteq D
    BY <1>2, <2>2, <2>3, ClosureClosed
  <2>5. QED
    BY <2>1, <2>4
<1>6. PICK P : P = {d \in C : ctx[d].state \in Dead}
  OBVIOUS
<1>7. D \subseteq P
  <2>1. {c} \subseteq P
    BY <1>6
  <2>2. ASSUME NEW e \in P PROVE step[e] \subseteq P
    <3>1. e \in Contexts /\ ctx[e].state \in Dead
      BY <1>6, <2>2
    <3>2. \A d \in Children(e) : ctx[d].state \in Dead
      BY <3>1, DeadHasNone
    <3>3. QED
      BY <1>3, <1>6, <3>1, <3>2
  <2>3. QED
    BY <1>2, <1>4, <2>1, <2>2, ClosureLeast
<1>8. PICK Q : Q = {d \in D : d = c \/ ctx[d].parent \in D}
  OBVIOUS
<1>9. D \subseteq Q
  <2>1. {c} \subseteq Q
    BY <1>5, <1>8
  <2>2. ASSUME NEW e \in Q PROVE step[e] \subseteq Q
    <3>1. e \in D /\ e \in Contexts
      BY <1>6, <1>7, <1>8, <2>2
    <3>2. step[e] = Children(e) /\ Children(e) \subseteq D
      BY <1>3, <1>5, <3>1
    <3>3. QED
      BY <1>8, <3>1, <3>2 DEF Children
  <2>3. QED
    BY <1>2, <1>4, <2>1, <2>2, ClosureLeast
<1>10. ASSUME NEW d \in D
       PROVE  Children(d) \subseteq D /\ ctx[d].state \in Dead /\ (d = c \/ ctx[d].parent \in D)
  <2>1. d \in C /\ ctx[d].state \in Dead
    BY <1>6, <1>7
  <2>2. QED
    BY <1>3, <1>5, <1>8, <1>9, <2>1
<1>11. c \in D /\ D \subseteq C
  BY <1>5, <1>6, <1>7
<1>12. QED
  BY <1>10, <1>11 DEF Gone

LEMMA DeleteKeeps ==
  ASSUME Typed, Typed', Frame, Core, RewriteSequence, DeleteRewriteContext
  PROVE  Core'
<1>1. PICK C, c, D : C = Contexts /\ c = Running /\ D = Closure({c}, [e \in Contexts |-> Children(e)])
  OBVIOUS
<1>2. /\ tasks # <<>> /\ Head(tasks).op = "Delete" /\ tasks' = Tail(tasks)
      /\ ctx' = [d \in C |-> IF d \in D THEN [ctx[d] EXCEPT !.state = "deleted"] ELSE ctx[d]]
      /\ UNCHANGED <<asked, loading, primary, budget, html>>
  BY <1>1 DEF DeleteRewriteContext, AtHead
<1>3. c \in C /\ TypesOf(C) /\ Runs(c, "Delete")
  <2>1. Head(tasks).op \in ControlOps
    BY <1>2, Controls
  <2>2. Runs(c, "Delete") /\ c \in C
    BY <1>1, <1>2, <2>1, HeadRuns DEF Core
  <2>3. QED
    BY <1>1, <2>2 DEF Typed, Types
<1>4. ctx[c].state = "retired" /\ Top(c)
  BY <1>3 DEF Runs
<1>5. Gone(C, c, D)
  BY <1>1, <1>3, <1>4, GoneAre DEF Dead
<1>6. ASSUME NEW d \in C
      PROVE  /\ \A f \in CtxFields \ {"state"} : ctx'[d][f] = ctx[d][f]
             /\ ctx'[d].state = IF d \in D THEN "deleted" ELSE ctx[d].state
  <2>1. DOMAIN ctx[d] = CtxFields
    BY <1>1 DEF Typed, FlushInv, Records
  <2>2. ctx'[d] = IF d \in D THEN [ctx[d] EXCEPT !.state = "deleted"] ELSE ctx[d]
    BY <1>2
  <2>3. QED
    BY <2>1, <2>2 DEF CtxFields
<1>7. ASSUME NEW d \in C PROVE SameParts(d) /\ ctx'[d].revalidate = ctx[d].revalidate
  BY <1>6 DEF SameParts, CtxFields
<1>8. ASSUME NEW E, NEW K
      PROVE  /\ Num(tasks, E, K) = (IF c \in E /\ "Delete" \in K THEN 1 ELSE 0) + Num(tasks', E, K)
             /\ Num(tasks', E, K) \in Nat
  BY <1>1, <1>2, <1>3, TaskNums DEF TypesOf
<1>9. ASSUME NEW d \in C, d # c, NEW K PROVE Num(tasks', {d}, K) = Num(tasks, {d}, K)
  BY <1>8, <1>9
<1>10. ASSUME NEW E, NEW K, "Delete" \notin K PROVE Num(tasks', E, K) = Num(tasks, E, K)
  BY <1>8, <1>10
<1>11. ASSUME NEW d \in C PROVE SameAsked(d)
  BY <1>2 DEF SameAsked
<1>12. ASSUME NEW d \in D PROVE d \in C /\ ctx[d].state \in Dead /\ ctx[d].state # "started"
  BY <1>5 DEF Gone, Dead
<1>13. ASSUME NEW d PROVE Repeating(d)' <=> Repeating(d)
  <2>1. \A p \in Contexts : ctx'[p].repeated = ctx[p].repeated
    BY <1>1, <1>7 DEF SameParts
  <2>2. \A p \in Contexts : ctx'[p].state = "started" <=> ctx[p].state = "started"
    BY <1>1, <1>6, <1>12
  <2>3. QED
    BY <2>1, <2>2, RepeatingKept
<1>14. OneContinuation'
  <2>1. ASSUME NEW d \in C PROVE Continuation(d)'
    <3>1. SameLoad(d) /\ ctx'[d].nested = ctx[d].nested
      BY <1>7, <2>1 DEF SameLoad, SameParts
    <3>2. CASE d \notin D
      <4>1. d # c
        BY <1>5, <3>2 DEF Gone
      <4>2. SameTasks(d)
        BY <1>9, <2>1, <4>1 DEF SameTasks
      <4>3. ctx'[d].state = ctx[d].state /\ Continuation(d)
        BY <1>1, <1>6, <2>1, <3>2 DEF Core, OneContinuation
      <4>4. QED
        BY <1>1, <1>11, <1>13, <2>1, <3>1, <4>2, <4>3, ContinuationKept
    <3>3. CASE d \in D
      <4>1. ctx'[d].state = "deleted"
        BY <1>6, <2>1, <3>3
      <4>2. \A K \in ControlKinds : Num(tasks', {d}, K) = 0
        <5>1. CASE d = c
          BY <1>2, <1>3, <5>1 DEF Runs
        <5>2. CASE d # c
          <6>1. ~Top(d)
            <7>1. ctx[d].parent \in C
              BY <1>5, <3>3, <5>2 DEF Gone
            <7>2. QED
              BY <1>1, <7>1 DEF Top, Typed, FlushInv, Records
          <6>2. Still(d, {})
            BY <1>1, <1>12, <2>1, <3>3, <6>1 DEF Core, OneContinuation, Continuation, Dead
          <6>3. Num(tasks, {d}, ControlOps) = 0
            BY <6>2 DEF Still, Holds
          <6>4. Num(tasks', {d}, ControlOps) = 0
            BY <1>9, <2>1, <5>2, <6>3
          <6>5. tasks' \in Seq(TaskOf(C))
            BY <1>1, <1>2, <1>3, HeadType DEF TypesOf
          <6>6. QED
            BY <6>4, <6>5, NumNone, KindsApart
        <5>3. QED
          BY <5>1, <5>2
      <4>3. /\ \A k \in {"lookup", "lock", "rewrite"} : <<k, d>> \notin asked
            /\ ~Repeating(d) /\ ~(ctx[d].fetches > 0) /\ ~ctx[d].waits /\ ~(ctx[d].nested > 0)
        BY <1>1, <1>12, <2>1, <3>3 DEF Core, OneContinuation, Continuation, Still, Holds, Dead
      <4>4. Still(d, {})'
        <5>1. Num(tasks', {d}, ControlOps) = 0 /\ Num(tasks', {d}, {}) = 0
          BY <4>2, Kinds
        <5>2. /\ \A k \in {"lookup", "lock", "rewrite"} : <<k, d>> \notin asked'
              /\ ~(Repeating(d)') /\ ~(ctx'[d].fetches > 0) /\ ~ctx'[d].waits /\ ~(ctx'[d].nested > 0)
          BY <1>2, <1>13, <3>1, <4>3 DEF SameLoad
        <5>3. QED
          BY <5>1, <5>2 DEF Still, Holds
      <4>5. QED
        BY <4>1, <4>4 DEF Continuation
    <3>4. QED
      BY <3>2, <3>3
  <2>2. QED
    BY <1>1, <2>1, LinksKept DEF OneContinuation
<1>15. LoadsInv'
  <2>1. SameLoads
    <3>1. \A K \in LoadKinds : "Delete" \notin K
      BY KindsApart, Controls
    <3>2. QED
      BY <1>10, <3>1, Kinds DEF SameLoads
  <2>2. \A d \in C : /\ SameLoad(d) /\ ctx'[d].next = ctx[d].next
                     /\ ctx'[d].revalidate = ctx[d].revalidate
    BY <1>7 DEF SameParts, SameLoad
  <2>3. QED
    BY <1>1, <1>2, <2>1, <2>2, LoadsKept DEF Core
<1>16. LinksInv'
  <2>1. SameChains
    BY <1>1, <1>7 DEF SameChains, SameParts, Waiting
  <2>2. ASSUME NEW d \in C,
               ctx'[d].state \in {"started", "done", "retired"} \/ Num(tasks', {d}, {"Start"}) > 0
        PROVE  OpenLinks(d) = {}
    <3>1. Num(tasks', {d}, {"Start"}) = Num(tasks, {d}, {"Start"})
      BY <1>10
    <3>2. ctx'[d].state \in {"started", "done", "retired"} => ctx'[d].state = ctx[d].state
      BY <1>6, <2>2
    <3>3. QED
      BY <1>1, <2>2, <3>1, <3>2 DEF Core, LinksInv
  <2>3. QED
    BY <1>1, <2>1, <2>2, ChainsKept DEF Core
<1>17. NestedInv'
  <2>1. ASSUME NEW p \in C PROVE NestedAfter(p)
    <3>1. ctx'[p].nested = ctx[p].nested
      BY <1>7, <2>1 DEF SameParts
    <3>2. Children(p) \subseteq C
      BY <1>1 DEF Children
    <3>3. Num(tasks', {p}, NestedOps) = Num(tasks, {p}, NestedOps) /\ Num(tasks', {p}, LastOps) = Num(tasks, {p}, LastOps)
      BY <1>10 DEF NestedOps, LastOps
    <3>4. CASE p \in D
      <4>1. \A d \in Children(p) : ctx'[d].state = "deleted"
        BY <1>5, <1>6, <3>2, <3>4 DEF Gone
      <4>2. ctx'[p].state = "deleted"
        BY <1>6, <2>1, <3>4
      <4>3. ctx[p].nested = 0 /\ \A d \in Children(p) : ctx[d].state \in Dead
        BY <1>1, <1>12, <2>1, <3>4, DeadHasNone
      <4>4. {d \in Children(p) : ctx'[d].state \in Live} = {}
        BY <4>1 DEF Live
      <4>5. Num(tasks, {p}, NestedOps) > 0 => \A d \in Children(p) : ctx[d].state = "built"
        BY <1>1, <2>1 DEF Core, NestedInv
      <4>6. Num(tasks', {p}, NestedOps) > 0 => Children(p) = {}
        BY <3>3, <4>3, <4>5 DEF Dead
      <4>7. ctx'[p].nested = Cardinality({d \in Children(p) : ctx'[d].state \in Live})
        BY <3>1, <4>3, <4>4, FS_EmptySet
      <4>8. QED
        BY <4>1, <4>2, <4>6, <4>7 DEF NestedAfter
    <3>5. CASE p \notin D
      <4>1. ASSUME NEW d \in Children(p) PROVE d \notin D /\ d \in C /\ d # c
        <5>1. d # c
          <6>1. ctx[d].parent = p /\ p # NoContext
            BY <1>1, <2>1, <4>1 DEF Children, Typed, FlushInv, Records
          <6>2. QED
            BY <1>4, <6>1 DEF Top
        <5>2. QED
          BY <1>5, <3>2, <3>5, <4>1, <5>1 DEF Gone, Children
      <4>2. \A d \in Children(p) : ctx'[d].state = ctx[d].state
        BY <1>6, <4>1
      <4>3. ctx'[p].state = ctx[p].state
        BY <1>6, <2>1, <3>5
      <4>4. \A d \in Children(p) : Num(tasks', {d}, ControlOps) = Num(tasks, {d}, ControlOps)
        BY <1>9, <4>1
      <4>5. {d \in Children(p) : ctx'[d].state \in Live} = {d \in Children(p) : ctx[d].state \in Live}
        BY <4>2
      <4>6. ctx[p].nested = Cardinality({d \in Children(p) : ctx[d].state \in Live})
        BY <1>1, <2>1 DEF Core, NestedInv
      <4>7. /\ (\A d \in Children(p) : ctx[d].state = "unborn")
               \/ /\ \A d \in Children(p) : ctx[d].state # "unborn"
                  /\ ctx[p].state \notin {"unborn", "built"}
                  /\ ctx[p].state = "started" => ctx[p].nested > 0 \/ Num(tasks, {p}, LastOps) > 0
            /\ \A d \in Children(p) : ctx[d].state = "deleted" => ctx[p].state = "deleted"
            /\ ctx[p].state = "deleted" => \A d \in Children(p) : ctx[d].state \in {"unborn", "deleted"}
            /\ Num(tasks, {p}, NestedOps) > 0 =>
                 \A d \in Children(p) : ctx[d].state = "built" /\ Num(tasks, {d}, ControlOps) = 0
        BY <1>1, <2>1 DEF Core, NestedInv
      <4>8. ctx'[p].nested = Cardinality({d \in Children(p) : ctx'[d].state \in Live})
        BY <3>1, <4>5, <4>6
      <4>9. /\ (\A d \in Children(p) : ctx'[d].state = "unborn")
               \/ /\ \A d \in Children(p) : ctx'[d].state # "unborn"
                  /\ ctx'[p].state \notin {"unborn", "built"}
                  /\ ctx'[p].state = "started" => ctx'[p].nested > 0 \/ Num(tasks', {p}, LastOps) > 0
            /\ \A d \in Children(p) : ctx'[d].state = "deleted" => ctx'[p].state = "deleted"
            /\ ctx'[p].state = "deleted" => \A d \in Children(p) : ctx'[d].state \in {"unborn", "deleted"}
        BY <3>1, <3>3, <4>2, <4>3, <4>7
      <4>10. Num(tasks', {p}, NestedOps) > 0 =>
               \A d \in Children(p) : ctx'[d].state = "built" /\ Num(tasks', {d}, ControlOps) = 0
        <5>1. SUFFICES ASSUME Num(tasks', {p}, NestedOps) > 0, NEW d \in Children(p)
                       PROVE  ctx'[d].state = "built" /\ Num(tasks', {d}, ControlOps) = 0
          OBVIOUS
        <5>2. Num(tasks, {p}, NestedOps) > 0
          BY <3>3, <5>1
        <5>3. ctx[d].state = "built" /\ Num(tasks, {d}, ControlOps) = 0
          BY <4>7, <5>1, <5>2
        <5>4. QED
          BY <4>2, <4>4, <5>1, <5>3
      <4>11. QED
        BY <4>8, <4>9, <4>10 DEF NestedAfter
    <3>6. QED
      BY <3>4, <3>5
  <2>2. QED
    BY <1>1, <2>1, NestedFrom
<1>18. WindowsInv'
  <2>1. drv'.rewrites = drv.rewrites /\ drv'.canRewrite = drv.canRewrite
    BY SequenceDriver DEF Typed, FlushInv, SameDriver
  <2>2. /\ Contexts' = C
        /\ \A d \in C : OpenLinks(d)' = OpenLinks(d) /\ (Top(d)' <=> Top(d)) /\ ctx'[d].window = ctx[d].window
    <3>1. \A d \in Contexts : ctx'[d].successors = ctx[d].successors
      BY <1>1, <1>7 DEF SameParts
    <3>2. \A d \in C : ctx'[d].window = ctx[d].window
      BY <1>1 DEF Frame, Keeps, Contexts
    <3>3. QED
      BY <1>1, <3>1, <3>2, OpenLinksKept, LinksKept
  <2>3. ASSUME NEW d \in C, Top(d)
        PROVE  \/ ctx'[d].state = ctx[d].state
               \/ d = c /\ ctx'[d].state = "deleted"
    <3>1. d = c \/ d \notin D
      BY <1>1, <1>5, <2>3 DEF Gone, Top, Typed, FlushInv, Records
    <3>2. QED
      BY <1>6, <3>1
  <2>4. OpenLinks(c) = {}
    BY <1>1, <1>3, <1>4 DEF Core, LinksInv
  <2>5. ASSUME NEW d \in C, Top(d)
        PROVE  /\ ctx'[d].state = "unborn" =>
                    ctx[d].window > html.window \/ (ctx[d].window = html.window /\ html.pc = "parsing")
               /\ ctx'[d].state # "unborn" =>
                    /\ ctx[d].window <= html.window
                    /\ drv.canRewrite /\ ctx[d].window = html.window /\ html.pc = "parsing"
                         => d \in drv.rewrites
               /\ ctx'[d].state = "deleted" /\ drv.canRewrite => OpenLinks(d) = {}
    BY <1>1, <1>4, <2>3, <2>4, <2>5 DEF Core, WindowsInv
  <2>6. ASSUME NEW d \in drv.rewrites
        PROVE  Top(d) /\ d \in C /\ ctx'[d].state = "built" /\ Num(tasks', {d}, ControlOps) = 0
    <3>1. Top(d) /\ ctx[d].state = "built" /\ Num(tasks, {d}, ControlOps) = 0
      BY <2>6 DEF Core, WindowsInv
    <3>2. d \in C
      BY <1>1, <2>6 DEF Typed, FlushInv, WindowInv
    <3>3. d # c /\ d \notin D
      BY <1>4, <1>12, <3>1 DEF Dead
    <3>4. QED
      BY <1>6, <1>9, <3>1, <3>2, <3>3
  <2>7. ASSUME ~drv.canRewrite, NEW d \in C PROVE ctx'[d].state \in {"unborn", "deleted"}
    BY <1>1, <1>6, <2>7 DEF Core, WindowsInv
  <2>8. QED
    <3>1. (\A d \in Contexts : Top(d) =>
              /\ ctx[d].state = "unborn" =>
                   ctx[d].window > html.window \/ (ctx[d].window = html.window /\ html.pc = "parsing")
              /\ ctx[d].state # "unborn" =>
                   /\ ctx[d].window <= html.window
                   /\ drv.canRewrite /\ ctx[d].window = html.window /\ html.pc = "parsing"
                        => d \in drv.rewrites
              /\ ctx[d].state = "deleted" /\ drv.canRewrite => OpenLinks(d) = {})'
      BY <1>2, <2>1, <2>2, <2>5
    <3>2. (\A d \in drv.rewrites : Top(d) /\ ctx[d].state = "built" /\ Num(tasks, {d}, ControlOps) = 0)'
      BY <2>1, <2>2, <2>6
    <3>3. (~drv.canRewrite => \A d \in Contexts : ctx[d].state \in {"unborn", "deleted"})'
      BY <2>1, <2>2, <2>7
    <3>4. QED
      BY <3>1, <3>2, <3>3 DEF WindowsInv
<1>19. PrimaryInv'
  <2>1. ASSUME NEW d \in C
        PROVE  /\ ctx'[d].repeated = ctx[d].repeated
               /\ ctx'[d].state \in {"unborn", "built"} => ctx[d].state \in {"unborn", "built"}
               /\ ctx[d].state \in {"started", "done"} => ctx'[d].state \in {"started", "done"}
               /\ ctx'[d].state = "started" => ctx[d].state \in {"started", "built"}
    BY <1>6, <1>7, <1>12 DEF SameParts, Dead
  <2>2. QED
    BY <1>1, <1>2, <2>1, PrimaryKept DEF Core
<1>20. EndsFirst'
  <2>1. Head(tasks).op \notin EndingOps
    BY <1>2 DEF EndingOps, RepeatedOps
  <2>2. NoEnds(tasks')
    BY <1>2, <1>3, <2>1, NoneEnds DEF TypesOf, Core
  <2>3. QED
    BY <2>2, NoEndsFirst
<1>21. QED
  BY <1>14, <1>15, <1>16, <1>17, <1>18, <1>19, <1>20 DEF Core

---------------------------------------------------------------------------
(* The contexts, in every document.                                         *)

LEMMA InitCore == Init => Core
<1> SUFFICES ASSUME Init PROVE Core
  OBVIOUS
<1>1. Typed
  BY InitFlush, InitTyped DEF Typed
<1>2. PICK f \in Documents : /\ ctx = [c \in DOMAIN f |-> NewContext(f, c)]
                             /\ loading = [c \in DOMAIN f |-> 0]
                             /\ primary = [k \in {f[c].key : c \in DOMAIN f} |-> NoContext]
  BY DEF Init
<1>3. PICK C : C = Contexts /\ C = DOMAIN f
  BY <1>2 DEF Contexts
<1>4. ASSUME NEW c \in C
      PROVE  /\ ctx[c].state = "unborn" /\ ctx[c].fetches = 0 /\ ~ctx[c].waits /\ ctx[c].nested = 0
             /\ ctx[c].next = 0 /\ ctx[c].revalidate = 0 /\ ctx[c].repeated = <<>>
             /\ ctx[c].preds = Cardinality(Predecessors(f, c))
             /\ ctx[c].successors = [d \in C |-> Cardinality(Links(f, c, d))]
             /\ ctx[c].slots = f[c].slots
             /\ loading[c] = 0
  BY <1>2, <1>3 DEF NewContext
<1>5. /\ tasks = <<>> /\ asked = {} /\ budget.loads = 0 /\ budget.waiting = <<>>
      /\ drv.rewrites = {} /\ html.pc = "parsing" /\ html.window = 1
  BY DEF Init
<1>6. ASSUME NEW D, NEW K PROVE Num(tasks, D, K) = 0 /\ Num(budget.waiting, D, K) = 0
  <2>1. Num(<<>>, D, K) = 0
    <3>1. {i \in DOMAIN <<>> : <<>>[i].c \in D /\ <<>>[i].op \in K} = {}
      OBVIOUS
    <3>2. QED
      BY <3>1, FS_EmptySet DEF Num
  <2>2. QED
    BY <1>5, <2>1
<1>7. OneContinuation
  <2>1. ASSUME NEW c \in C PROVE Still(c, {})
    <3>1. ~Repeating(c)
      BY <1>3, <1>4 DEF Repeating
    <3>2. QED
      <4>1. Num(tasks, {c}, ControlOps) = 0 /\ Num(tasks, {c}, {}) = 0
        BY <1>6
      <4>2. ~(ctx[c].fetches > 0) /\ ~ctx[c].waits /\ ~(ctx[c].nested > 0)
        <5>1. ctx[c].fetches = 0 /\ ~ctx[c].waits /\ ctx[c].nested = 0
          BY <1>4, <2>1
        <5>2. QED
          BY <5>1
      <4>3. QED
        BY <1>5, <3>1, <4>1, <4>2 DEF Still, Holds
  <2>2. QED
    BY <1>3, <1>4, <2>1 DEF OneContinuation, Continuation
<1>8. LoadsInv
  <2>1. MaxLoads \in Nat
    BY LimitsAssumption
  <2>2. InFlight = {}
    <3>1. ASSUME NEW a \in C \X (1..MaxLoads), a[2] <= ctx[a[1]].fetches PROVE FALSE
      <4>1. a[1] \in C /\ a[2] \in 1..MaxLoads
        BY <3>1
      <4>2. ctx[a[1]].fetches = 0
        BY <1>4, <4>1
      <4>3. QED
        BY <2>1, <3>1, <4>1, <4>2
    <3>2. QED
      BY <1>3, <3>1 DEF InFlight
  <2>3. budget.loads = Cardinality(InFlight)
    BY <1>5, <2>2, FS_EmptySet
  <2>4. \A c \in C : LoadsOf(c) /\ ctx[c].fetches <= MaxLoads
    <3>1. ASSUME NEW c \in C PROVE LoadsOf(c) /\ ctx[c].fetches <= MaxLoads
      <4>1. /\ ctx[c].fetches = 0 /\ ~ctx[c].waits /\ loading[c] = 0 /\ ctx[c].next = 0
            /\ ctx[c].revalidate = 0
        BY <1>4, <3>1
      <4>2. /\ Num(tasks, {c}, LoadOps) = 0 /\ Num(tasks, {c}, Resumptions) = 0
            /\ Num(budget.waiting, {c}, Resumptions) = 0
            /\ Num(tasks, {c}, {"ResumeRevalidateInputs"}) = 0
            /\ Num(budget.waiting, {c}, {"ResumeRevalidateInputs"}) = 0
        BY <1>6
      <4>3. QED
        BY <2>1, <4>1, <4>2 DEF LoadsOf
    <3>2. QED
      BY <3>1
  <2>5. QED
    BY <1>3, <1>5, <2>1, <2>3, <2>4 DEF LoadsInv, NoWaiterForgotten
<1>9. LinksInv
  <2>1. ASSUME NEW c \in C, NEW d \in C
        PROVE  /\ Links(ctx, c, d) = Links(f, c, d) /\ IsFiniteSet(Links(f, c, d))
               /\ ctx[c].successors[d] = Cardinality(Links(ctx, c, d))
    <3>1. DOMAIN ctx = C /\ DOMAIN f = C
      BY <1>3 DEF Contexts
    <3>2. \A e \in C : ctx[e].slots = f[e].slots
      BY <1>4
    <3>3. Links(ctx, c, d) = Links(f, c, d)
      BY <3>1, <3>2 DEF Links
    <3>4. IsFiniteSet(f[d].slots)
      BY <1>3, SlotsAssumption
    <3>5. ctx[c].successors[d] = Cardinality(Links(f, c, d))
      BY <1>4
    <3>6. QED
      BY <3>3, <3>4, <3>5, LinksFinite
  <2>2. ASSUME NEW d \in C PROVE OpenLinks(d) = Predecessors(f, d)
    <3>1. \A c \in C : ctx[c].successors[d] # 0 <=> Links(f, c, d) # {}
      BY <2>1, FS_EmptySet
    <3>2. \A c \in C : Links(ctx, c, d) = Links(f, c, d)
      BY <2>1
    <3>3. QED
      BY <1>3, <3>1, <3>2 DEF OpenLinks, Predecessors
  <2>3. ASSUME NEW d \in C PROVE ctx[d].preds = Cardinality(OpenLinks(d)) + (IF ctx[d].waits THEN 1 ELSE 0)
    <3>1. ctx[d].preds \in Int
      BY <1>1, <1>3 DEF Typed, Types, TypesOf, CtxType
    <3>2. QED
      <4>1. PICK n : n = Cardinality(Predecessors(f, d))
        OBVIOUS
      <4>2. ctx[d].preds = n /\ Cardinality(OpenLinks(d)) = n /\ ~ctx[d].waits
        BY <1>4, <2>2, <2>3, <4>1
      <4>3. n \in Int
        BY <3>1, <4>2
      <4>4. QED
        BY <4>2, <4>3
  <2>4. QED
    <3>1. \A d \in C : ctx[d].state = "unborn" /\ Num(tasks, {d}, {"Start"}) = 0
      BY <1>4, <1>6
    <3>2. \A c, d \in C : ctx[c].successors[d] = Cardinality(Links(ctx, c, d))
      BY <2>1
    <3>3. \A d \in C : ~(Num(tasks, {d}, {"Start"}) > 0)
      BY <3>1
    <3>4. QED
      BY <1>3, <2>3, <3>1, <3>2, <3>3 DEF LinksInv
<1>10. NestedInv
  <2>1. ASSUME NEW c \in C PROVE {d \in Children(c) : ctx[d].state \in Live} = {}
    BY <1>3, <1>4 DEF Children, Live
  <2>2. \A c \in C : \A d \in Children(c) : ctx[d].state = "unborn"
    BY <1>3, <1>4 DEF Children
  <2>3. \A c \in C : ctx[c].nested = Cardinality({d \in Children(c) : ctx[d].state \in Live})
    BY <1>4, <2>1, FS_EmptySet
  <2>4. QED
    BY <1>3, <1>4, <1>6, <2>2, <2>3 DEF NestedInv
<1>11. WindowsInv
  <2>1. \A c \in C : ctx[c].window \in 1..NumWindows /\ NumWindows \in Nat
    BY <1>1, <1>3, LimitsAssumption DEF Typed, Types, TypesOf, CtxType
  <2>2. \A c \in C : ctx[c].window > html.window \/ (ctx[c].window = html.window /\ html.pc = "parsing")
    BY <1>5, <2>1
  <2>3. QED
    BY <1>3, <1>4, <1>5, <2>2 DEF WindowsInv
<1>12. PrimaryInv
  <2>1. \A k \in DOMAIN primary : primary[k] = NoContext
    BY <1>2
  <2>2. QED
    <3>1. \A p \in C : ctx[p].repeated = <<>>
      BY <1>4
    <3>2. \A p \in C : DOMAIN ctx[p].repeated = {}
      BY <3>1
    <3>3. \A p \in C : Repeats(p) = {}
      BY <3>2 DEF Repeats
    <3>4. QED
      BY <1>3, <2>1, <3>1, <3>2, <3>3 DEF PrimaryInv
<1>13. EndsFirst
  BY <1>5 DEF EndsFirst
<1>14. QED
  BY <1>7, <1>8, <1>9, <1>10, <1>11, <1>12, <1>13 DEF Core

LEMMA SameKeeps ==
  ASSUME Typed, Frame, Core, UNCHANGED vars
  PROVE  Core'
<1>1. UNCHANGED <<ctx, tasks, asked, loading, primary, budget>> /\ drv' = drv /\ html' = html
  BY DEF vars
<1>2. /\ OneContinuation' /\ LoadsInv' /\ LinksInv' /\ NestedInv' /\ PrimaryInv' /\ EndsFirst'
      /\ Contexts' = Contexts /\ \A d \in Contexts : OpenLinks(d)' = OpenLinks(d) /\ (Top(d)' <=> Top(d))
  BY <1>1, StillSame
<1>3. WindowsInv'
  <2>1. \A c \in drv.rewrites : c \in Contexts
    BY DEF Typed, FlushInv, WindowInv
  <2>2. \A c \in drv.rewrites : Num(tasks', {c}, ControlOps) = Num(tasks, {c}, ControlOps)
    BY <1>1
  <2>3. QED
    BY <1>1, <1>2, <2>1, <2>2 DEF Core, WindowsInv
<1>4. QED
  BY <1>2, <1>3 DEF Core

LEMMA SequenceKeeps ==
  ASSUME Typed, Typed', Frame, Core, RewriteSequence PROVE Core'
<1>1. SameDriver
  BY SequenceDriver DEF Typed, FlushInv
<1>2. CASE StartDisabled \/ StartRefused \/ StartPrimary \/ StartRepeated
  BY <1>2, StartEnds, PrimaryStarts, RepeatedStarts
<1>3. CASE OutputCacheHit \/ OutputCacheNotOk \/ OutputCacheMiss \/ LockFailed
             \/ StopForPageInputBytes \/ PartitionDone \/ RewriteDoneImpl
  BY <1>3, CacheStepsKeep
<1>4. CASE FetchInputs \/ RevalidateInputs \/ ResourceFetchDone \/ ResourceRevalidateDone
  BY <1>4, FetchKeeps, RevalidateKeeps, FetchDoneKeeps, RevalidateDoneKeeps
<1>5. CASE StartNestedTasksImpl \/ Finalize \/ RepeatedSuccess \/ RepeatedFailure
  BY <1>5, NestedStarts, FinalizeKeeps, RepeatsEnd
<1>6. CASE RetireNested \/ RewriteComplete \/ DeleteRewriteContext
  BY <1>1, <1>6, RetireNestedKeeps, CompleteKeeps, DeleteKeeps DEF SameDriver
<1>7. QED
  BY <1>2, <1>3, <1>4, <1>5, <1>6 DEF RewriteSequence

LEMMA NextCore == Typed /\ Typed' /\ Core /\ [Next]_vars => Core'
<1> SUFFICES ASSUME Typed, Typed', Core, [Next]_vars PROVE Core'
  OBVIOUS
<1>1. Frame
  BY NextFrame DEF Typed, FlushInv
<1>2. CASE Idle \/ UNCHANGED vars
  BY <1>1, <1>2, SameKeeps DEF Idle
<1>3. CASE Html
  BY <1>1, <1>3, InitiateKeeps, FlushKeeps, WaitsKeep, FlushDoneKeeps DEF Html
<1>4. CASE RewriteSequence
  BY <1>1, <1>4, SequenceKeeps
<1>5. CASE Lookups \/ Answers
  BY <1>1, <1>5, AnswersKeep, LoadDoneKeeps DEF Lookups, Answers
<1>6. CASE LowPriority
  BY <1>1, <1>6, AnswersKeep, NestedBuilt DEF LowPriority
<1>7. QED
  BY <1>2, <1>3, <1>4, <1>5, <1>6 DEF Next

(* Each context of a document has one continuation, its counts are those of *)
(* what it waits for, and the ends of rewrites come in order: the inductive *)
(* invariant of RewriteContext, in any interleaving of the three threads    *)
(* and of the answers of caches, locks and fetchers.                        *)
THEOREM ContextInvariant == Spec => [](Typed /\ Core)
<1>1. Init => Typed /\ Core
  BY InitFlush, InitTyped, InitCore DEF Typed
<1>2. Typed /\ Core /\ [Next]_vars => (Typed /\ Core)'
  BY NextTyped, NextCore
<1>3. QED
  BY <1>1, <1>2, PTL DEF Spec

---------------------------------------------------------------------------
(* What follows for the contexts.                                           *)

\* A task of a context, or none, by their number.
LEMMA NumSome ==
  ASSUME NEW T, NEW t \in Seq(T), NEW c, NEW K
  PROVE  Num(t, {c}, K) > 0 <=> \E i \in DOMAIN t : t[i].c = c /\ t[i].op \in K
<1>1. Num(t, {c}, K) \in Nat /\ (Num(t, {c}, K) = 0 <=> \A i \in DOMAIN t : ~(t[i].c \in {c} /\ t[i].op \in K))
  BY NumPlaces
<1>2. QED
  BY <1>1

LEMMA AllKinds == \A o \in Ops : o \in ControlOps \/ o \in LoadOps \/ o \in Resumptions
  BY DEF ControlOps

\* What is known of a context that nothing goes on with.
LEMMA Unmentioned ==
  ASSUME Typed, Core, NEW c \in Contexts, ctx[c].state \in {"unborn", "deleted"}
  PROVE  ~Mentions(c) /\ ctx[c].fetches = 0 /\ ~ctx[c].waits
<1>1. Still(c, {})
  BY DEF Core, OneContinuation, Continuation
<1>2. /\ Num(tasks, {c}, ControlOps) = 0 /\ \A k \in {"lookup", "lock", "rewrite"} : <<k, c>> \notin asked
      /\ ~Repeating(c) /\ ~(ctx[c].fetches > 0) /\ ~ctx[c].waits
  BY <1>1 DEF Still, Holds
<1>3. ctx[c].fetches = 0 /\ loading[c] \in Nat
  BY <1>2, Naturals DEF Core
<1>4. PICK C : C = Contexts
  OBVIOUS
<1>5. /\ tasks \in Seq(TaskOf(C)) /\ budget.waiting \in Seq(WaitOf(C))
      /\ asked \subseteq {"lookup", "lock", "rewrite"} \X C
  BY <1>4 DEF Typed, Types, TypesOf, BudgetOf
<1>6. /\ ctx[c].fetches = loading[c] + Num(tasks, {c}, LoadOps)
      /\ (IF ctx[c].waits THEN 1 ELSE 0)
           = Num(tasks, {c}, Resumptions) + Num(budget.waiting, {c}, Resumptions)
  BY DEF Core, LoadsInv, LoadsOf
<1>7. /\ Num(tasks, {c}, LoadOps) \in Nat /\ Num(tasks, {c}, Resumptions) \in Nat
      /\ Num(budget.waiting, {c}, Resumptions) \in Nat
  BY <1>5, NumPlaces
<1>8. /\ loading[c] = 0 /\ Num(tasks, {c}, LoadOps) = 0
      /\ Num(tasks, {c}, Resumptions) = 0 /\ Num(budget.waiting, {c}, Resumptions) = 0
  BY <1>2, <1>3, <1>6, <1>7
<1>9. ASSUME NEW i \in DOMAIN tasks PROVE tasks[i].c # c
  <2>1. tasks[i].op \in Ops
    <3>1. tasks[i] \in TaskOf(C)
      BY <1>5, <1>9
    <3>2. QED
      BY <3>1 DEF TaskOf
  <2>2. \A K \in {ControlOps, LoadOps, Resumptions} : ~(tasks[i].c \in {c} /\ tasks[i].op \in K)
    BY <1>2, <1>5, <1>8, <1>9, NumPlaces
  <2>3. QED
    BY <2>1, <2>2, AllKinds
<1>10. ASSUME NEW i \in DOMAIN budget.waiting PROVE budget.waiting[i].c # c
  <2>1. PICK w : w = budget.waiting
    OBVIOUS
  <2>2. w \in Seq(WaitOf(C)) /\ i \in DOMAIN w /\ Num(w, {c}, Resumptions) = 0
    BY <1>5, <1>8, <1>10, <2>1
  <2>3. w[i].op \in Resumptions
    <3>1. w[i] \in WaitOf(C)
      BY <2>2
    <3>2. QED
      BY <3>1 DEF WaitOf
  <2>4. ~(w[i].c \in {c} /\ w[i].op \in Resumptions)
    BY <2>2, NumPlaces
  <2>5. QED
    BY <2>1, <2>3, <2>4
<1>11. ASSUME NEW a \in asked PROVE a[2] # c
  <2>1. a \in {"lookup", "lock", "rewrite"} \X C
    BY <1>5, <1>11
  <2>2. a = <<a[1], a[2]>> /\ a[1] \in {"lookup", "lock", "rewrite"}
    BY <2>1
  <2>3. QED
    BY <1>2, <1>11, <2>2
<1>12. ~(\E d \in Contexts : ctx[d].state = "started" /\ c \in Repeats(d))
  BY <1>2 DEF Repeating
<1>13. ~Continues(c)
  <2>1. ~(loading[c] > 0)
    BY <1>8
  <2>2. QED
    BY <1>9, <1>10, <1>11, <1>12, <2>1 DEF Continues
<1>14. ASSUME NEW k \in DOMAIN primary PROVE primary[k] # c
  <2>1. c # NoContext
    BY DEF Typed, FlushInv, Records
  <2>2. primary[k] # NoContext => ctx[primary[k]].state \in {"started", "done"}
    BY DEF Core, PrimaryInv
  <2>3. QED
    BY <2>1, <2>2
<1>15. QED
  BY <1>2, <1>3, <1>13, <1>14 DEF Mentions

LEMMA CoreUnreferenced == ASSUME Typed, Core PROVE DeletedUnreferenced
<1>1. ASSUME NEW c \in Contexts, ctx[c].state = "retired"
      PROVE  ctx[c].preds = 0 /\ ctx[c].fetches = 0 /\ ctx[c].nested = 0
  <2>1. ctx[c].fetches \in Nat /\ ctx[c].nested \in Nat
    BY Naturals DEF Core
  <2>2. ~(ctx[c].fetches > 0) /\ ~ctx[c].waits /\ ~(ctx[c].nested > 0)
    BY <1>1 DEF Core, OneContinuation, Continuation, Still, Holds
  <2>3. OpenLinks(c) = {} /\ ctx[c].preds = Cardinality(OpenLinks(c)) + (IF ctx[c].waits THEN 1 ELSE 0)
    BY <1>1 DEF Core, LinksInv
  <2>4. QED
    BY <2>1, <2>2, <2>3, FS_EmptySet
<1>2. QED
  BY <1>1, Unmentioned DEF DeletedUnreferenced

LEMMA CoreContinues == ASSUME Typed, Core PROVE NoneLeftBehind
<1>1. SUFFICES ASSUME NEW c \in Contexts, ctx[c].state = "started", ~(ctx[c].nested > 0)
               PROVE  Continues(c)
  BY DEF NoneLeftBehind
<1>2. PICK C : C = Contexts
  OBVIOUS
<1>3. tasks \in Seq(TaskOf(C)) /\ budget.waiting \in Seq(WaitOf(C))
  BY <1>2 DEF Typed, Types, TypesOf, BudgetOf
<1>4. Started(c)
  BY <1>1 DEF Core, OneContinuation, Continuation
<1>5. ASSUME NEW K, Num(tasks, {c}, K) > 0 PROVE Continues(c)
  BY <1>3, <1>5, NumSome, ZenonT(30) DEF Continues
<1>6. CASE Still(c, StartedOps)
  <2>1. StartedOps # {}
    BY DEF StartedOps, ControlOps, Ops, LoadOps, Resumptions, NestedOps
  <2>2. Num(tasks, {c}, ControlOps) = 1
    BY <1>6, <2>1 DEF Still, Holds
  <2>3. Num(tasks, {c}, ControlOps) > 0
    BY <2>2
  <2>4. QED
    BY <1>5, <2>3
<1>7. ASSUME NEW k \in {"lookup", "lock", "rewrite"}, Holds(c, {}, {k}) PROVE Continues(c)
  <2>1. <<k, c>> \in asked
    BY <1>7 DEF Holds
  <2>2. <<k, c>>[2] = c
    OBVIOUS
  <2>3. QED
    BY <2>1, <2>2 DEF Continues
<1>8. CASE Holds(c, {}, {"repeats"})
  BY <1>8 DEF Holds, Repeating, Continues
<1>9. CASE Holds(c, {}, {"loads"})
  <2>1. ctx[c].fetches > 0 \/ ctx[c].waits
    BY <1>9 DEF Holds
  <2>2. /\ ctx[c].fetches = loading[c] + Num(tasks, {c}, LoadOps)
        /\ (IF ctx[c].waits THEN 1 ELSE 0)
             = Num(tasks, {c}, Resumptions) + Num(budget.waiting, {c}, Resumptions)
    BY <1>1 DEF Core, LoadsInv, LoadsOf
  <2>3. /\ Num(tasks, {c}, LoadOps) \in Nat /\ Num(tasks, {c}, Resumptions) \in Nat
        /\ Num(budget.waiting, {c}, Resumptions) \in Nat /\ loading[c] \in Nat
    BY <1>1, <1>3, NumPlaces, Naturals DEF Core
  <2>4. \/ loading[c] > 0 \/ Num(tasks, {c}, LoadOps) > 0
        \/ Num(tasks, {c}, Resumptions) > 0 \/ Num(budget.waiting, {c}, Resumptions) > 0
    BY <2>1, <2>2, <2>3
  <2>5. CASE Num(budget.waiting, {c}, Resumptions) > 0
    <3>1. PICK w : w = budget.waiting
      OBVIOUS
    <3>2. w \in Seq(WaitOf(C)) /\ Num(w, {c}, Resumptions) > 0
      BY <1>3, <2>5, <3>1
    <3>3. \E i \in DOMAIN w : w[i].c = c
      BY <3>2, NumSome
    <3>4. QED
      BY <3>1, <3>3 DEF Continues
  <2>6. CASE loading[c] > 0
    BY <2>6 DEF Continues
  <2>7. QED
    BY <1>5, <2>4, <2>5, <2>6
<1>10. CASE Holds(c, {}, {"nests"}) \/ Holds(c, NestedOps, {"nests"})
  BY <1>1, <1>10 DEF Holds
<1>11. QED
  BY <1>4, <1>6, <1>7, <1>8, <1>9, <1>10 DEF Started

(* A rewrite that waits for room to load is never forgotten: while any      *)
(* waits, every free place of the PageWorkBudget has a resumption queued    *)
(* (InputLoadDone, PassTurn, PopWaitingIfRoomLocked), for any limits and    *)
(* however loads, resumptions and the end of the bytes interleave.          *)
THEOREM WaitersResume == Spec => []NoWaiterForgotten
<1>1. Core => NoWaiterForgotten
  BY DEF Core, LoadsInv
<1>2. QED
  BY <1>1, ContextInvariant, PTL

(* A started rewrite always has something that will go on with it: no step  *)
(* of any thread drops its last callback, lookup, lock, load or place in a  *)
(* queue without leaving another.                                           *)
THEOREM RewritesContinue == Spec => []NoneLeftBehind
<1>1. Typed /\ Core => NoneLeftBehind
  BY CoreContinues
<1>2. QED
  BY <1>1, ContextInvariant, PTL

(* Nothing that still acts refers to a context that DeleteRewriteContext    *)
(* has deleted, nested ones included, and a context retires with nothing    *)
(* outstanding.                                                             *)
THEOREM DeletionIsSafe == Spec => []DeletedUnreferenced
<1>1. Typed /\ Core => DeletedUnreferenced
  BY CoreUnreferenced
<1>2. QED
  BY <1>1, ContextInvariant, PTL

---------------------------------------------------------------------------
(* The driver: what most steps of the rewrite sequence leave as it is.      *)

\* No top-level context comes or goes, and none is found to be slow.
SameStages ==
  \A d \in Contexts : Top(d) =>
    ctx'[d].state = ctx[d].state \/ (ctx[d].state \in Live /\ ctx'[d].state \in Live)
SameSlow == \A d \in Contexts : ctx'[d].slow = ctx[d].slow

\* The context c becomes x, a context of the same state and as slow.
Alike(x, y) == DOMAIN x = CtxFields /\ x.state = y.state /\ x.slow = y.slow

LEMMA AlikeChanges ==
  ASSUME NEW y, NEW x, Alike(x, y), NEW u, NEW v, NEW w
  PROVE  /\ Alike([x EXCEPT !.spent = u], y)
         /\ Alike([x EXCEPT !.next = u, !.fetches = v], y)
         /\ Alike([x EXCEPT !.next = u], y)
         /\ Alike([x EXCEPT !.fetches = u, !.waits = v, !.preds = w], y)
         /\ Alike([x EXCEPT !.partitions = u], y)
         /\ Alike([x EXCEPT !.revalidate = u, !.revalidateOk = v], y)
         /\ Alike([x EXCEPT !.revalidate = u, !.fetches = v], y)
         /\ Alike([x EXCEPT !.revalidate = u], y)
         /\ Alike([x EXCEPT !.fetches = u], y)
         /\ Alike([x EXCEPT !.fetches = u, !.revalidateOk = v], y)
  BY DEF Alike, CtxFields

LEMMA LoadStages ==
  ASSUME Typed, FetchInputs \/ RevalidateInputs \/ ResourceFetchDone \/ ResourceRevalidateDone
  PROVE  SameStages /\ SameSlow
<1>1. PICK C, c : C = Contexts /\ c = Running
  OBVIOUS
<1>2. \A d \in C : Alike(ctx[d], ctx[d]) /\ DOMAIN ctx[d] = CtxFields
  BY <1>1 DEF Typed, FlushInv, Records, Alike
<1>3. ASSUME NEW x, c \in C => Alike(x, ctx[c]), ctx' = [ctx EXCEPT ![c] = x] PROVE SameStages /\ SameSlow
  <2>1. DOMAIN ctx = C
    BY <1>1 DEF Contexts
  <2>2. \A d \in C : ctx'[d] = IF d = c THEN x ELSE ctx[d]
    BY <1>3, <2>1
  <2>3. QED
    BY <1>1, <1>3, <2>2 DEF Alike, SameStages, SameSlow
<1>4. ASSUME NEW r PROVE c \in C => Alike(Resumed(c, r), ctx[c])
  BY <1>2 DEF Resumed, Alike, CtxFields
<1>5. CASE FetchInputs
  <2> DEFINE x == Resumed(c, "ResumeFetchInputs")
             need(found) == x.inputs - x.next - found
             n(found) == Min({need(found), Room})
             Stops(found) == [x EXCEPT !.spent = need(found) > 0]
             Loads(found) == [x EXCEPT !.next = @ + found + n(found), !.fetches = @ + n(found)]
             Advances(found) == [x EXCEPT !.next = @ + found + n(found)]
             Waits(found) == [Advances(found) EXCEPT !.fetches = @ + n(found), !.waits = TRUE,
                                                     !.preds = @ + 1]
  <2>1. PICK found : \/ ctx' = [ctx EXCEPT ![c] = Stops(found)]
                     \/ ctx' = [ctx EXCEPT ![c] = Loads(found)]
                     \/ ctx' = [ctx EXCEPT ![c] = Waits(found)]
    BY <1>1, <1>5, Zenon DEF FetchInputs, Activate, LoadAndWait
  <2>2. c \in C => Alike(x, ctx[c])
    BY <1>4
  <2> HIDE DEF x, need, n
  <2>3. ASSUME c \in C
        PROVE  /\ Alike(Stops(found), ctx[c])
               /\ Alike(Loads(found), ctx[c])
               /\ Alike(Waits(found), ctx[c])
    BY <2>2, <2>3, AlikeChanges, ZenonT(30)
  <2> HIDE DEF Stops, Loads, Waits
  <2>4. QED
    BY <1>3, <2>1, <2>3
<1>6. CASE RevalidateInputs
  <2> DEFINE x == Resumed(c, "ResumeRevalidateInputs")
             n == Min({x.revalidate, Room})
             Spent == [x EXCEPT !.revalidate = 0, !.revalidateOk = FALSE]
             Loads == [x EXCEPT !.revalidate = 0, !.fetches = @ + n]
             Stops == [Spent EXCEPT !.partitions = Spent.fetches = 0 /\ Spent.revalidateOk]
             Ends == [Loads EXCEPT !.partitions = Loads.fetches = 0 /\ Loads.revalidateOk]
             Advances == [x EXCEPT !.revalidate = @ - n]
             Waits == [Advances EXCEPT !.fetches = @ + n, !.waits = TRUE, !.preds = @ + 1]
  <2>1. \/ ctx' = [ctx EXCEPT ![c] = Stops]
        \/ ctx' = [ctx EXCEPT ![c] = Ends]
        \/ ctx' = [ctx EXCEPT ![c] = Waits]
    BY <1>1, <1>6, Zenon DEF RevalidateInputs, FinishRevalidation, LoadAndWait
  <2>2. c \in C => Alike(x, ctx[c])
    BY <1>4
  <2> HIDE DEF x, n
  <2>3. ASSUME c \in C
        PROVE  Alike(Stops, ctx[c]) /\ Alike(Ends, ctx[c]) /\ Alike(Waits, ctx[c])
    <3>1. Alike(Spent, ctx[c]) /\ Alike(Loads, ctx[c]) /\ Alike(Advances, ctx[c])
      BY <2>2, <2>3, AlikeChanges, ZenonT(30)
    <3> HIDE DEF Spent, Loads, Advances
    <3>2. QED
      BY <3>1, AlikeChanges, ZenonT(30)
  <2> HIDE DEF Stops, Ends, Waits
  <2>4. QED
    BY <1>3, <2>1, <2>3
<1>7. CASE ResourceFetchDone
  <2>1. PICK u : ctx' = [ctx EXCEPT ![c] = [ctx[c] EXCEPT !.fetches = u]]
    BY <1>1, <1>7 DEF ResourceFetchDone, Activate
  <2>2. c \in C => Alike([ctx[c] EXCEPT !.fetches = u], ctx[c])
    BY <1>2, AlikeChanges, ZenonT(30)
  <2>3. QED
    BY <1>3, <2>1, <2>2, ZenonT(30)
<1>8. CASE ResourceRevalidateDone
  <2> DEFINE x == [ctx[c] EXCEPT !.fetches = @ - 1, !.revalidateOk = @ /\ Argument = "same"]
             y == [x EXCEPT !.partitions = x.fetches = 0 /\ x.revalidateOk]
  <2>1. ctx' = [ctx EXCEPT ![c] = x] \/ ctx' = [ctx EXCEPT ![c] = y]
    BY <1>1, <1>8, Zenon DEF ResourceRevalidateDone, FinishRevalidation
  <2>2. c \in C => Alike(x, ctx[c])
    BY <1>2, AlikeChanges, ZenonT(30)
  <2> HIDE DEF x
  <2>3. c \in C => Alike(y, ctx[c])
    BY <2>2, AlikeChanges, ZenonT(30)
  <2> HIDE DEF y
  <2>4. QED
    BY <1>3, <2>1, <2>2, <2>3
<1>9. QED
  BY <1>5, <1>6, <1>7, <1>8

\* The steps that move one context.
LEMMA OneStages ==
  ASSUME Typed, Core,
         \/ StartDisabled \/ StartRefused \/ StartPrimary \/ OutputCacheHit \/ OutputCacheMiss
         \/ LockFailed \/ StopForPageInputBytes \/ PartitionDone \/ StartNestedTasksImpl
         \/ RewriteDoneImpl \/ Finalize \/ RepeatedSuccess \/ RepeatedFailure
  PROVE  SameStages /\ SameSlow
<1>1. PICK C, c, h : C = Contexts /\ c = Running /\ h = Head(tasks).op
  OBVIOUS
<1>2. tasks # <<>> /\ h \in ControlOps /\ (h = "Start" \/ h \in StartedOps \/ h \in NestedOps)
  BY <1>1, Controls DEF StartDisabled, StartRefused, StartPrimary, OutputCacheHit, OutputCacheMiss,
     LockFailed, StopForPageInputBytes, PartitionDone, StartNestedTasksImpl, RewriteDoneImpl,
     Finalize, RepeatedSuccess, RepeatedFailure, AtHead, NestedOps, RepeatedOps
<1>3. c \in C /\ ctx[c].state \in Live
  BY <1>1, <1>2, HeadRuns DEF Core, Runs, Live
<1>4. \A d \in C : DOMAIN ctx[d] = CtxFields
  BY <1>1 DEF Typed, FlushInv, Records
<1>5. ASSUME \A d \in C : ctx'[d].slow = ctx[d].slow,
             \A d \in C : d # c => ctx'[d].state = ctx[d].state,
             ctx'[c].state = ctx[c].state \/ ctx'[c].state \in Live
      PROVE  SameStages /\ SameSlow
  BY <1>1, <1>3, <1>5 DEF SameStages, SameSlow
<1>6. "started" \in Live /\ "done" \in Live /\ DOMAIN ctx = C
  BY <1>1 DEF Live, Contexts
<1>7. ASSUME NEW v, ctx' = [ctx EXCEPT ![c].state = v], v \in Live PROVE SameStages /\ SameSlow
  BY <1>3, <1>4, <1>5, <1>6, <1>7 DEF CtxFields
<1>8. ASSUME NEW v, NEW u, ctx' = [ctx EXCEPT ![c].state = v, ![c].busy = u], v \in Live
      PROVE SameStages /\ SameSlow
  BY <1>3, <1>4, <1>5, <1>6, <1>8 DEF CtxFields
<1>9. ASSUME NEW v, NEW u, ctx' = [ctx EXCEPT ![c].state = v, ![c].lock = u], v \in Live
      PROVE SameStages /\ SameSlow
  BY <1>3, <1>4, <1>5, <1>6, <1>9 DEF CtxFields
<1>10. ASSUME NEW v, NEW u, NEW w, v \in Live,
              ctx' = [ctx EXCEPT ![c].state = v, ![c].partitions = u, ![c].busy = w]
       PROVE SameStages /\ SameSlow
  BY <1>3, <1>4, <1>5, <1>6, <1>10 DEF CtxFields
<1>11. ASSUME NEW u, ctx' = [ctx EXCEPT ![c].partitions = u] PROVE SameStages /\ SameSlow
  BY <1>3, <1>4, <1>5, <1>6, <1>11 DEF CtxFields
<1>12. ASSUME NEW u, ctx' = [ctx EXCEPT ![c].busy = u] PROVE SameStages /\ SameSlow
  BY <1>3, <1>4, <1>5, <1>6, <1>12 DEF CtxFields
<1>13. CASE StartDisabled \/ RepeatedFailure \/ StartPrimary
  BY <1>1, <1>6, <1>7, <1>13 DEF StartDisabled, RepeatedFailure, StartPrimary
<1>14. CASE StartRefused
  BY <1>1, <1>6, <1>8, <1>14 DEF StartRefused
<1>15. CASE Finalize
  BY <1>1, <1>6, <1>9, <1>15 DEF Finalize
<1>16. CASE RepeatedSuccess
  BY <1>1, <1>6, <1>10, <1>16 DEF RepeatedSuccess
<1>17. CASE OutputCacheHit \/ OutputCacheMiss
  BY <1>1, <1>11, <1>17 DEF OutputCacheHit, OutputCacheMiss
<1>18. CASE LockFailed \/ StopForPageInputBytes
  BY <1>1, <1>12, <1>18 DEF LockFailed, StopForPageInputBytes
<1>19. CASE PartitionDone
  BY <1>1, <1>11, <1>12, <1>19 DEF PartitionDone
<1>20. CASE RewriteDoneImpl
  <2>1. PICK b : b = (ctx[c].busy \/ Argument = "kTooBusy")
    OBVIOUS
  <2>2. ctx' = [ctx EXCEPT ![c].busy = b]
    BY <1>1, <1>20, <2>1 DEF RewriteDoneImpl
  <2>3. QED
    BY <1>12, <2>2
<1>21. CASE StartNestedTasksImpl
  BY <1>5, <1>21 DEF StartNestedTasksImpl
<1>22. QED
  BY <1>13, <1>14, <1>15, <1>16, <1>17, <1>18, <1>19, <1>20, <1>21

LEMMA NestedStages ==
  ASSUME Typed, Core, RetireNested PROVE SameStages /\ SameSlow
<1>1. PICK C, c, p, g : C = Contexts /\ c = Running /\ p = ctx[c].parent /\ g = RunSuccessors(c)
  OBVIOUS
<1>2. /\ tasks # <<>> /\ ~Top(c) /\ ctx' = [g EXCEPT ![p].nested = @ - 1, ![p].busy = @ \/ ctx[c].busy]
  BY <1>1 DEF RetireNested, AtHead
<1>3. g = [d \in C |-> IF d = c THEN [ctx[c] EXCEPT !.state = "retired", !.successors = [e \in C |-> 0]]
                                ELSE [ctx[d] EXCEPT !.preds = @ - ctx[c].successors[d]]]
  BY <1>1 DEF RunSuccessors
<1>4. \A d \in C : DOMAIN ctx[d] = CtxFields
  BY <1>1 DEF Typed, FlushInv, Records
<1>5. /\ DOMAIN g = C
      /\ \A d \in C : DOMAIN g[d] = CtxFields /\ g[d].slow = ctx[d].slow /\ (d # c => g[d].state = ctx[d].state)
  BY <1>3, <1>4 DEF CtxFields
<1>6. \A d \in C : ctx'[d].slow = g[d].slow /\ ctx'[d].state = g[d].state
  BY <1>2, <1>5 DEF CtxFields
<1>7. QED
  BY <1>1, <1>2, <1>5, <1>6 DEF SameStages, SameSlow

LEMMA OtherStages ==
  ASSUME Typed, Core, Lookups \/ Answers \/ LowPriority \/ Idle \/ UNCHANGED vars
  PROVE  SameStages /\ SameSlow
<1>1. CASE ctx' = ctx
  BY <1>1 DEF SameStages, SameSlow
<1>2. PICK C : C = Contexts
  OBVIOUS
<1>3. \A d \in C : DOMAIN ctx[d] = CtxFields
  BY <1>2 DEF Typed, FlushInv, Records
<1>4. ASSUME NEW c \in Contexts, LockDone(c) PROVE SameStages /\ SameSlow
  <2>1. PICK granted : ctx' = [ctx EXCEPT ![c].lock = granted]
    BY <1>4 DEF LockDone
  <2>2. \A d \in C : ctx'[d].slow = ctx[d].slow /\ ctx'[d].state = ctx[d].state
    BY <1>2, <1>3, <2>1 DEF CtxFields, Contexts
  <2>3. QED
    BY <1>2, <2>2 DEF SameStages, SameSlow
<1>5. ASSUME NEW c \in Contexts, RewriteNested(c) PROVE SameStages /\ SameSlow
  <2> DEFINE Rank(d) == Cardinality({e \in Children(c) : e <= d})
             room == Min({Cardinality(Children(c)), MaxContexts - budget.contexts})
             P(d) == [ctx[d] EXCEPT !.state = "built", !.place = IF Rank(d) <= room THEN "taken" ELSE "refused"]
             Q(d) == [ctx[d] EXCEPT !.nested = Cardinality(Children(c))]
  <2>1. ctx' = [d \in C |-> IF d \in Children(c) THEN P(d) ELSE IF d = c THEN Q(d) ELSE ctx[d]]
    BY <1>2, <1>5 DEF RewriteNested
  <2>2. \A d \in C : P(d).slow = ctx[d].slow /\ Q(d).slow = ctx[d].slow /\ Q(d).state = ctx[d].state
    BY <1>3 DEF CtxFields
  <2> HIDE DEF P, Q
  <2>3. \A d \in C : ctx'[d].slow = ctx[d].slow /\ (d \notin Children(c) => ctx'[d].state = ctx[d].state)
    BY <2>1, <2>2
  <2>4. \A d \in Children(c) : ~Top(d)
    BY <1>5, ChildrenOf
  <2>5. QED
    BY <1>2, <2>3, <2>4 DEF SameStages, SameSlow
<1>6. QED
  BY <1>1, <1>4, <1>5 DEF Lookups, Answers, LowPriority, Idle, LookupDone, LoadDone, Rewrite, vars

---------------------------------------------------------------------------
(* The driver's rewrites and references.                                    *)

TopLive == {c \in Contexts : Top(c) /\ ctx[c].state \in Live}
TopRetired == {c \in Contexts : Top(c) /\ ctx[c].state = "retired"}

\* The driver but for the signal.
Carries(e) ==
  /\ drv'.rewrites = e.rewrites /\ drv'.initiated = e.initiated /\ drv'.detached = e.detached
  /\ drv'.refs = e.refs /\ drv'.released = e.released /\ drv'.quick = e.quick
  /\ drv'.waiting = e.waiting /\ drv'.reached = e.reached

LEMMA SignalCarries ==
  ASSUME NEW e, DOMAIN e = DrvFields, drv' = SignalIfRequired(drv, e) PROVE Carries(e)
<1>1. \A f \in DrvFields \ {"woken"} : drv'[f] = e[f]
  BY SignalKeeps
<1>2. QED
  BY <1>1 DEF Carries, DrvFields

LEMMA ReportCarries ==
  ASSUME Records, NEW c, drv' = ReportSlow(c)
  PROVE  /\ drv'.rewrites = drv.rewrites /\ drv'.initiated = drv.initiated /\ drv'.detached = drv.detached
         /\ drv'.refs = drv.refs /\ drv'.released = drv.released
         /\ drv'.waiting = drv.waiting /\ drv'.reached = drv.reached
         /\ IF NewlySlow(c) = {} THEN drv'.quick = drv.quick
                                 ELSE drv'.quick = drv.quick - Cardinality(NewlySlow(c))
<1>1. PICK m, e : m = Cardinality(NewlySlow(c)) /\ e = [drv EXCEPT !.quick = @ - m]
  OBVIOUS
<1>2. CASE NewlySlow(c) = {}
  BY <1>2 DEF ReportSlow
<1>3. CASE NewlySlow(c) # {}
  <2>1. drv' = SignalIfRequired(drv, e)
    BY <1>1, <1>3 DEF ReportSlow, ReportSlowRewrites
  <2>2. /\ DOMAIN e = DrvFields /\ e.rewrites = drv.rewrites /\ e.initiated = drv.initiated
        /\ e.detached = drv.detached /\ e.refs = drv.refs /\ e.released = drv.released
        /\ e.waiting = drv.waiting /\ e.reached = drv.reached /\ e.quick = drv.quick - m
    BY <1>1 DEF Records, DrvFields
  <2>3. Carries(e)
    BY <2>1, <2>2, SignalCarries
  <2>4. QED
    BY <1>1, <1>3, <2>2, <2>3 DEF Carries
<1>4. QED
  BY <1>2, <1>3

SameRefs ==
  /\ drv'.rewrites = drv.rewrites /\ drv'.initiated = drv.initiated /\ drv'.detached = drv.detached
  /\ drv'.refs = drv.refs /\ drv'.released = drv.released

\* The conjuncts of DriverInv after a step, by what the step leaves.
DriverAfter(T, R) ==
  /\ drv'.rewrites \cup drv'.initiated \cup drv'.detached = T
  /\ drv'.rewrites \cap drv'.detached = {} /\ drv'.initiated \cap drv'.detached = {}
  /\ drv'.refs.pending = Cardinality(drv'.rewrites \cup drv'.initiated)
  /\ drv'.refs.detached = Cardinality(drv'.detached)
  /\ drv'.refs.deleting = Cardinality(R)
  /\ drv'.refs.user = (IF html'.pc = "finished" THEN 0 ELSE 1)
  /\ drv'.refs.parsing = (IF html'.pc \in {"cleanup", "finished"} THEN 0 ELSE 1)
  /\ drv'.released = (IF Unreferenced(drv'.refs) THEN 1 ELSE 0)

LEMMA DriverFrom ==
  ASSUME Frame, NEW T, T = {c \in Contexts : Top(c) /\ ctx'[c].state \in Live},
         NEW R, R = {c \in Contexts : Top(c) /\ ctx'[c].state = "retired"}, DriverAfter(T, R)
  PROVE  DriverInv'
<1>1. T = (TopLive)' /\ R = (TopRetired)'
  BY LinksKept DEF TopLive, TopRetired
<1>2. QED
  BY <1>1 DEF DriverInv, DriverAfter, RefsAccounted, TopLive, TopRetired

LEMMA DriverIs ==
  ASSUME DriverInv
  PROVE  /\ drv.rewrites \cup drv.initiated \cup drv.detached = TopLive
         /\ drv.rewrites \cap drv.detached = {} /\ drv.initiated \cap drv.detached = {}
         /\ drv.refs.pending = Cardinality(drv.rewrites \cup drv.initiated)
         /\ drv.refs.detached = Cardinality(drv.detached)
         /\ drv.refs.deleting = Cardinality(TopRetired)
         /\ drv.refs.user = (IF html.pc = "finished" THEN 0 ELSE 1)
         /\ drv.refs.parsing = (IF html.pc \in {"cleanup", "finished"} THEN 0 ELSE 1)
         /\ drv.released = (IF Unreferenced(drv.refs) THEN 1 ELSE 0)
  BY DEF DriverInv, RefsAccounted, TopLive, TopRetired

LEMMA StagesSame ==
  ASSUME SameStages
  PROVE  /\ {c \in Contexts : Top(c) /\ ctx'[c].state \in Live} = TopLive
         /\ {c \in Contexts : Top(c) /\ ctx'[c].state = "retired"} = TopRetired
  BY DEF SameStages, TopLive, TopRetired, Live

LEMMA DriverSame ==
  ASSUME Typed, Frame, DriverInv, SameStages, SameRefs,
         html'.pc = "finished" <=> html.pc = "finished",
         html'.pc \in {"cleanup", "finished"} <=> html.pc \in {"cleanup", "finished"}
  PROVE  DriverInv'
<1>1. DriverAfter(TopLive, TopRetired)
  BY DriverIs DEF DriverAfter, SameRefs
<1>2. QED
  BY <1>1, StagesSame, DriverFrom

LEMMA TopSets ==
  ASSUME Typed
  PROVE  /\ IsFiniteSet(TopLive) /\ IsFiniteSet(TopRetired)
         /\ IsFiniteSet(drv.rewrites) /\ IsFiniteSet(drv.initiated) /\ IsFiniteSet(drv.detached)
         /\ IsFiniteSet(drv.rewrites \cup drv.initiated)
         /\ drv.rewrites \subseteq Contexts /\ drv.initiated \subseteq Contexts /\ drv.detached \subseteq Contexts
<1>1. IsFiniteSet(Contexts) /\ drv.rewrites \subseteq Contexts /\ drv.initiated \subseteq Contexts
  BY DEF Typed, FlushInv, Records, WindowInv
<1>2. drv.detached \subseteq Contexts
  BY DEF Typed, Types, TypesOf
<1>3. TopLive \subseteq Contexts /\ TopRetired \subseteq Contexts
  BY DEF TopLive, TopRetired
<1>4. drv.rewrites \cup drv.initiated \subseteq Contexts
  BY <1>1
<1>5. QED
  BY <1>1, <1>2, <1>3, <1>4, FS_Subset

\* The counts of references, all of them.
RefsAre(r, u, p, n, t, l) ==
  /\ DOMAIN r = RefKinds
  /\ r.user = u /\ r.parsing = p /\ r.pending = n /\ r.detached = t /\ r.deleting = l

LEMMA Referenced ==
  ASSUME NEW r, NEW u, NEW p, NEW n, NEW t, NEW l, RefsAre(r, u, p, n, t, l)
  PROVE  Unreferenced(r) <=> u = 0 /\ p = 0 /\ n = 0 /\ t = 0 /\ l = 0
  BY DEF RefsAre, Unreferenced, RefKinds

---------------------------------------------------------------------------
(* Contexts found to be slow.                                               *)

\* c and those that depend on it are marked and reported.
Slowed(c) ==
  /\ \A d \in Contexts : IF d \in NewlySlow(c) THEN ctx'[d].slow = TRUE ELSE ctx'[d].slow = ctx[d].slow
  /\ drv' = ReportSlow(c)
  /\ c \in Contexts /\ ctx[c].state \in {"built", "started"} /\ c \notin drv.rewrites

LEMMA SlowMarks ==
  ASSUME Records, NEW c
  PROVE  \A d \in Contexts : IF d \in NewlySlow(c) THEN MarkSlow(c)[d].slow = TRUE
                                                   ELSE MarkSlow(c)[d].slow = ctx[d].slow
<1>1. \A d \in Contexts : DOMAIN ctx[d] = CtxFields
  BY DEF Records
<1>2. \A d \in Contexts : MarkSlow(c)[d] = IF d \in NewlySlow(c) THEN [ctx[d] EXCEPT !.slow = TRUE] ELSE ctx[d]
  BY DEF MarkSlow
<1>3. QED
  BY <1>1, <1>2 DEF CtxFields

LEMMA SlowStages ==
  ASSUME Typed, Core, OutputCacheNotOk \/ StartRepeated
  PROVE  SameStages /\ ((SameSlow /\ drv' = drv) \/ \E c : Slowed(c))
<1>1. PICK C, c, h, g : C = Contexts /\ c = Running /\ h = Head(tasks).op /\ g = MarkSlow(c)
  OBVIOUS
<1>2. tasks # <<>> /\ (h = "OutputCacheDone" \/ h = "Start") /\ h \in ControlOps
  BY <1>1, Controls, ZenonT(30) DEF OutputCacheNotOk, StartRepeated, AtHead
<1>3. /\ c \in C /\ Runs(c, h) /\ Num(tasks, {c}, ControlOps) = 1
  BY <1>1, <1>2, HeadRuns DEF Core, Runs
<1>4. ctx[c].state = (IF h = "Start" THEN "built" ELSE "started")
  BY <1>2, <1>3, Controls DEF Runs
<1>5. c \notin drv.rewrites
  BY <1>3 DEF Core, WindowsInv
<1>6. Records /\ (\A d \in C : DOMAIN ctx[d] = CtxFields) /\ DOMAIN ctx = C
  BY <1>1 DEF Typed, FlushInv, Records, Contexts
<1>7. /\ DOMAIN g = C /\ \A d \in C : DOMAIN g[d] = CtxFields /\ g[d].state = ctx[d].state
      /\ \A d \in C : IF d \in NewlySlow(c) THEN g[d].slow = TRUE ELSE g[d].slow = ctx[d].slow
  <2>1. /\ DOMAIN MarkSlow(c) = Contexts
        /\ \A d \in Contexts : DOMAIN MarkSlow(c)[d] = CtxFields
        /\ \A d \in Contexts : \A f \in CtxFields \ {"slow"} : MarkSlow(c)[d][f] = ctx[d][f]
    BY <1>6, SlowSame
  <2>2. QED
    BY <1>1, <1>6, <2>1, SlowMarks DEF CtxFields
<1>8. CASE OutputCacheNotOk
  <2>1. /\ drv' = ReportSlow(c)
        /\ ctx' = g \/ \E n : ctx' = [g EXCEPT ![c].revalidate = n]
    BY <1>1, <1>8 DEF OutputCacheNotOk
  <2>2. \A d \in C : ctx'[d].slow = g[d].slow /\ ctx'[d].state = g[d].state
    BY <1>7, <2>1 DEF CtxFields
  <2>3. SameStages
    BY <1>1, <1>7, <2>2 DEF SameStages
  <2>4. Slowed(c)
    BY <1>1, <1>3, <1>4, <1>5, <1>7, <2>1, <2>2 DEF Slowed
  <2>5. QED
    BY <2>3, <2>4
<1>9. CASE StartRepeated
  <2>1. PICK p : p = primary[ctx[c].key]
    OBVIOUS
  <2>2. h = "Start" /\ ctx[c].state \in Live /\ "started" \in Live /\ "done" \in Live
    BY <1>1, <1>4, <1>9, ZenonT(30) DEF StartRepeated, AtHead, Live
  <2>3. CASE ctx' = [ctx EXCEPT ![c].state = "done"] /\ drv' = drv
    <3>1. \A d \in C : ctx'[d].slow = ctx[d].slow /\ (ctx'[d].state = ctx[d].state \/ (d = c /\ ctx'[d].state = "done"))
      BY <1>6, <2>3 DEF CtxFields
    <3>2. QED
      BY <1>1, <2>2, <2>3, <3>1 DEF SameStages, SameSlow
  <2>4. ASSUME NEW k, DOMAIN k = C, \A d \in C : DOMAIN k[d] = CtxFields /\ k[d].state = ctx[d].state,
               ctx' = [k EXCEPT ![c].state = "started", ![p].repeated = Append(@, c)]
        PROVE  SameStages /\ \A d \in C : ctx'[d].slow = k[d].slow
    <3>1. \A d \in C : ctx'[d].slow = k[d].slow /\ (ctx'[d].state = ctx[d].state \/ (d = c /\ ctx'[d].state = "started"))
      BY <2>4 DEF CtxFields
    <3>2. QED
      BY <1>1, <2>2, <3>1 DEF SameStages
  <2>5. CASE ctx[p].slow /\ ctx' = [g EXCEPT ![c].state = "started", ![p].repeated = Append(@, c)]
             /\ drv' = ReportSlow(c)
    <3>1. SameStages /\ \A d \in C : ctx'[d].slow = g[d].slow
      BY <1>7, <2>4, <2>5
    <3>2. Slowed(c)
      BY <1>1, <1>3, <1>4, <1>5, <1>7, <2>5, <3>1 DEF Slowed
    <3>3. QED
      BY <3>1, <3>2
  <2>6. CASE ctx' = [ctx EXCEPT ![c].state = "started", ![p].repeated = Append(@, c)] /\ drv' = drv
    <3>1. SameStages /\ \A d \in C : ctx'[d].slow = ctx[d].slow
      BY <1>6, <2>4, <2>6
    <3>2. QED
      BY <1>1, <2>6, <3>1 DEF SameSlow
  <2>7. QED
    BY <1>1, <1>9, <2>1, <2>3, <2>5, <2>6, ZenonT(30) DEF StartRepeated
<1>10. QED
  BY <1>8, <1>9

\* The contexts of its window that depend on one that was initiated were
\* initiated with it.
LEMMA DependentsOf ==
  ASSUME Typed, Core, NEW e \in Contexts, Top(e), ctx[e].state \in {"built", "started"}, e \notin drv.rewrites,
         NEW d, d \in Successors(e) \cup Repeats(e), Top(d)
  PROVE  d \in Contexts /\ ctx[d].state \in {"built", "started"} /\ d \notin drv.rewrites
<1>1. drv.canRewrite
  BY DEF Core, WindowsInv, Typed, Types, TypesOf
<1>2. CASE d \in Successors(e)
  <2>1. d \in Contexts /\ ctx[e].successors[d] > 0
    BY <1>2 DEF Successors
  <2>2. ctx[e].successors[d] # 0
    BY <2>1
  <2>3. Cardinality(Links(ctx, e, d)) # 0 /\ IsFiniteSet(ctx[d].slots)
    BY <2>1, <2>2 DEF Core, LinksInv, Typed, Types, Shapes
  <2>4. Links(ctx, e, d) # {}
    BY <2>3, FS_EmptySet
  <2>5. ctx[e].window = ctx[d].window
    BY <2>1, <2>4 DEF Links, Typed, Types, Shapes
  <2>6. OpenLinks(d) # {}
    BY <2>1, <2>2, <2>4 DEF OpenLinks
  <2>7. ctx[d].state \notin {"started", "done", "retired"}
    BY <2>1, <2>6 DEF Core, LinksInv
  <2>8. ctx[d].state # "deleted"
    BY <1>1, <2>1, <2>6 DEF Core, WindowsInv
  <2>9. /\ ctx[e].window \in Nat /\ html.window \in Nat /\ ctx[e].window <= html.window
        /\ ~(ctx[e].window = html.window /\ html.pc = "parsing")
    <3>1. ctx[e].window \in 1..NumWindows /\ html.window \in 1..NumWindows /\ NumWindows \in Nat
      BY LimitsAssumption DEF Typed, Types, TypesOf, CtxType
    <3>2. QED
      BY <1>1, <3>1 DEF Core, WindowsInv
  <2>10. ctx[d].state # "unborn"
    <3>1. SUFFICES ASSUME ctx[d].state = "unborn" PROVE FALSE
      OBVIOUS
    <3>2. ctx[d].window > html.window \/ (ctx[d].window = html.window /\ html.pc = "parsing")
      BY <2>1, <3>1 DEF Core, WindowsInv
    <3>3. QED
      BY <2>5, <2>9, <3>2
  <2>11. ctx[d].state \in States
    BY <2>1 DEF Typed, Types, TypesOf, CtxType
  <2>12. d \notin drv.rewrites
    BY <2>5, <2>9 DEF Typed, FlushInv, WindowInv
  <2>13. QED
    BY <2>1, <2>7, <2>8, <2>10, <2>11, <2>12 DEF States
<1>3. CASE d \in Repeats(e)
  <2>1. ctx[e].state = "started"
    <3>1. ctx[e].repeated # <<>>
      BY <1>3 DEF Repeats
    <3>2. QED
      BY <3>1 DEF Core, PrimaryInv
  <2>2. d \in Contexts /\ Repeating(d)
    BY <1>3, <2>1, RepeatsIn DEF Repeating
  <2>3. ctx[d].state = "started"
    BY <2>2, Awaiting DEF Core, Awaits
  <2>4. d \notin drv.rewrites
    BY <2>3 DEF Core, WindowsInv
  <2>5. QED
    BY <2>2, <2>3, <2>4
<1>4. QED
  BY <1>2, <1>3

LEMMA NewlySlowAre ==
  ASSUME Typed, Core, NEW c \in Contexts, ctx[c].state \in {"built", "started"}, c \notin drv.rewrites
  PROVE  \A d \in NewlySlow(c) :
           d \in Contexts /\ Top(d) /\ ctx[d].state \in Live /\ d \notin drv.rewrites /\ ~ctx[d].slow
<1>1. SUFFICES ASSUME Top(c)
               PROVE  \A d \in CollectDependentTopLevel(c) :
                        d \in Contexts /\ Top(d) /\ ctx[d].state \in {"built", "started"} /\ d \notin drv.rewrites
  BY DEF NewlySlow, Live
<1>2. PICK S, step, P :
        /\ S = {c} /\ step = [e \in Contexts |-> {d \in Successors(e) \cup Repeats(e) : Top(d)}]
        /\ P = {d \in Contexts : Top(d) /\ ctx[d].state \in {"built", "started"} /\ d \notin drv.rewrites}
  OBVIOUS
<1>3. IsFiniteSet(Contexts)
  BY DEF Typed, FlushInv, Records
<1>4. S \subseteq P
  BY <1>1, <1>2
<1>5. ASSUME NEW e \in P PROVE step[e] \subseteq P
  <2>1. /\ e \in Contexts /\ Top(e) /\ ctx[e].state \in {"built", "started"} /\ e \notin drv.rewrites
    BY <1>2, <1>5
  <2>2. step[e] = {d \in Successors(e) \cup Repeats(e) : Top(d)}
    BY <1>2, <2>1
  <2>3. ASSUME NEW d \in step[e] PROVE d \in P
    <3>1. d \in Successors(e) \cup Repeats(e) /\ Top(d)
      BY <2>2, <2>3
    <3>2. d \in Contexts /\ ctx[d].state \in {"built", "started"} /\ d \notin drv.rewrites
      BY <2>1, <3>1, DependentsOf
    <3>3. QED
      BY <1>2, <3>1, <3>2
  <2>4. QED
    BY <2>3
<1>6. CollectDependentTopLevel(c) = Closure(S, step)
  BY <1>2 DEF CollectDependentTopLevel
<1>7. Closure(S, step) \subseteq P
  BY <1>3, <1>4, <1>5, ClosureLeast
<1>8. QED
  BY <1>2, <1>6, <1>7

LEMMA SequenceRest ==
  ASSUME Typed, Core, RewriteSequence, ~RewriteComplete, ~DeleteRewriteContext
  PROVE  /\ SameStages /\ SameRefs /\ html' = html
         /\ (SameSlow /\ drv' = drv) \/ \E c : Slowed(c)
<1>1. html' = html
  BY SequenceSignals DEF Typed, FlushInv
<1>2. ASSUME drv' = drv PROVE SameRefs
  BY <1>2 DEF SameRefs
<1>3. ASSUME NEW c, drv' = ReportSlow(c) PROVE SameRefs
  BY <1>3, ReportCarries DEF SameRefs, Typed, FlushInv
<1>4. CASE OutputCacheNotOk \/ StartRepeated
  <2>1. SameStages /\ ((SameSlow /\ drv' = drv) \/ \E c : Slowed(c))
    BY <1>4, SlowStages
  <2>2. drv' = drv \/ \E c : drv' = ReportSlow(c)
    BY <1>4, ZenonT(30) DEF OutputCacheNotOk, StartRepeated
  <2>3. QED
    BY <1>1, <1>2, <1>3, <2>1, <2>2
<1>5. CASE \/ StartDisabled \/ StartRefused \/ StartPrimary \/ OutputCacheHit \/ OutputCacheMiss
           \/ LockFailed \/ StopForPageInputBytes \/ PartitionDone \/ StartNestedTasksImpl
           \/ RewriteDoneImpl \/ Finalize \/ RepeatedSuccess \/ RepeatedFailure
  <2>1. drv' = drv
    BY <1>5
    DEF StartDisabled, StartRefused, StartPrimary, OutputCacheHit, OutputCacheMiss, LockFailed,
       StopForPageInputBytes, PartitionDone, StartNestedTasksImpl, RewriteDoneImpl, Finalize,
       RepeatedSuccess, RepeatedFailure
  <2>2. QED
    BY <1>1, <1>2, <1>5, <2>1, OneStages
<1>6. CASE FetchInputs \/ RevalidateInputs \/ ResourceFetchDone \/ ResourceRevalidateDone
  <2>1. drv' = drv
    BY <1>6 DEF FetchInputs, RevalidateInputs, ResourceFetchDone, ResourceRevalidateDone
  <2>2. QED
    BY <1>1, <1>2, <1>6, <2>1, LoadStages
<1>7. CASE RetireNested
  BY <1>1, <1>2, <1>7, NestedStages DEF RetireNested
<1>8. QED
  BY <1>4, <1>5, <1>6, <1>7 DEF RewriteSequence

LEMMA OneLess ==
  ASSUME NEW S, IsFiniteSet(S), NEW x \in S, NEW T, T = S \ {x}
  PROVE  IsFiniteSet(T) /\ Cardinality(T) = Cardinality(S) - 1 /\ Cardinality(S) \in Nat /\ Cardinality(S) > 0
<1>1. IsFiniteSet(T) /\ Cardinality(T) = Cardinality(S) - 1
  BY FS_RemoveElement
<1>2. Cardinality(S) \in Nat /\ Cardinality(S) # 0
  BY FS_CardinalityType, FS_EmptySet
<1>3. QED
  BY <1>1, <1>2

LEMMA OneMore ==
  ASSUME NEW S, IsFiniteSet(S), NEW x, x \notin S, NEW T, T = S \cup {x}
  PROVE  IsFiniteSet(T) /\ Cardinality(T) = Cardinality(S) + 1 /\ Cardinality(S) \in Nat
  BY FS_AddElement, FS_CardinalityType

\* RewriteComplete, for the driver.
Completed(c) ==
  /\ c \in TopLive /\ c \notin drv.rewrites /\ c \in Contexts
  /\ ctx'[c].state = "retired" /\ \A d \in Contexts \ {c} : ctx'[d].state = ctx[d].state
  /\ SameSlow
  /\ drv'.rewrites = drv.rewrites /\ drv'.released = drv.released
  /\ drv'.waiting = drv.waiting /\ drv'.reached = drv.reached
  /\ DOMAIN drv'.refs = RefKinds
  /\ drv'.refs.user = drv.refs.user /\ drv'.refs.parsing = drv.refs.parsing
  /\ drv'.refs.deleting = drv.refs.deleting + 1
  /\ IF c \in drv.initiated
     THEN /\ drv'.initiated = drv.initiated \ {c} /\ drv'.detached = drv.detached
          /\ drv'.refs.pending = drv.refs.pending - 1 /\ drv'.refs.detached = drv.refs.detached
          /\ drv'.quick = IF ctx[c].slow THEN drv.quick ELSE drv.quick - 1
     ELSE /\ drv'.initiated = drv.initiated /\ drv'.detached = drv.detached \ {c}
          /\ drv'.refs.pending = drv.refs.pending /\ drv'.refs.detached = drv.refs.detached - 1
          /\ drv'.quick = drv.quick
  /\ html' = html

LEMMA Completes ==
  ASSUME Typed, Core, RewriteComplete PROVE \E c : Completed(c)
<1>1. PICK C, c, g, e : /\ C = Contexts /\ c = Running /\ g = RunSuccessors(c)
                        /\ e = IF c \in drv.initiated THEN CompleteAttached(c) ELSE CompleteDetached(c)
  OBVIOUS
<1>2. /\ tasks # <<>> /\ Head(tasks).op = "Retire" /\ Top(c) /\ ctx' = g
      /\ drv' = SignalIfRequired(drv, e) /\ html' = html
  BY <1>1 DEF RewriteComplete, AtHead
<1>3. c \in C /\ ctx[c].state = "done"
  <2>1. Head(tasks).op \in ControlOps
    BY <1>2, Controls
  <2>2. QED
    BY <1>1, <1>2, <2>1, HeadRuns DEF Core, Runs
<1>4. c \in TopLive /\ c \notin drv.rewrites
  BY <1>1, <1>2, <1>3 DEF TopLive, Live, Core, WindowsInv
<1>5. \A d \in C : DOMAIN ctx[d] = CtxFields
  BY <1>1 DEF Typed, FlushInv, Records
<1>6. g = [d \in C |-> IF d = c THEN [ctx[c] EXCEPT !.state = "retired", !.successors = [x \in C |-> 0]]
                                ELSE [ctx[d] EXCEPT !.preds = @ - ctx[c].successors[d]]]
  BY <1>1 DEF RunSuccessors
<1>7. /\ g[c].state = "retired" /\ \A d \in C \ {c} : g[d].state = ctx[d].state
      /\ \A d \in C : g[d].slow = ctx[d].slow
  BY <1>3, <1>5, <1>6 DEF CtxFields
<1>8. DOMAIN drv = DrvFields /\ DOMAIN drv.refs = RefKinds
  BY DEF Typed, FlushInv, Records
<1>9. /\ DOMAIN e = DrvFields /\ DOMAIN e.refs = RefKinds
      /\ e.rewrites = drv.rewrites /\ e.released = drv.released
      /\ e.waiting = drv.waiting /\ e.reached = drv.reached
      /\ e.refs.user = drv.refs.user /\ e.refs.parsing = drv.refs.parsing
      /\ e.refs.deleting = drv.refs.deleting + 1
      /\ IF c \in drv.initiated
         THEN /\ e.initiated = drv.initiated \ {c} /\ e.detached = drv.detached
              /\ e.refs.pending = drv.refs.pending - 1 /\ e.refs.detached = drv.refs.detached
              /\ e.quick = IF ctx[c].slow THEN drv.quick ELSE drv.quick - 1
         ELSE /\ e.initiated = drv.initiated /\ e.detached = drv.detached \ {c}
              /\ e.refs.pending = drv.refs.pending /\ e.refs.detached = drv.refs.detached - 1
              /\ e.quick = drv.quick
  <2>1. CASE c \in drv.initiated
    <3>1. PICK I, q : I = drv.initiated \ {c} /\ q = IF ctx[c].slow THEN drv.quick ELSE drv.quick - 1
      OBVIOUS
    <3>2. PICK r : r = [drv.refs EXCEPT !.pending = @ - 1, !.deleting = @ + 1]
      OBVIOUS
    <3>3. e = [drv EXCEPT !.initiated = I, !.refs = r, !.quick = q]
      BY <1>1, <1>8, <2>1, <3>1, <3>2 DEF CompleteAttached, DrvFields
    <3>4. /\ DOMAIN r = RefKinds /\ r.user = drv.refs.user /\ r.parsing = drv.refs.parsing
          /\ r.deleting = drv.refs.deleting + 1 /\ r.pending = drv.refs.pending - 1
          /\ r.detached = drv.refs.detached
      BY <1>8, <3>2 DEF RefKinds
    <3>5. /\ DOMAIN e = DrvFields /\ e.refs = r /\ e.initiated = I /\ e.quick = q
          /\ e.rewrites = drv.rewrites /\ e.released = drv.released /\ e.detached = drv.detached
          /\ e.waiting = drv.waiting /\ e.reached = drv.reached
      BY <1>8, <3>3 DEF DrvFields
    <3>6. QED
      BY <2>1, <3>1, <3>4, <3>5
  <2>2. CASE c \notin drv.initiated
    <3>1. PICK I : I = drv.detached \ {c}
      OBVIOUS
    <3>2. PICK r : r = [drv.refs EXCEPT !.detached = @ - 1, !.deleting = @ + 1]
      OBVIOUS
    <3>3. e = [drv EXCEPT !.detached = I, !.refs = r]
      BY <1>1, <1>8, <2>2, <3>1, <3>2 DEF CompleteDetached, DrvFields
    <3>4. /\ DOMAIN r = RefKinds /\ r.user = drv.refs.user /\ r.parsing = drv.refs.parsing
          /\ r.deleting = drv.refs.deleting + 1 /\ r.pending = drv.refs.pending
          /\ r.detached = drv.refs.detached - 1
      BY <1>8, <3>2 DEF RefKinds
    <3>5. /\ DOMAIN e = DrvFields /\ e.refs = r /\ e.initiated = drv.initiated /\ e.quick = drv.quick
          /\ e.rewrites = drv.rewrites /\ e.released = drv.released /\ e.detached = I
          /\ e.waiting = drv.waiting /\ e.reached = drv.reached
      BY <1>8, <3>3 DEF DrvFields
    <3>6. QED
      BY <2>2, <3>1, <3>4, <3>5
  <2>3. QED
    BY <2>1, <2>2
<1>10. Carries(e)
  BY <1>2, <1>9, SignalCarries
<1>11. SameSlow
  BY <1>1, <1>2, <1>7 DEF SameSlow
<1>12. Completed(c)
  BY <1>1, <1>2, <1>3, <1>4, <1>7, <1>9, <1>10, <1>11 DEF Completed, Carries
<1>13. QED
  BY <1>12

LEMMA CompleteDriver ==
  ASSUME Typed, Frame, DriverInv, NEW c, Completed(c) PROVE DriverInv'
<1>1. PICK A, D, T, R : A = drv.rewrites \cup drv.initiated /\ D = drv.detached /\ T = TopLive /\ R = TopRetired
  OBVIOUS
<1>2. /\ A \cup D = T /\ A \cap D = {} /\ drv.refs.pending = Cardinality(A)
      /\ drv.refs.detached = Cardinality(D) /\ drv.refs.deleting = Cardinality(R)
      /\ IsFiniteSet(A) /\ IsFiniteSet(D) /\ IsFiniteSet(R)
  BY <1>1, DriverIs, TopSets
<1>3. c \in T /\ c \notin R /\ Top(c)
  BY <1>1 DEF Completed, TopLive, TopRetired, Live
<1>4. PICK U, V : U = {d \in Contexts : Top(d) /\ ctx'[d].state \in Live}
                  /\ V = {d \in Contexts : Top(d) /\ ctx'[d].state = "retired"}
  OBVIOUS
<1>5. U = T \ {c} /\ V = R \cup {c}
  BY <1>1, <1>3, <1>4 DEF Completed, TopLive, TopRetired, Live
<1>6. drv'.refs.deleting = Cardinality(V) /\ drv'.refs.deleting # 0
  <2>1. Cardinality(V) = Cardinality(R) + 1 /\ Cardinality(R) \in Nat
    BY <1>2, <1>3, <1>5, OneMore
  <2>2. QED
    BY <1>2, <2>1 DEF Completed
<1>7. PICK A1, D1 : A1 = drv'.rewrites \cup drv'.initiated /\ D1 = drv'.detached
  OBVIOUS
<1>8. /\ A1 \cup D1 = U /\ A1 \cap D1 = {}
      /\ drv'.refs.pending = Cardinality(A1) /\ drv'.refs.detached = Cardinality(D1)
      /\ ~Unreferenced(drv.refs)
  <2>1. PICK u, p, n, t, l : RefsAre(drv.refs, u, p, n, t, l) /\ n = drv.refs.pending /\ t = drv.refs.detached
    BY DEF RefsAre, Typed, FlushInv, Records
  <2>2. CASE c \in drv.initiated
    <3>1. A1 = A \ {c} /\ D1 = D /\ c \in A
      BY <1>1, <1>7, <2>2 DEF Completed
    <3>2. Cardinality(A1) = Cardinality(A) - 1 /\ Cardinality(A) \in Nat /\ Cardinality(A) > 0
      BY <1>2, <3>1, OneLess
    <3>3. n # 0
      BY <1>2, <2>1, <3>2
    <3>4. drv'.refs.pending = Cardinality(A1) /\ drv'.refs.detached = Cardinality(D1)
      BY <1>2, <2>2, <3>1, <3>2 DEF Completed
    <3>5. A1 \cup D1 = U /\ A1 \cap D1 = {}
      BY <1>2, <1>5, <3>1
    <3>6. QED
      BY <2>1, <3>3, <3>4, <3>5, Referenced
  <2>3. CASE c \notin drv.initiated
    <3>1. A1 = A /\ D1 = D \ {c} /\ c \in D
      BY <1>1, <1>2, <1>3, <1>7, <2>3 DEF Completed
    <3>2. Cardinality(D1) = Cardinality(D) - 1 /\ Cardinality(D) \in Nat /\ Cardinality(D) > 0
      BY <1>2, <3>1, OneLess
    <3>3. t # 0
      BY <1>2, <2>1, <3>2
    <3>4. drv'.refs.pending = Cardinality(A1) /\ drv'.refs.detached = Cardinality(D1)
      BY <1>2, <2>3, <3>1, <3>2 DEF Completed
    <3>5. A1 \cup D1 = U /\ A1 \cap D1 = {}
      BY <1>2, <1>5, <3>1
    <3>6. QED
      BY <2>1, <3>3, <3>4, <3>5, Referenced
  <2>4. QED
    BY <2>2, <2>3
<1>9. ~Unreferenced(drv'.refs)
  BY <1>6 DEF Completed, Unreferenced, RefKinds
<1>10. drv'.released = 0
  BY <1>8, DriverIs DEF Completed
<1>11. /\ drv'.refs.user = (IF html'.pc = "finished" THEN 0 ELSE 1)
       /\ drv'.refs.parsing = (IF html'.pc \in {"cleanup", "finished"} THEN 0 ELSE 1)
  BY DriverIs DEF Completed
<1>12. DriverAfter(U, V)
  BY <1>6, <1>7, <1>8, <1>9, <1>10, <1>11 DEF DriverAfter
<1>13. QED
  BY <1>4, <1>12, DriverFrom

\* A reference is dropped.
Dropped(k) ==
  /\ drv'.rewrites = drv.rewrites /\ drv'.initiated = drv.initiated /\ drv'.detached = drv.detached
  /\ drv'.quick = drv.quick /\ drv'.waiting = drv.waiting /\ drv'.reached = drv.reached
  /\ DOMAIN drv'.refs = RefKinds /\ drv'.refs[k] = drv.refs[k] - 1
  /\ \A j \in RefKinds \ {k} : drv'.refs[j] = drv.refs[j]
  /\ drv'.released = IF Unreferenced(drv'.refs) THEN drv.released + 1 ELSE drv.released

LEMMA Drops ==
  ASSUME Records, NEW k \in RefKinds, drv' = DropReference(drv, k) PROVE Dropped(k)
<1>1. PICK r : r = [drv.refs EXCEPT ![k] = @ - 1]
  OBVIOUS
<1>2. PICK n : n = IF Unreferenced(r) THEN drv.released + 1 ELSE drv.released
  OBVIOUS
<1>3. PICK a : a = [drv EXCEPT !.refs[k] = @ - 1]
  OBVIOUS
<1>4. DOMAIN drv = DrvFields /\ DOMAIN drv.refs = RefKinds
  BY DEF Records
<1>5. /\ DOMAIN a = DrvFields /\ a.refs = r /\ a.released = drv.released
      /\ a.rewrites = drv.rewrites /\ a.initiated = drv.initiated /\ a.detached = drv.detached
      /\ a.quick = drv.quick /\ a.waiting = drv.waiting /\ a.reached = drv.reached
  BY <1>1, <1>3, <1>4 DEF DrvFields
<1>6. PICK e : e = [a EXCEPT !.released = n]
  OBVIOUS
<1>7. drv' = SignalIfRequired(drv, e)
  BY <1>2, <1>3, <1>5, <1>6 DEF DropReference
<1>8. /\ DOMAIN e = DrvFields /\ e.refs = r /\ e.released = n
      /\ e.rewrites = drv.rewrites /\ e.initiated = drv.initiated /\ e.detached = drv.detached
      /\ e.quick = drv.quick /\ e.waiting = drv.waiting /\ e.reached = drv.reached
  BY <1>5, <1>6 DEF DrvFields
<1>9. Carries(e)
  BY <1>7, <1>8, SignalCarries
<1>10. DOMAIN r = RefKinds /\ r[k] = drv.refs[k] - 1 /\ \A j \in RefKinds \ {k} : r[j] = drv.refs[j]
  BY <1>1, <1>4
<1>11. QED
  BY <1>2, <1>8, <1>9, <1>10 DEF Dropped, Carries

LEMMA DropReleases ==
  ASSUME Typed, DriverInv, NEW k \in RefKinds, Dropped(k), drv.refs[k] # 0
  PROVE  drv'.released = IF Unreferenced(drv'.refs) THEN 1 ELSE 0
<1>1. ~Unreferenced(drv.refs)
  BY DEF Unreferenced, Typed, FlushInv, Records
<1>2. drv.released = 0
  BY <1>1, DriverIs
<1>3. QED
  BY <1>2 DEF Dropped

\* DeleteRewriteContext, for the driver.
Deleted(c) ==
  /\ c \in TopRetired /\ c \in Contexts
  /\ \A d \in Contexts : Top(d) /\ d # c => ctx'[d].state = ctx[d].state
  /\ ctx'[c].state = "deleted" /\ SameSlow /\ Dropped("deleting") /\ html' = html

LEMMA Deletes ==
  ASSUME Typed, Core, DeleteRewriteContext PROVE \E c : Deleted(c)
<1>1. PICK C, c, D : C = Contexts /\ c = Running /\ D = Closure({c}, [e \in Contexts |-> Children(e)])
  OBVIOUS
<1>2. /\ tasks # <<>> /\ Head(tasks).op = "Delete" /\ html' = html /\ drv' = DropReference(drv, "deleting")
      /\ ctx' = [d \in C |-> IF d \in D THEN [ctx[d] EXCEPT !.state = "deleted"] ELSE ctx[d]]
  BY <1>1 DEF DeleteRewriteContext, AtHead
<1>3. c \in C /\ ctx[c].state = "retired" /\ Top(c)
  <2>1. Head(tasks).op \in ControlOps
    BY <1>2, Controls
  <2>2. QED
    BY <1>1, <1>2, <2>1, HeadRuns DEF Core, Runs
<1>4. Gone(C, c, D)
  BY <1>1, <1>3, GoneAre DEF Dead
<1>5. \A d \in C : DOMAIN ctx[d] = CtxFields
  BY <1>1 DEF Typed, FlushInv, Records
<1>6. \A d \in C : /\ ctx'[d].slow = ctx[d].slow
                   /\ ctx'[d].state = IF d \in D THEN "deleted" ELSE ctx[d].state
  BY <1>2, <1>5 DEF CtxFields
<1>7. c \in D /\ \A d \in C : Top(d) /\ d # c => d \notin D
  <2>1. NoContext \notin C
    BY <1>1 DEF Typed, FlushInv, Records
  <2>2. D \subseteq C
    BY <1>4 DEF Gone
  <2>3. QED
    BY <1>4, <2>1, <2>2 DEF Gone, Top
<1>8. Dropped("deleting")
  BY <1>2, Drops DEF Typed, FlushInv, RefKinds
<1>9. Deleted(c)
  BY <1>1, <1>2, <1>3, <1>6, <1>7, <1>8 DEF Deleted, TopRetired, SameSlow
<1>10. QED
  BY <1>9

LEMMA DeleteDriver ==
  ASSUME Typed, Frame, DriverInv, NEW c, Deleted(c) PROVE DriverInv'
<1>1. PICK T, R : T = TopLive /\ R = TopRetired
  OBVIOUS
<1>2. drv.refs.deleting = Cardinality(R) /\ IsFiniteSet(R)
  BY <1>1, DriverIs, TopSets
<1>3. PICK U, V : U = {d \in Contexts : Top(d) /\ ctx'[d].state \in Live}
                  /\ V = {d \in Contexts : Top(d) /\ ctx'[d].state = "retired"}
  OBVIOUS
<1>4. U = T /\ V = R \ {c} /\ c \in R
  BY <1>1, <1>3 DEF Deleted, TopLive, TopRetired, Live
<1>5. Cardinality(V) = Cardinality(R) - 1 /\ Cardinality(R) \in Nat /\ Cardinality(R) > 0
  BY <1>2, <1>4, OneLess
<1>6. drv'.refs.deleting = Cardinality(V) /\ drv.refs.deleting # 0
  BY <1>2, <1>5 DEF Deleted, Dropped
<1>7. drv'.released = IF Unreferenced(drv'.refs) THEN 1 ELSE 0
  BY <1>6, DropReleases DEF Deleted, RefKinds
<1>8. /\ drv'.refs.user = drv.refs.user /\ drv'.refs.parsing = drv.refs.parsing
      /\ drv'.refs.pending = drv.refs.pending /\ drv'.refs.detached = drv.refs.detached
      /\ drv'.rewrites = drv.rewrites /\ drv'.initiated = drv.initiated /\ drv'.detached = drv.detached
      /\ html' = html
  BY DEF Deleted, Dropped, RefKinds
<1>9. DriverAfter(U, V)
  BY <1>1, <1>4, <1>6, <1>7, <1>8, DriverIs DEF DriverAfter
<1>10. QED
  BY <1>3, <1>9, DriverFrom

\* FinishParseAfterFlush and Cleanup.
LEMMA LeaveDriver ==
  ASSUME Typed, Frame, DriverInv, FinishParseAfterFlush \/ Cleanup PROVE DriverInv'
<1>1. PICK T, R : T = TopLive /\ R = TopRetired
  OBVIOUS
<1>2. ctx' = ctx
  BY DEF FinishParseAfterFlush, Cleanup
<1>3. T = {d \in Contexts : Top(d) /\ ctx'[d].state \in Live}
      /\ R = {d \in Contexts : Top(d) /\ ctx'[d].state = "retired"}
  BY <1>1, <1>2 DEF TopLive, TopRetired
<1>4. Records /\ DOMAIN html = {"pc", "window"}
  BY DEF Typed, FlushInv, Records
<1>5. CASE FinishParseAfterFlush
  <2>1. html.pc = "finishing" /\ html' = [html EXCEPT !.pc = "cleanup"] /\ drv' = DropReference(drv, "parsing")
    BY <1>5 DEF FinishParseAfterFlush
  <2>2. Dropped("parsing") /\ html'.pc = "cleanup"
    BY <1>4, <2>1, Drops DEF RefKinds
  <2>3. drv.refs.parsing = 1 /\ drv.refs.user = 1
    BY <2>1, DriverIs
  <2>4. /\ drv'.refs.user = 1 /\ drv'.refs.parsing = 0 /\ drv'.refs.deleting = drv.refs.deleting
        /\ drv'.refs.pending = drv.refs.pending /\ drv'.refs.detached = drv.refs.detached
    BY <2>2, <2>3 DEF Dropped, RefKinds
  <2>5. drv'.released = IF Unreferenced(drv'.refs) THEN 1 ELSE 0
    BY <2>2, <2>3, DropReleases DEF RefKinds
  <2>6. DriverAfter(T, R)
    BY <1>1, <2>2, <2>4, <2>5, DriverIs DEF DriverAfter, Dropped
  <2>7. QED
    BY <1>3, <2>6, DriverFrom
<1>6. CASE Cleanup
  <2>1. html.pc = "cleanup" /\ html' = [html EXCEPT !.pc = "finished"] /\ drv' = DropReference(drv, "user")
    BY <1>6 DEF Cleanup
  <2>2. Dropped("user") /\ html'.pc = "finished"
    BY <1>4, <2>1, Drops DEF RefKinds
  <2>3. drv.refs.parsing = 0 /\ drv.refs.user = 1
    BY <2>1, DriverIs
  <2>4. /\ drv'.refs.user = 0 /\ drv'.refs.parsing = 0 /\ drv'.refs.deleting = drv.refs.deleting
        /\ drv'.refs.pending = drv.refs.pending /\ drv'.refs.detached = drv.refs.detached
    BY <2>2, <2>3 DEF Dropped, RefKinds
  <2>5. drv'.released = IF Unreferenced(drv'.refs) THEN 1 ELSE 0
    BY <2>2, <2>3, DropReleases DEF RefKinds
  <2>6. DriverAfter(T, R)
    BY <1>1, <2>2, <2>4, <2>5, DriverIs DEF DriverAfter, Dropped
  <2>7. QED
    BY <1>3, <2>6, DriverFrom
<1>7. QED
  BY <1>5, <1>6

---------------------------------------------------------------------------
(* The steps of the HTML thread, for the driver.                            *)

\* The driver as it is, but for its rewrites, its references and its counts.
SameOthers == drv'.released = drv.released /\ drv'.waiting = drv.waiting /\ drv'.reached = drv.reached

\* InitiateRewrite.
Handed(c) ==
  /\ html' = html /\ html.pc = "parsing"
  /\ c \in Contexts /\ Top(c) /\ ctx[c].state = "unborn"
  /\ \A d \in Contexts \ {c} : ctx'[d].state = ctx[d].state
  /\ SameSlow
  /\ SameOthers /\ drv'.initiated = drv.initiated /\ drv'.detached = drv.detached
  /\ IF drv.canRewrite
     THEN /\ ctx'[c].state = "built" /\ drv'.rewrites = drv.rewrites \cup {c}
          /\ drv'.quick = drv.quick + 1
          /\ RefsAre(drv'.refs, drv.refs.user, drv.refs.parsing, drv.refs.pending + 1,
                     drv.refs.detached, drv.refs.deleting)
     ELSE /\ ctx'[c].state = "deleted" /\ drv' = drv

LEMMA Hands ==
  ASSUME Typed, InitiateRewrite PROVE \E c : Handed(c)
<1>1. PICK c : c = Min(NextContext)
  OBVIOUS
<1>2. Records
  BY DEF Typed, FlushInv
<1>3. c \in NextContext
  BY <1>1, <1>2, MinIn DEF InitiateRewrite, NextContext, Records
<1>4. c \in Contexts /\ Top(c) /\ ctx[c].state = "unborn"
  BY <1>3 DEF NextContext
<1>5. html' = html /\ html.pc = "parsing"
  BY DEF InitiateRewrite
<1>6. \A d \in Contexts : DOMAIN ctx[d] = CtxFields
  BY <1>2 DEF Records
<1>7. CASE drv.canRewrite
  <2>1. ctx' = [ctx EXCEPT ![c].state = "built"]
        /\ drv' = [drv EXCEPT !.rewrites = @ \cup {c}, !.refs.pending = @ + 1, !.quick = @ + 1]
    BY <1>1, <1>7 DEF InitiateRewrite
  <2>2. /\ ctx'[c].state = "built" /\ ctx'[c].slow = ctx[c].slow
        /\ \A d \in Contexts \ {c} : ctx'[d] = ctx[d]
    BY <1>4, <1>6, <2>1 DEF Contexts, CtxFields
  <2>3. /\ drv'.rewrites = drv.rewrites \cup {c} /\ drv'.initiated = drv.initiated
        /\ drv'.detached = drv.detached /\ drv'.quick = drv.quick + 1
        /\ drv'.released = drv.released /\ drv'.waiting = drv.waiting /\ drv'.reached = drv.reached
        /\ drv'.refs = [drv.refs EXCEPT !.pending = @ + 1]
    BY <1>2, <2>1 DEF Records, DrvFields
  <2>4. RefsAre(drv'.refs, drv.refs.user, drv.refs.parsing, drv.refs.pending + 1,
                drv.refs.detached, drv.refs.deleting)
    BY <1>2, <2>3 DEF Records, RefsAre, RefKinds
  <2>5. Handed(c)
    BY <1>4, <1>5, <1>7, <2>2, <2>3, <2>4 DEF Handed, SameSlow, SameOthers
  <2>6. QED
    BY <2>5
<1>8. CASE ~drv.canRewrite
  <2>1. ctx' = [ctx EXCEPT ![c].state = "deleted"] /\ drv' = drv
    BY <1>1, <1>8 DEF InitiateRewrite
  <2>2. /\ ctx'[c].state = "deleted" /\ ctx'[c].slow = ctx[c].slow
        /\ \A d \in Contexts \ {c} : ctx'[d] = ctx[d]
    BY <1>4, <1>6, <2>1 DEF Contexts, CtxFields
  <2>3. Handed(c)
    BY <1>4, <1>5, <1>8, <2>1, <2>2 DEF Handed, SameSlow, SameOthers
  <2>4. QED
    BY <2>3
<1>9. QED
  BY <1>7, <1>8

LEMMA HandDriver ==
  ASSUME Typed, Frame, DriverInv, NEW c, Handed(c) PROVE DriverInv'
<1>1. PICK T, R : T = TopLive /\ R = TopRetired
  OBVIOUS
<1>2. PICK U, V : U = {d \in Contexts : Top(d) /\ ctx'[d].state \in Live}
                  /\ V = {d \in Contexts : Top(d) /\ ctx'[d].state = "retired"}
  OBVIOUS
<1>3. c \in Contexts /\ Top(c) /\ c \notin T /\ c \notin R
  BY <1>1 DEF Handed, TopLive, TopRetired, Live
<1>4. CASE drv.canRewrite
  <2>1. /\ ctx'[c].state = "built" /\ drv'.rewrites = drv.rewrites \cup {c}
        /\ drv'.initiated = drv.initiated /\ drv'.detached = drv.detached /\ drv'.released = drv.released
        /\ RefsAre(drv'.refs, drv.refs.user, drv.refs.parsing, drv.refs.pending + 1,
                   drv.refs.detached, drv.refs.deleting)
        /\ html' = html /\ html.pc = "parsing"
    BY <1>4 DEF Handed, SameOthers
  <2>2. U = T \cup {c} /\ V = R
    BY <1>1, <1>2, <1>3, <2>1 DEF Handed, TopLive, TopRetired, Live
  <2>3. PICK A, B : A = drv.rewrites \cup drv.initiated /\ B = drv'.rewrites \cup drv'.initiated
    OBVIOUS
  <2>4. B = A \cup {c} /\ c \notin A /\ c \notin drv.detached
    BY <1>1, <1>3, <2>1, <2>3, DriverIs
  <2>5. IsFiniteSet(A)
    BY <2>3, TopSets
  <2>6. Cardinality(B) = Cardinality(A) + 1
    BY <2>4, <2>5, OneMore
  <2>7. drv.refs.user = 1 /\ drv.refs.parsing = 1
    BY <2>1, DriverIs
  <2>8. ~Unreferenced(drv'.refs) /\ ~Unreferenced(drv.refs)
    BY <2>1, <2>7 DEF RefsAre, Unreferenced, RefKinds, Typed, FlushInv, Records
  <2>9. drv'.rewrites \cap drv'.detached = {} /\ drv'.initiated \cap drv'.detached = {}
        /\ drv'.rewrites \cup drv'.initiated \cup drv'.detached = U
    BY <1>1, <2>1, <2>2, <2>4, DriverIs
  <2>10. drv'.refs.pending = Cardinality(drv'.rewrites \cup drv'.initiated)
    BY <2>1, <2>3, <2>6, DriverIs DEF RefsAre
  <2>11. DriverAfter(U, V)
    BY <1>1, <2>1, <2>2, <2>7, <2>8, <2>9, <2>10, DriverIs DEF DriverAfter, RefsAre
  <2>12. QED
    BY <1>2, <2>11, DriverFrom
<1>5. CASE ~drv.canRewrite
  <2>1. ctx'[c].state = "deleted" /\ drv' = drv /\ html' = html
    BY <1>5 DEF Handed
  <2>2. U = T /\ V = R
    BY <1>1, <1>2, <1>3, <2>1 DEF Handed, TopLive, TopRetired, Live
  <2>3. DriverAfter(U, V)
    BY <1>1, <2>1, <2>2, DriverIs DEF DriverAfter
  <2>4. QED
    BY <1>2, <2>3, DriverFrom
<1>6. QED
  BY <1>4, <1>5

\* FlushAsync.
Flushed ==
  /\ ctx' = ctx /\ html.pc = "parsing" /\ html'.pc = "flushing"
  /\ SameOthers /\ drv'.rewrites = {} /\ drv'.initiated = drv.initiated \cup drv.rewrites
  /\ drv'.detached = drv.detached /\ drv'.refs = drv.refs /\ drv'.quick = drv.quick

LEMMA Flushes ==
  ASSUME Typed, FlushAsync PROVE Flushed
<1>1. Records
  BY DEF Typed, FlushInv
<1>2. /\ drv' = [drv EXCEPT !.initiated = @ \cup drv.rewrites, !.rewrites = {}]
      /\ ctx' = ctx /\ html.pc = "parsing" /\ html' = [html EXCEPT !.pc = "flushing"]
  BY DEF FlushAsync
<1>3. html'.pc = "flushing"
  BY <1>1, <1>2 DEF Records
<1>4. QED
  BY <1>1, <1>2, <1>3 DEF Flushed, SameOthers, Records, DrvFields

\* What the HTML thread leaves, where it only moves rewrites.
LEMMA MovesDriver ==
  ASSUME Typed, Frame, DriverInv, ctx' = ctx, drv'.released = drv.released,
         html.pc \notin {"cleanup", "finished"}, html'.pc \notin {"cleanup", "finished"},
         drv'.rewrites \cup drv'.initiated \cup drv'.detached = TopLive,
         drv'.rewrites \cap drv'.detached = {}, drv'.initiated \cap drv'.detached = {},
         RefsAre(drv'.refs, drv.refs.user, drv.refs.parsing,
                 Cardinality(drv'.rewrites \cup drv'.initiated), Cardinality(drv'.detached),
                 drv.refs.deleting)
  PROVE  DriverInv'
<1>1. TopLive = {d \in Contexts : Top(d) /\ ctx'[d].state \in Live}
      /\ TopRetired = {d \in Contexts : Top(d) /\ ctx'[d].state = "retired"}
  BY DEF TopLive, TopRetired
<1>2. drv.refs.user = 1 /\ drv.refs.parsing = 1 /\ drv.refs.deleting = Cardinality(TopRetired)
  BY DriverIs
<1>3. ~Unreferenced(drv'.refs) /\ ~Unreferenced(drv.refs)
  BY <1>2 DEF RefsAre, Unreferenced, RefKinds, Typed, FlushInv, Records
<1>4. drv'.released = 0
  BY <1>3, DriverIs
<1>5. DriverAfter(TopLive, TopRetired)
  BY <1>2, <1>3, <1>4 DEF DriverAfter, RefsAre
<1>6. QED
  BY <1>1, <1>5, DriverFrom

LEMMA FlushDriver ==
  ASSUME Typed, Frame, DriverInv, Flushed PROVE DriverInv'
<1>1. drv'.rewrites \cup drv'.initiated = drv.rewrites \cup drv.initiated
  BY DEF Flushed
<1>2. /\ drv'.rewrites \cup drv'.initiated \cup drv'.detached = TopLive
      /\ drv'.rewrites \cap drv'.detached = {} /\ drv'.initiated \cap drv'.detached = {}
  BY DriverIs DEF Flushed
<1>3. RefsAre(drv'.refs, drv.refs.user, drv.refs.parsing,
              Cardinality(drv'.rewrites \cup drv'.initiated), Cardinality(drv'.detached),
              drv.refs.deleting)
  BY <1>1, DriverIs DEF Flushed, RefsAre, Typed, FlushInv, Records
<1>4. QED
  BY <1>2, <1>3, MovesDriver DEF Flushed, SameOthers

\* CheckForCompletionAsync, Woken and Deadline: the flush waits for w, and
\* b says whether its deadline was reached.
Tried(w, b) ==
  /\ ctx' = ctx /\ html.pc \in {"flushing", "waiting"}
  /\ SameRefs /\ drv'.quick = drv.quick /\ drv'.reached = b
  /\ b => w = "kWaitForCachedRender" \/ (b = drv.reached /\ w = drv.waiting /\ html.pc = "waiting")
  /\ \/ /\ IF b THEN w = "kWaitForCachedRender" => drv.quick = 0 ELSE RewritesComplete(drv)
        /\ html'.pc = "flushed"
     \/ drv'.waiting = w /\ html'.pc = "waiting"

LEMMA TryIs ==
  ASSUME Typed, NEW d, NEW b, TryCheckForCompletion(d, b), DOMAIN d = DrvFields,
         d.rewrites = drv.rewrites, d.initiated = drv.initiated, d.detached = drv.detached,
         d.refs = drv.refs, d.released = drv.released, d.quick = drv.quick,
         ctx' = ctx, html.pc \in {"flushing", "waiting"},
         b => d.waiting = "kWaitForCachedRender" \/ (b = drv.reached /\ d.waiting = drv.waiting /\ html.pc = "waiting")
  PROVE  Tried(d.waiting, b)
<1>1. PICK e : e = [d EXCEPT !.reached = b, !.woken = FALSE]
  OBVIOUS
<1>2. /\ DOMAIN e = DrvFields /\ e.rewrites = drv.rewrites /\ e.initiated = drv.initiated
      /\ e.detached = drv.detached /\ e.refs = drv.refs /\ e.released = drv.released
      /\ e.quick = drv.quick /\ e.reached = b /\ e.waiting = d.waiting
  BY <1>1 DEF DrvFields
<1>3. IsDone(e) = IF b THEN d.waiting = "kWaitForCachedRender" => drv.quick = 0 ELSE RewritesComplete(drv)
  BY <1>2 DEF IsDone, RewritesComplete
<1>4. CASE IsDone(e)
  <2>1. drv' = [e EXCEPT !.waiting = "kNoWait"] /\ html' = [html EXCEPT !.pc = "flushed"]
    BY <1>1, <1>4 DEF TryCheckForCompletion
  <2>2. html'.pc = "flushed"
    BY <2>1 DEF Typed, FlushInv, Records
  <2>3. SameRefs /\ drv'.quick = drv.quick /\ drv'.reached = b
    BY <1>2, <2>1 DEF SameRefs, DrvFields
  <2>4. QED
    BY <1>3, <1>4, <2>2, <2>3 DEF Tried
<1>5. CASE ~IsDone(e)
  <2>1. drv' = e /\ html' = [html EXCEPT !.pc = "waiting"]
    BY <1>1, <1>5 DEF TryCheckForCompletion
  <2>2. html'.pc = "waiting"
    BY <2>1 DEF Typed, FlushInv, Records
  <2>3. SameRefs /\ drv'.quick = drv.quick /\ drv'.reached = b /\ drv'.waiting = d.waiting
    BY <1>2, <2>1 DEF SameRefs, DrvFields
  <2>4. QED
    BY <2>2, <2>3 DEF Tried
<1>6. QED
  BY <1>4, <1>5

LEMMA Tries ==
  ASSUME Typed, CheckForCompletionAsync \/ Woken \/ Deadline PROVE \E w, b : Tried(w, b)
<1>1. DOMAIN drv = DrvFields /\ drv.reached \in BOOLEAN
  BY DEF Typed, FlushInv, Records, Types, TypesOf
<1>2. CASE CheckForCompletionAsync
  <2>1. PICK w : w = IF drv.fully THEN "kWaitForCompletion" ELSE "kWaitForCachedRender"
    OBVIOUS
  <2>2. PICK d : d = [drv EXCEPT !.waiting = w]
    OBVIOUS
  <2>3. TryCheckForCompletion(d, FALSE) /\ html.pc = "flushing" /\ ctx' = ctx
    BY <1>2, <2>1, <2>2 DEF CheckForCompletionAsync
  <2>4. /\ DOMAIN d = DrvFields /\ d.rewrites = drv.rewrites /\ d.initiated = drv.initiated
        /\ d.detached = drv.detached /\ d.refs = drv.refs /\ d.released = drv.released
        /\ d.quick = drv.quick
    BY <1>1, <2>2 DEF DrvFields
  <2>5. Tried(d.waiting, FALSE)
    BY <2>3, <2>4, TryIs
  <2>6. QED
    BY <2>5
<1>3. CASE Woken
  <2>1. PICK b \in {drv.reached, drv.waiting = "kWaitForCachedRender"} : TryCheckForCompletion(drv, b)
    BY <1>3 DEF Woken
  <2>2. html.pc = "waiting" /\ ctx' = ctx
    BY <1>3 DEF Woken
  <2>3. b => drv.waiting = "kWaitForCachedRender" \/ b = drv.reached
    BY <2>1
  <2>4. Tried(drv.waiting, b)
    BY <1>1, <2>1, <2>2, <2>3, TryIs
  <2>5. QED
    BY <2>4
<1>4. CASE Deadline
  <2>1. TryCheckForCompletion(drv, TRUE) /\ html.pc = "waiting" /\ ctx' = ctx
        /\ drv.waiting = "kWaitForCachedRender"
    BY <1>4 DEF Deadline
  <2>2. Tried(drv.waiting, TRUE)
    BY <1>1, <2>1, TryIs
  <2>3. QED
    BY <2>2
<1>5. QED
  BY <1>2, <1>3, <1>4

LEMMA TryDriver ==
  ASSUME Typed, Frame, DriverInv, NEW w, NEW b, Tried(w, b) PROVE DriverInv'
<1>1. SameStages /\ SameRefs
  BY DEF Tried, SameStages
<1>2. html.pc \notin {"cleanup", "finished"} /\ html'.pc \notin {"cleanup", "finished"}
  BY DEF Tried
<1>3. QED
  BY <1>1, <1>2, DriverSame

\* FlushAsyncDone.
Detached ==
  /\ ctx' = ctx /\ html.pc = "flushed" /\ html'.pc \in {"finishing", "parsing"}
  /\ SameOthers /\ drv'.rewrites = drv.rewrites /\ drv'.initiated = {}
  /\ drv'.detached = drv.detached \cup drv.initiated /\ drv'.quick = drv.quick
  /\ RefsAre(drv'.refs, drv.refs.user, drv.refs.parsing,
             drv.refs.pending - Cardinality(drv.initiated),
             drv.refs.detached + Cardinality(drv.initiated), drv.refs.deleting)

LEMMA Detaches ==
  ASSUME Typed, FlushAsyncDone PROVE Detached
<1>1. Records
  BY DEF Typed, FlushInv
<1>2. PICK m : m = Cardinality(drv.initiated)
  OBVIOUS
<1>3. /\ drv' = [drv EXCEPT !.detached = @ \cup drv.initiated, !.initiated = {},
                            !.refs.detached = @ + m, !.refs.pending = @ - m]
      /\ ctx' = ctx /\ html.pc = "flushed"
      /\ \/ html' = [html EXCEPT !.pc = "finishing"]
         \/ html' = [pc |-> "parsing", window |-> html.window + 1]
  BY <1>2 DEF FlushAsyncDone
<1>4. html'.pc \in {"finishing", "parsing"}
  BY <1>1, <1>3 DEF Records
<1>5. PICK r, s : r = [drv.refs EXCEPT !.detached = @ + m] /\ s = [r EXCEPT !.pending = @ - m]
  OBVIOUS
<1>6. /\ drv'.rewrites = drv.rewrites /\ drv'.initiated = {} /\ drv'.quick = drv.quick
      /\ drv'.detached = drv.detached \cup drv.initiated /\ drv'.released = drv.released
      /\ drv'.waiting = drv.waiting /\ drv'.reached = drv.reached /\ drv'.refs = s
  BY <1>1, <1>3, <1>5 DEF Records, DrvFields
<1>7. RefsAre(s, drv.refs.user, drv.refs.parsing, drv.refs.pending - m, drv.refs.detached + m,
              drv.refs.deleting)
  BY <1>1, <1>5 DEF Records, RefsAre, RefKinds
<1>8. QED
  BY <1>2, <1>3, <1>4, <1>6, <1>7 DEF Detached, SameOthers

LEMMA DetachDriver ==
  ASSUME Typed, Frame, DriverInv, Detached PROVE DriverInv'
<1>1. drv.rewrites = {}
  BY DEF Detached, Typed, FlushInv, WindowInv
<1>2. PICK A, B : A = drv.initiated /\ B = drv.detached
  OBVIOUS
<1>3. IsFiniteSet(A) /\ IsFiniteSet(B) /\ A \cap B = {} /\ B \cap A = {}
  BY <1>2, TopSets, DriverIs
<1>4. Cardinality(B \cup A) = Cardinality(B) + Cardinality(A) - Cardinality({})
  BY <1>3, FS_Union
<1>5. Cardinality({}) = 0 /\ Cardinality(A) \in Nat /\ Cardinality(B) \in Nat
  BY <1>3, FS_EmptySet, FS_CardinalityType
<1>6. drv.rewrites \cup drv.initiated = A /\ drv'.rewrites \cup drv'.initiated = {}
  BY <1>1, <1>2 DEF Detached
<1>7. drv.refs.pending = Cardinality(A) /\ drv.refs.detached = Cardinality(B)
  BY <1>2, <1>6, DriverIs
<1>8. RefsAre(drv'.refs, drv.refs.user, drv.refs.parsing,
              Cardinality(drv'.rewrites \cup drv'.initiated), Cardinality(drv'.detached),
              drv.refs.deleting)
  <2>1. drv.refs.pending - Cardinality(A) = Cardinality(drv'.rewrites \cup drv'.initiated)
    BY <1>5, <1>6, <1>7
  <2>2. drv.refs.detached + Cardinality(A) = Cardinality(drv'.detached)
    BY <1>2, <1>4, <1>5, <1>7 DEF Detached
  <2>3. RefsAre(drv'.refs, drv.refs.user, drv.refs.parsing, drv.refs.pending - Cardinality(A),
                drv.refs.detached + Cardinality(A), drv.refs.deleting)
    BY <1>2 DEF Detached
  <2>4. QED
    BY <2>1, <2>2, <2>3
<1>9. /\ drv'.rewrites \cup drv'.initiated \cup drv'.detached = TopLive
      /\ drv'.rewrites \cap drv'.detached = {} /\ drv'.initiated \cap drv'.detached = {}
  BY <1>1, DriverIs DEF Detached
<1>10. QED
  BY <1>8, <1>9, MovesDriver DEF Detached, SameOthers

LEMMA InitDriver == Init => DriverInv
<1> SUFFICES ASSUME Init PROVE DriverInv
  OBVIOUS
<1>1. PICK f \in Documents : ctx = [c \in DOMAIN f |-> NewContext(f, c)]
  BY DEF Init
<1>2. \A c \in Contexts : ctx[c].state = "unborn"
  BY <1>1 DEF Contexts, NewContext
<1>3. /\ drv.rewrites = {} /\ drv.initiated = {} /\ drv.detached = {} /\ drv.refs = NoRefs
      /\ drv.released = 0 /\ html.pc = "parsing"
  BY DEF Init
<1>4. {c \in Contexts : Top(c) /\ ctx[c].state \in Live} = {}
      /\ {c \in Contexts : Top(c) /\ ctx[c].state = "retired"} = {}
  BY <1>2 DEF Live
<1>5. ~Unreferenced(drv.refs)
  BY <1>3 DEF NoRefs, Unreferenced
<1>6. Cardinality({}) = 0
  BY FS_EmptySet
<1>7. RefsAccounted
  <2>1. drv.rewrites \cup drv.initiated = {} /\ drv.initiated \cap drv.detached = {}
    BY <1>3
  <2>2. drv.refs.pending = 0 /\ drv.refs.detached = 0 /\ drv.refs.deleting = 0
    BY <1>3 DEF NoRefs
  <2>3. QED
    BY <1>3, <1>4, <1>6, <2>1, <2>2 DEF RefsAccounted
<1>8. QED
  BY <1>3, <1>4, <1>5, <1>7 DEF DriverInv, NoRefs

LEMMA NextDriver == Typed /\ Core /\ DriverInv /\ [Next]_vars => DriverInv'
<1> SUFFICES ASSUME Typed, Core, DriverInv, [Next]_vars PROVE DriverInv'
  OBVIOUS
<1>1. Records
  BY DEF Typed, FlushInv
<1>2. Frame
  BY <1>1, NextFrame
<1>3. CASE InitiateRewrite
  BY <1>2, <1>3, Hands, HandDriver
<1>4. CASE FlushAsync
  BY <1>2, <1>4, Flushes, FlushDriver
<1>5. CASE CheckForCompletionAsync \/ Woken \/ Deadline
  BY <1>2, <1>5, Tries, TryDriver
<1>6. CASE FlushAsyncDone
  BY <1>2, <1>6, Detaches, DetachDriver
<1>7. CASE FinishParseAfterFlush \/ Cleanup
  BY <1>2, <1>7, LeaveDriver
<1>8. CASE RewriteSequence
  <2>1. CASE RewriteComplete
    BY <1>2, <2>1, Completes, CompleteDriver
  <2>2. CASE DeleteRewriteContext
    BY <1>2, <2>2, Deletes, DeleteDriver
  <2>3. CASE ~RewriteComplete /\ ~DeleteRewriteContext
    BY <1>2, <1>8, <2>3, SequenceRest, DriverSame
  <2>4. QED
    BY <2>1, <2>2, <2>3
<1>9. CASE Lookups \/ Answers \/ LowPriority \/ Idle \/ UNCHANGED vars
  <2>1. SameStages
    BY <1>9, OtherStages
  <2>2. drv' = drv /\ html' = html
    BY <1>1, <1>9, OthersSignal DEF vars
  <2>3. QED
    BY <1>2, <2>1, <2>2, DriverSame DEF SameRefs
<1>10. QED
  BY <1>3, <1>4, <1>5, <1>6, <1>7, <1>8, <1>9 DEF Next, Html

---------------------------------------------------------------------------
(* The rewrites that may still be quick.                                    *)

Quick == {c \in drv.rewrites \cup drv.initiated : ~ctx[c].slow}

\* The conjuncts of QuickInv after a step that leaves Q quick.
QuickAfter(Q) ==
  /\ Q = {c \in drv'.rewrites \cup drv'.initiated : ~ctx'[c].slow}
  /\ drv'.quick = Cardinality(Q)
  /\ \A c \in Contexts : Top(c) /\ ctx'[c].state = "unborn" => ~ctx'[c].slow
  /\ \A c \in drv'.detached : ctx'[c].slow
  /\ html'.pc = "flushed" => \A c \in drv'.initiated : ctx'[c].slow
  /\ html'.pc = "waiting" /\ drv'.reached => drv'.waiting = "kWaitForCachedRender"

LEMMA QuickFrom ==
  ASSUME Frame, NEW Q, QuickAfter(Q) PROVE QuickInv'
<1>1. Contexts' = Contexts /\ \A c \in Contexts : Top(c)' <=> Top(c)
  BY LinksKept
<1>2. QED
  BY <1>1 DEF QuickInv, QuickAfter, QuickAccounted

LEMMA QuickIs ==
  ASSUME Typed, QuickInv
  PROVE  /\ drv.quick = Cardinality(Quick) /\ IsFiniteSet(Quick) /\ Quick \subseteq Contexts
         /\ \A c \in Contexts : Top(c) /\ ctx[c].state = "unborn" => ~ctx[c].slow
         /\ \A c \in drv.detached : ctx[c].slow
         /\ html.pc = "flushed" => \A c \in drv.initiated : ctx[c].slow
         /\ html.pc = "waiting" /\ drv.reached => drv.waiting = "kWaitForCachedRender"
<1>1. Quick \subseteq drv.rewrites \cup drv.initiated
  BY DEF Quick
<1>2. IsFiniteSet(drv.rewrites \cup drv.initiated) /\ drv.rewrites \cup drv.initiated \subseteq Contexts
  BY TopSets
<1>3. IsFiniteSet(Quick) /\ Quick \subseteq Contexts
  BY <1>1, <1>2, FS_Subset
<1>4. QED
  BY <1>3 DEF QuickInv, QuickAccounted, Quick

\* A step that marks no context and does not move the rewrites.
LEMMA QuickSame ==
  ASSUME Typed, Frame, QuickInv, SameSlow, drv'.rewrites = drv.rewrites, drv'.initiated = drv.initiated,
         drv'.detached = drv.detached, drv'.quick = drv.quick,
         \A c \in Contexts : Top(c) /\ ctx'[c].state = "unborn" => ctx[c].state = "unborn",
         html'.pc = "flushed" => html.pc = "flushed",
         html'.pc = "waiting" => html.pc = "waiting" /\ drv'.reached = drv.reached /\ drv'.waiting = drv.waiting
  PROVE  QuickInv'
<1>1. PICK Q : Q = Quick
  OBVIOUS
<1>2. drv.rewrites \subseteq Contexts /\ drv.initiated \subseteq Contexts /\ drv.detached \subseteq Contexts
  BY TopSets
<1>3. Q = {c \in drv'.rewrites \cup drv'.initiated : ~ctx'[c].slow}
  BY <1>1, <1>2 DEF Quick, SameSlow
<1>4. drv'.quick = Cardinality(Q)
  BY <1>1, QuickIs
<1>5. \A c \in Contexts : Top(c) /\ ctx'[c].state = "unborn" => ~ctx'[c].slow
  BY QuickIs DEF SameSlow
<1>6. \A c \in drv'.detached : ctx'[c].slow
  BY <1>2, QuickIs DEF SameSlow
<1>7. html'.pc = "flushed" => \A c \in drv'.initiated : ctx'[c].slow
  BY <1>2, QuickIs DEF SameSlow
<1>8. QuickAfter(Q)
  BY <1>3, <1>4, <1>5, <1>6, <1>7, QuickIs DEF QuickAfter
<1>9. QED
  BY <1>8, QuickFrom

LEMMA HandQuick ==
  ASSUME Typed, Frame, DriverInv, QuickInv, NEW c, Handed(c) PROVE QuickInv'
<1>1. /\ c \in Contexts /\ Top(c) /\ ctx[c].state = "unborn" /\ SameSlow /\ html' = html
      /\ html.pc = "parsing" /\ \A d \in Contexts \ {c} : ctx'[d].state = ctx[d].state
  BY DEF Handed
<1>2. CASE drv.canRewrite
  <2>1. /\ ctx'[c].state = "built" /\ drv'.rewrites = drv.rewrites \cup {c} /\ drv'.quick = drv.quick + 1
        /\ drv'.initiated = drv.initiated /\ drv'.detached = drv.detached
    BY <1>2 DEF Handed
  <2>2. PICK Q, S : Q = Quick /\ S = {d \in drv'.rewrites \cup drv'.initiated : ~ctx'[d].slow}
    OBVIOUS
  <2>3. drv.rewrites \subseteq Contexts /\ drv.initiated \subseteq Contexts /\ drv.detached \subseteq Contexts
    BY TopSets
  <2>4. c \notin drv.rewrites \cup drv.initiated
    BY <1>1, DriverIs DEF TopLive, Live
  <2>5. ~ctx[c].slow
    BY <1>1, QuickIs
  <2>6. S = Q \cup {c} /\ c \notin Q
    BY <1>1, <2>1, <2>2, <2>3, <2>4, <2>5 DEF Quick, SameSlow
  <2>7. Cardinality(S) = Cardinality(Q) + 1
    BY <2>2, <2>6, OneMore, QuickIs
  <2>8. drv'.quick = Cardinality(S)
    BY <2>1, <2>2, <2>7, QuickIs
  <2>9. \A d \in Contexts : Top(d) /\ ctx'[d].state = "unborn" => ~ctx'[d].slow
    BY <1>1, <2>1, QuickIs DEF SameSlow
  <2>10. \A d \in drv'.detached : ctx'[d].slow
    BY <1>1, <2>1, <2>3, QuickIs DEF SameSlow
  <2>11. QuickAfter(S)
    BY <1>1, <2>2, <2>8, <2>9, <2>10 DEF QuickAfter
  <2>12. QED
    BY <2>11, QuickFrom
<1>3. CASE ~drv.canRewrite
  <2>1. ctx'[c].state = "deleted" /\ drv' = drv
    BY <1>3 DEF Handed
  <2>2. QED
    BY <1>1, <2>1, QuickSame
<1>4. QED
  BY <1>2, <1>3

LEMMA FlushQuick ==
  ASSUME Typed, Frame, QuickInv, Flushed PROVE QuickInv'
<1>1. PICK Q : Q = Quick
  OBVIOUS
<1>2. Q = {c \in drv'.rewrites \cup drv'.initiated : ~ctx'[c].slow}
  BY <1>1 DEF Quick, Flushed
<1>3. drv'.quick = Cardinality(Q)
  BY <1>1, QuickIs DEF Flushed
<1>4. QuickAfter(Q)
  BY <1>2, <1>3, QuickIs DEF QuickAfter, Flushed
<1>5. QED
  BY <1>4, QuickFrom

LEMMA TryQuick ==
  ASSUME Typed, Frame, DriverInv, QuickInv, NEW w, NEW b, Tried(w, b) PROVE QuickInv'
<1>1. PICK Q : Q = Quick
  OBVIOUS
<1>2. /\ ctx' = ctx /\ drv'.rewrites = drv.rewrites /\ drv'.initiated = drv.initiated
      /\ drv'.detached = drv.detached /\ drv'.quick = drv.quick /\ drv'.reached = b
  BY DEF Tried, SameRefs
<1>3. Q = {c \in drv'.rewrites \cup drv'.initiated : ~ctx'[c].slow}
  BY <1>1, <1>2 DEF Quick
<1>4. drv'.quick = Cardinality(Q)
  BY <1>1, <1>2, QuickIs
<1>5. b => w = "kWaitForCachedRender"
  BY QuickIs DEF Tried
<1>6. ASSUME html'.pc = "flushed" PROVE \A c \in drv.initiated : ctx[c].slow
  <2>1. IF b THEN w = "kWaitForCachedRender" => drv.quick = 0 ELSE RewritesComplete(drv)
    BY <1>6 DEF Tried
  <2>2. CASE b
    <3>1. drv.quick = 0
      BY <1>5, <2>1, <2>2
    <3>2. Q = {}
      BY <1>1, <3>1, QuickIs, FS_EmptySet
    <3>3. QED
      BY <1>1, <3>2 DEF Quick
  <2>3. CASE ~b
    <3>1. drv.refs.pending = 0
      BY <2>1, <2>3 DEF RewritesComplete
    <3>2. Cardinality(drv.rewrites \cup drv.initiated) = 0
      BY <3>1, DriverIs
    <3>3. drv.rewrites \cup drv.initiated = {}
      BY <3>2, TopSets, FS_EmptySet
    <3>4. QED
      BY <3>3
  <2>4. QED
    BY <2>2, <2>3
<1>7. html'.pc = "waiting" => drv'.waiting = w
  BY DEF Tried
<1>8. QuickAfter(Q)
  BY <1>2, <1>3, <1>4, <1>5, <1>6, <1>7, QuickIs DEF QuickAfter
<1>9. QED
  BY <1>8, QuickFrom

LEMMA DetachQuick ==
  ASSUME Typed, Frame, QuickInv, Detached PROVE QuickInv'
<1>1. PICK Q : Q = Quick
  OBVIOUS
<1>2. \A c \in drv.initiated : ctx[c].slow
  BY QuickIs DEF Detached
<1>3. Q = {c \in drv'.rewrites \cup drv'.initiated : ~ctx'[c].slow}
  BY <1>1, <1>2 DEF Quick, Detached
<1>4. drv'.quick = Cardinality(Q)
  BY <1>1, QuickIs DEF Detached
<1>5. QuickAfter(Q)
  BY <1>2, <1>3, <1>4, QuickIs DEF QuickAfter, Detached
<1>6. QED
  BY <1>5, QuickFrom

LEMMA LeaveQuick ==
  ASSUME Typed, Frame, QuickInv, FinishParseAfterFlush \/ Cleanup PROVE QuickInv'
<1>1. Records /\ ctx' = ctx
  BY DEF FinishParseAfterFlush, Cleanup, Typed, FlushInv
<1>2. PICK k \in RefKinds : drv' = DropReference(drv, k)
  BY DEF FinishParseAfterFlush, Cleanup, RefKinds
<1>3. Dropped(k)
  BY <1>1, <1>2, Drops
<1>4. html'.pc \in {"cleanup", "finished"}
  BY <1>1 DEF FinishParseAfterFlush, Cleanup, Records
<1>5. SameSlow
  BY <1>1 DEF SameSlow
<1>6. QED
  BY <1>1, <1>3, <1>4, <1>5, QuickSame DEF Dropped

LEMMA DeleteQuick ==
  ASSUME Typed, Frame, QuickInv, NEW c, Deleted(c) PROVE QuickInv'
<1>1. \A d \in Contexts : Top(d) /\ ctx'[d].state = "unborn" => ctx[d].state = "unborn"
  BY DEF Deleted
<1>2. QED
  BY <1>1, QuickSame DEF Deleted, Dropped

LEMMA CompleteQuick ==
  ASSUME Typed, Frame, DriverInv, QuickInv, NEW c, Completed(c) PROVE QuickInv'
<1>1. /\ c \in Contexts /\ c \notin drv.rewrites /\ SameSlow /\ html' = html
      /\ ctx'[c].state = "retired" /\ \A d \in Contexts \ {c} : ctx'[d].state = ctx[d].state
      /\ drv'.rewrites = drv.rewrites /\ drv'.waiting = drv.waiting /\ drv'.reached = drv.reached
  BY DEF Completed
<1>2. drv.rewrites \subseteq Contexts /\ drv.initiated \subseteq Contexts /\ drv.detached \subseteq Contexts
  BY TopSets
<1>3. PICK Q, S : Q = Quick /\ S = {d \in drv'.rewrites \cup drv'.initiated : ~ctx'[d].slow}
  OBVIOUS
<1>4. drv'.initiated \subseteq drv.initiated /\ drv'.detached \subseteq drv.detached
  BY DEF Completed
<1>5. \A d \in Contexts : Top(d) /\ ctx'[d].state = "unborn" => ~ctx'[d].slow
  BY <1>1, QuickIs DEF SameSlow
<1>6. \A d \in drv'.detached : ctx'[d].slow
  BY <1>1, <1>2, <1>4, QuickIs DEF SameSlow
<1>7. html'.pc = "flushed" => \A d \in drv'.initiated : ctx'[d].slow
  BY <1>1, <1>2, <1>4, QuickIs DEF SameSlow
<1>8. drv'.quick = Cardinality(S)
  <2>1. CASE c \in drv.initiated /\ ~ctx[c].slow
    <3>1. drv'.initiated = drv.initiated \ {c} /\ drv'.quick = drv.quick - 1
      BY <2>1 DEF Completed
    <3>2. S = Q \ {c} /\ c \in Q
      BY <1>1, <1>2, <1>3, <2>1, <3>1 DEF Quick, SameSlow
    <3>3. Cardinality(S) = Cardinality(Q) - 1
      BY <1>3, <3>2, OneLess, QuickIs
    <3>4. QED
      BY <1>3, <3>1, <3>3, QuickIs
  <2>2. CASE ~(c \in drv.initiated /\ ~ctx[c].slow)
    <3>1. drv'.quick = drv.quick
      BY <2>2 DEF Completed
    <3>2. S = Q
      <4>1. CASE c \in drv.initiated
        <5>1. ctx[c].slow /\ drv'.initiated = drv.initiated \ {c}
          BY <2>2, <4>1 DEF Completed
        <5>2. QED
          BY <1>1, <1>2, <1>3, <4>1, <5>1 DEF Quick, SameSlow
      <4>2. CASE c \notin drv.initiated
        <5>1. drv'.initiated = drv.initiated
          BY <4>2 DEF Completed
        <5>2. QED
          BY <1>1, <1>2, <1>3, <5>1 DEF Quick, SameSlow
      <4>3. QED
        BY <4>1, <4>2
    <3>3. QED
      BY <1>3, <3>1, <3>2, QuickIs
  <2>3. QED
    BY <2>1, <2>2
<1>9. QuickAfter(S)
  BY <1>1, <1>3, <1>5, <1>6, <1>7, <1>8, QuickIs DEF QuickAfter
<1>10. QED
  BY <1>9, QuickFrom

LEMMA SlowQuick ==
  ASSUME Typed, Core, Frame, DriverInv, QuickInv, SameStages, html' = html, NEW c, Slowed(c)
  PROVE  QuickInv'
<1>1. PICK N : N = NewlySlow(c)
  OBVIOUS
<1>2. /\ \A d \in Contexts : IF d \in N THEN ctx'[d].slow = TRUE ELSE ctx'[d].slow = ctx[d].slow
      /\ c \in Contexts /\ ctx[c].state \in {"built", "started"} /\ c \notin drv.rewrites
      /\ drv' = ReportSlow(c)
  BY <1>1 DEF Slowed
<1>3. \A d \in N : d \in Contexts /\ Top(d) /\ ctx[d].state \in Live /\ d \notin drv.rewrites /\ ~ctx[d].slow
  BY <1>1, <1>2, NewlySlowAre
<1>4. /\ drv'.rewrites = drv.rewrites /\ drv'.initiated = drv.initiated /\ drv'.detached = drv.detached
      /\ drv'.waiting = drv.waiting /\ drv'.reached = drv.reached
      /\ IF N = {} THEN drv'.quick = drv.quick ELSE drv'.quick = drv.quick - Cardinality(N)
  BY <1>1, <1>2, ReportCarries DEF Typed, FlushInv
<1>5. drv.rewrites \subseteq Contexts /\ drv.initiated \subseteq Contexts /\ drv.detached \subseteq Contexts
  BY TopSets
<1>6. PICK Q, S : Q = Quick /\ S = {d \in drv'.rewrites \cup drv'.initiated : ~ctx'[d].slow}
  OBVIOUS
<1>7. N \subseteq Q
  <2>1. \A d \in N : d \in TopLive /\ d \notin drv.detached
    BY <1>3, QuickIs DEF TopLive
  <2>2. \A d \in N : d \in drv.initiated
    BY <1>3, <2>1, DriverIs
  <2>3. QED
    BY <1>3, <1>6, <2>2 DEF Quick
<1>8. S = Q \ N
  BY <1>2, <1>4, <1>5, <1>6 DEF Quick
<1>9. IsFiniteSet(Q) /\ drv.quick = Cardinality(Q)
  BY <1>6, QuickIs
<1>10. Cardinality(S) = Cardinality(Q) - Cardinality(N)
  <2>1. Cardinality(Q \ N) = Cardinality(Q) - Cardinality(Q \cap N)
    BY <1>9, FS_Difference
  <2>2. Q \cap N = N
    BY <1>7
  <2>3. QED
    BY <1>8, <2>1, <2>2
<1>11. drv'.quick = Cardinality(S)
  <2>1. CASE N = {}
    BY <1>4, <1>8, <1>9, <2>1
  <2>2. CASE N # {}
    BY <1>4, <1>9, <1>10, <2>2
  <2>3. QED
    BY <2>1, <2>2
<1>12. \A d \in Contexts : Top(d) /\ ctx'[d].state = "unborn" => ~ctx'[d].slow
  <2>1. \A d \in Contexts : Top(d) /\ ctx'[d].state = "unborn" => ctx[d].state = "unborn"
    BY DEF SameStages, Live
  <2>2. \A d \in Contexts : ctx[d].state = "unborn" => d \notin N
    BY <1>3 DEF Live
  <2>3. QED
    BY <1>2, <2>1, <2>2, QuickIs
<1>13. \A d \in Contexts : ctx[d].slow => ctx'[d].slow
  BY <1>2
<1>14. /\ \A d \in drv'.detached : ctx'[d].slow
       /\ html'.pc = "flushed" => \A d \in drv'.initiated : ctx'[d].slow
  BY <1>4, <1>5, <1>13, QuickIs
<1>15. QuickAfter(S)
  BY <1>4, <1>6, <1>11, <1>12, <1>14, QuickIs DEF QuickAfter
<1>16. QED
  BY <1>15, QuickFrom

LEMMA InitQuick == Init => QuickInv
<1> SUFFICES ASSUME Init PROVE QuickInv
  OBVIOUS
<1>1. PICK f \in Documents : ctx = [c \in DOMAIN f |-> NewContext(f, c)]
  BY DEF Init
<1>2. \A c \in Contexts : ctx[c].slow = FALSE
  BY <1>1 DEF Contexts, NewContext
<1>3. /\ drv.rewrites = {} /\ drv.initiated = {} /\ drv.detached = {} /\ drv.quick = 0
      /\ html.pc = "parsing"
  BY DEF Init
<1>4. {c \in drv.rewrites \cup drv.initiated : ~ctx[c].slow} = {}
  BY <1>3
<1>5. QuickAccounted
  BY <1>3, <1>4, FS_EmptySet DEF QuickAccounted
<1>6. QED
  BY <1>2, <1>3, <1>5 DEF QuickInv

LEMMA NextQuick == Typed /\ Core /\ DriverInv /\ QuickInv /\ [Next]_vars => QuickInv'
<1> SUFFICES ASSUME Typed, Core, DriverInv, QuickInv, [Next]_vars PROVE QuickInv'
  OBVIOUS
<1>1. Records
  BY DEF Typed, FlushInv
<1>2. Frame
  BY <1>1, NextFrame
<1>3. CASE InitiateRewrite
  BY <1>2, <1>3, Hands, HandQuick
<1>4. CASE FlushAsync
  BY <1>2, <1>4, Flushes, FlushQuick
<1>5. CASE CheckForCompletionAsync \/ Woken \/ Deadline
  BY <1>2, <1>5, Tries, TryQuick
<1>6. CASE FlushAsyncDone
  BY <1>2, <1>6, Detaches, DetachQuick
<1>7. CASE FinishParseAfterFlush \/ Cleanup
  BY <1>2, <1>7, LeaveQuick
<1>8. ASSUME SameStages, SameSlow, drv' = drv, html' = html PROVE QuickInv'
  <2>1. \A c \in Contexts : Top(c) /\ ctx'[c].state = "unborn" => ctx[c].state = "unborn"
    BY <1>8 DEF SameStages, Live
  <2>2. QED
    BY <1>2, <1>8, <2>1, QuickSame
<1>9. CASE RewriteSequence
  <2>1. CASE RewriteComplete
    BY <1>2, <2>1, Completes, CompleteQuick
  <2>2. CASE DeleteRewriteContext
    BY <1>2, <2>2, Deletes, DeleteQuick
  <2>3. CASE ~RewriteComplete /\ ~DeleteRewriteContext
    <3>1. /\ SameStages /\ html' = html
          /\ (SameSlow /\ drv' = drv) \/ \E c : Slowed(c)
      BY <1>9, <2>3, SequenceRest
    <3>2. QED
      BY <1>2, <1>8, <3>1, SlowQuick
  <2>4. QED
    BY <2>1, <2>2, <2>3
<1>10. CASE Lookups \/ Answers \/ LowPriority \/ Idle \/ UNCHANGED vars
  <2>1. SameStages /\ SameSlow
    BY <1>10, OtherStages
  <2>2. drv' = drv /\ html' = html
    BY <1>1, <1>10, OthersSignal DEF vars
  <2>3. QED
    BY <1>8, <2>1, <2>2
<1>11. QED
  BY <1>3, <1>4, <1>5, <1>6, <1>7, <1>9, <1>10 DEF Next, Html

---------------------------------------------------------------------------
(* What follows for the driver.                                             *)

(* The contexts and the driver of a document in one inductive invariant:    *)
(* the driver's sets are its live top-level rewrites, its references count  *)
(* them and those that are being deleted, and its quick rewrites are those  *)
(* not known to be slow, in any interleaving of RewriteComplete, MarkSlow,  *)
(* DeleteRewriteContext and the HTML thread's flushes.                      *)
THEOREM PageInvariant == Spec => [](Typed /\ Core /\ DriverInv /\ QuickInv)
<1>1. Init => DriverInv /\ QuickInv
  BY InitDriver, InitQuick
<1>2. Typed /\ Core /\ DriverInv /\ QuickInv /\ [Next]_vars => DriverInv' /\ QuickInv'
  BY NextDriver, NextQuick
<1>3. QED
  BY <1>1, <1>2, ContextInvariant, PTL DEF Spec

(* The reference counts that keep the driver alive are exactly those of the *)
(* rewrites it still has, whichever of RewriteComplete, FlushAsyncDone and  *)
(* DeleteRewriteContext took the mutex first.                               *)
THEOREM ReferencesExact == Spec => []RefsAccounted
<1>1. DriverInv => RefsAccounted
  BY DEF DriverInv
<1>2. QED
  BY <1>1, PageInvariant, PTL

(* possibly_quick_rewrites_ is the number of undetached rewrites not known  *)
(* to be slow: each is taken back once, by MarkSlow or by RewriteComplete,  *)
(* through any chain of successors and repetitions.                         *)
THEOREM QuickExact == Spec => []QuickAccounted
<1>1. QuickInv => QuickAccounted
  BY DEF QuickInv
<1>2. QED
  BY <1>1, PageInvariant, PTL

\* A nested context outlives none of those it is nested in.
LEMMA AllGone ==
  ASSUME Typed, Core, TopLive = {}, TopRetired = {}
  PROVE  \A c \in Contexts : ctx[c].state \in {"unborn", "deleted"}
<1>1. PICK C, S : C = Contexts /\ S = {c \in C : ctx[c].state \notin {"unborn", "deleted"}}
  OBVIOUS
<1>2. SUFFICES ASSUME S # {} PROVE FALSE
  BY <1>1
<1>3. C \subseteq Nat /\ NoContext \notin C
  BY <1>1 DEF Typed, FlushInv, Records
<1>4. PICK c : c = Min(S)
  OBVIOUS
<1>5. c \in S /\ \A d \in S : c <= d
  BY <1>1, <1>2, <1>3, <1>4, MinIn
<1>6. c \in C /\ ctx[c].state \in States
  BY <1>1, <1>5 DEF Typed, Types, TypesOf, CtxType
<1>7. ctx[c].state \in Live \/ ctx[c].state = "retired"
  BY <1>1, <1>5, <1>6 DEF States, Live
<1>8. ~Top(c)
  BY <1>1, <1>6, <1>7 DEF TopLive, TopRetired
<1>9. PICK p : p = ctx[c].parent
  OBVIOUS
<1>10. p \in C /\ p < c
  BY <1>1, <1>6, <1>8, <1>9 DEF Typed, Types, Shapes, Top
<1>11. p \notin S
  BY <1>1, <1>3, <1>5, <1>6, <1>10
<1>12. c \in Children(p)
  BY <1>1, <1>6, <1>9 DEF Children
<1>13. /\ (\A d \in Children(p) : ctx[d].state = "unborn") \/ ctx[p].state \notin {"unborn", "built"}
       /\ ctx[p].state = "deleted" => \A d \in Children(p) : ctx[d].state \in {"unborn", "deleted"}
  BY <1>1, <1>10 DEF Core, NestedInv
<1>14. ctx[p].state \in {"unborn", "deleted"}
  BY <1>1, <1>10, <1>11
<1>15. QED
  BY <1>1, <1>5, <1>12, <1>13, <1>14

LEMMA DriverLast ==
  ASSUME Typed, Core, DriverInv PROVE ReleasedLast
<1>1. SUFFICES ASSUME drv.released > 0
               PROVE  /\ drv.released = 1
                      /\ \A c \in Contexts : ctx[c].state \in {"unborn", "deleted"} /\ ~Mentions(c)
                      /\ budget.loads = 0
  BY DEF ReleasedLast
<1>2. drv.released = 1 /\ Unreferenced(drv.refs)
  BY <1>1, DriverIs
<1>3. drv.refs.pending = 0 /\ drv.refs.detached = 0 /\ drv.refs.deleting = 0
  BY <1>2 DEF Unreferenced, Typed, FlushInv, Records, RefKinds
<1>4. /\ Cardinality(drv.rewrites \cup drv.initiated) = 0 /\ Cardinality(drv.detached) = 0
      /\ Cardinality(TopRetired) = 0
  BY <1>3, DriverIs
<1>5. drv.rewrites \cup drv.initiated = {} /\ drv.detached = {} /\ TopRetired = {}
  BY <1>4, TopSets, FS_EmptySet
<1>6. TopLive = {}
  BY <1>5, DriverIs
<1>7. \A c \in Contexts : ctx[c].state \in {"unborn", "deleted"}
  BY <1>5, <1>6, AllGone
<1>8. \A c \in Contexts : ~Mentions(c) /\ ctx[c].fetches = 0
  BY <1>7, Unmentioned
<1>9. InFlight = {}
  <2>1. ASSUME NEW a \in InFlight PROVE FALSE
    <3>1. a \in Contexts \X (1..MaxLoads) /\ a[2] <= ctx[a[1]].fetches
      BY <2>1 DEF InFlight
    <3>2. a[1] \in Contexts /\ a[2] \in 1..MaxLoads
      BY <3>1
    <3>3. ctx[a[1]].fetches = 0
      BY <1>8, <3>2
    <3>4. QED
      BY <3>1, <3>2, <3>3, LimitsAssumption
  <2>2. QED
    BY <2>1
<1>10. budget.loads = 0
  BY <1>9, FS_EmptySet DEF Core, LoadsInv
<1>11. QED
  BY <1>2, <1>7, <1>8, <1>10

(* The driver is released at most once, after every rewrite of the document *)
(* was deleted, the nested ones too, with nothing left that refers to one   *)
(* and no load of its PageWorkBudget in flight.                             *)
THEOREM ReleasedAfterAll == Spec => []ReleasedLast
<1>1. Typed /\ Core /\ DriverInv => ReleasedLast
  BY DriverLast
<1>2. QED
  BY <1>1, PageInvariant, PTL

LEMMA PageTypes ==
  ASSUME Typed, Core, DriverInv PROVE TypeOK
<1>1. PICK C : C = Contexts
  OBVIOUS
<1>2. TypesOf(C) /\ Shapes
  BY <1>1 DEF Typed, Types
<1>3. ASSUME NEW c \in C
      PROVE  /\ ctx[c].state \in States
             /\ ctx[c].place \in {"none", "taken", "refused"}
             /\ ctx[c].waits \in BOOLEAN /\ ctx[c].slow \in BOOLEAN /\ ctx[c].busy \in BOOLEAN
             /\ ctx[c].spent \in BOOLEAN /\ ctx[c].partitions \in BOOLEAN /\ ctx[c].lock \in BOOLEAN
             /\ ctx[c].revalidateOk \in BOOLEAN
             /\ ctx[c].repeated \in Seq(C) /\ ctx[c].next \in Int /\ ctx[c].revalidate \in Int
  <2>1. ctx[c] \in CtxType(C)
    BY <1>2, <1>3 DEF TypesOf
  <2>2. QED
    BY <2>1 DEF CtxType
<1>4. ASSUME NEW c \in C PROVE ctx[c].preds \in Nat
  <2>1. ctx[c].preds = Cardinality(OpenLinks(c)) + (IF ctx[c].waits THEN 1 ELSE 0)
    BY <1>1, <1>4 DEF Core, LinksInv
  <2>2. OpenLinks(c) \subseteq ctx[c].slots
    BY DEF OpenLinks, Links
  <2>3. IsFiniteSet(ctx[c].slots)
    BY <1>1, <1>2, <1>4 DEF Shapes
  <2>4. Cardinality(OpenLinks(c)) \in Nat
    BY <2>2, <2>3, FS_Subset, FS_CardinalityType
  <2>5. QED
    BY <2>1, <2>4
<1>5. ASSUME NEW c \in C
      PROVE  ctx[c].fetches \in Nat /\ ctx[c].nested \in Nat /\ loading[c] \in Nat
             /\ ctx[c].next \in Nat /\ ctx[c].revalidate \in Nat
  <2>1. ctx[c].fetches \in Nat /\ ctx[c].nested \in Nat /\ loading[c] \in Nat
    BY <1>1, <1>5, Naturals DEF Core
  <2>2. ctx[c].next >= 0 /\ ctx[c].revalidate >= 0
    BY <1>1, <1>5 DEF Core, LoadsInv, LoadsOf
  <2>3. QED
    BY <1>3, <1>5, <2>1, <2>2
<1>6. \A c \in C :
        /\ ctx[c].state \in States
        /\ {ctx[c].preds, ctx[c].fetches, ctx[c].next, ctx[c].revalidate, ctx[c].nested} \subseteq Nat
        /\ ctx[c].place \in {"none", "taken", "refused"}
        /\ {ctx[c].waits, ctx[c].slow, ctx[c].busy, ctx[c].spent, ctx[c].partitions,
            ctx[c].lock, ctx[c].revalidateOk} \subseteq BOOLEAN
        /\ ctx[c].repeated \in Seq(C)
  BY <1>3, <1>4, <1>5
<1>7. loading \in [C -> Nat]
  BY <1>2, <1>5 DEF TypesOf
<1>8. budget \in [contexts : 0..MaxContexts, loads : 0..MaxLoads, bytes : Nat,
                  entries : 0..MaxEntries,
                  waiting : Seq([op : Resumptions, c : C, arg : {""}])]
  <2>1. budget.loads = Cardinality(InFlight) /\ budget.loads <= MaxLoads
    BY DEF Core, LoadsInv
  <2>2. IsFiniteSet(InFlight)
    <3>1. IsFiniteSet(C) /\ IsFiniteSet(1..MaxLoads)
      BY <1>1, LimitsAssumption, FS_Interval DEF Typed, FlushInv, Records
    <3>2. IsFiniteSet(C \X (1..MaxLoads))
      BY <3>1, FS_Product
    <3>3. InFlight \subseteq C \X (1..MaxLoads)
      BY <1>1 DEF InFlight
    <3>4. QED
      BY <3>2, <3>3, FS_Subset
  <2>3. budget.loads \in 0..MaxLoads
    BY <2>1, <2>2, FS_CardinalityType, LimitsAssumption
  <2>4. budget \in BudgetOf(C)
    BY <1>2 DEF TypesOf
  <2>5. QED
    BY <2>3, <2>4 DEF BudgetOf, WaitOf
<1>9. \A k \in DOMAIN drv.refs : drv.refs[k] \in Nat
  <2>1. /\ drv.refs.pending \in Nat /\ drv.refs.detached \in Nat /\ drv.refs.deleting \in Nat
    BY DriverIs, TopSets, FS_CardinalityType
  <2>2. drv.refs.user \in Nat /\ drv.refs.parsing \in Nat
    BY DriverIs
  <2>3. DOMAIN drv.refs = RefKinds
    BY DEF Typed, FlushInv, Records
  <2>4. QED
    BY <2>1, <2>2, <2>3 DEF RefKinds
<1>10. drv.rewrites \cup drv.initiated \cup drv.detached \subseteq C
  BY <1>1, TopSets
<1>11. QED
  BY <1>1, <1>2, <1>6, <1>7, <1>8, <1>9, <1>10 DEF TypeOK, TypesOf, TaskOf

(* No count of a context, of the PageWorkBudget or of the driver goes below *)
(* zero or above its limit, and every callback names a context of the       *)
(* document.                                                                *)
THEOREM TypeCorrect == Spec => []TypeOK
<1>1. Typed /\ Core /\ DriverInv => TypeOK
  BY PageTypes
<1>2. QED
  BY <1>1, PageInvariant, PTL

---------------------------------------------------------------------------
(* No circle of waiting rewrites.                                           *)

\* What e keeps waiting: the context it is nested in, and those that repeat it.
Held(e) == ({ctx[e].parent} \ {NoContext}) \cup Repeats(e)

Closed(X) == \A e \in X : Held(e) \subseteq X

\* A context is outside some closed set that has all it keeps waiting.
CircleInv == \A c \in Contexts : \E X \in SUBSET Contexts : Closed(X) /\ Held(c) \subseteq X /\ c \notin X

LEMMA HeldIn == ASSUME Typed PROVE \A e \in Contexts : Held(e) \subseteq Contexts
<1>1. \A e \in Contexts : ctx[e].parent \in Contexts \cup {NoContext}
  BY DEF Typed, Types, Shapes
<1>2. QED
  BY <1>1, RepeatsIn DEF Held

LEMMA InitCircle == Init => CircleInv
<1> SUFFICES ASSUME Init PROVE CircleInv
  OBVIOUS
<1>1. Types /\ Contexts \subseteq Nat
  BY InitTyped, InitFlush DEF FlushInv, Records
<1>2. \A c \in Contexts : Repeats(c) = {}
  <2>1. PICK f \in Documents : ctx = [c \in DOMAIN f |-> NewContext(f, c)]
    BY DEF Init
  <2>2. \A c \in Contexts : ctx[c].repeated = <<>>
    BY <2>1 DEF Contexts, NewContext
  <2>3. QED
    BY <2>2 DEF Repeats
<1>3. \A c \in Contexts : Held(c) \subseteq Contexts /\ \A d \in Held(c) : d = ctx[c].parent /\ d < c
  BY <1>1, <1>2 DEF Held, Types, Shapes
<1>4. ASSUME NEW c \in Contexts PROVE \E X \in SUBSET Contexts : Closed(X) /\ Held(c) \subseteq X /\ c \notin X
  <2> DEFINE X == {d \in Contexts : d < c}
  <2>1. Contexts \subseteq Nat
    BY <1>1
  <2>2. Closed(X)
    <3>1. ASSUME NEW e \in X, NEW d \in Held(e) PROVE d \in X
      <4>1. e \in Contexts /\ e < c
        OBVIOUS
      <4>2. d \in Contexts /\ d < e
        BY <1>3, <4>1
      <4>3. QED
        BY <2>1, <4>1, <4>2
    <3>2. QED
      BY <3>1 DEF Closed
  <2>3. Held(c) \subseteq X /\ c \notin X
    BY <1>3, <2>1
  <2>4. QED
    BY <2>2, <2>3
<1>5. QED
  BY <1>4 DEF CircleInv

\* The contexts of every step are the same; so are those that a context holds,
\* unless another comes to repeat it.
LEMMA SameCircle ==
  ASSUME Frame, CircleInv, \A d \in Contexts : ctx'[d].repeated = ctx[d].repeated
  PROVE  CircleInv'
<1>1. Contexts' = Contexts
  BY DEF Frame, Contexts
<1>2. \A d \in Contexts : Held(d)' = Held(d)
  BY DEF Frame, Keeps, Held, Repeats, Contexts
<1>3. \A X \in SUBSET Contexts : Closed(X) => Closed(X)'
  BY <1>1, <1>2 DEF Closed
<1>4. QED
  BY <1>1, <1>2, <1>3 DEF CircleInv

\* IsWaitedOnBy: c may repeat p if p is not among what c keeps waiting.  What
\* c keeps waiting, D, is closed: the sets of the contexts in D are cut down
\* to it, and those of the others take it in.
LEMMA QueuedCircle ==
  ASSUME Typed, Frame, CircleInv, NEW c \in Contexts, NEW p \in Contexts, Queued(c, p),
         ~IsWaitedOnBy(c, p)
  PROVE  CircleInv'
<1> DEFINE step == [e \in Contexts |-> ({ctx[e].parent} \ {NoContext}) \cup Repeats(e)]
<1>1. Contexts' = Contexts /\ IsFiniteSet(Contexts)
  BY DEF Frame, Contexts, Typed, FlushInv, Records
<1>2. \A e \in Contexts : step[e] = Held(e)
  BY DEF Held
<1>3. PICK D : D = Closure({c}, step) /\ p \notin D
  BY DEF IsWaitedOnBy
<1> HIDE DEF step
<1>4. \A e \in Contexts : Held(e) \subseteq Contexts
  BY HeldIn
<1>5. {c} \subseteq D /\ \A e \in D : step[e] \subseteq D
  <2>1. {c} \subseteq Contexts /\ {c} # {} /\ \A e \in Contexts : step[e] \subseteq Contexts
    BY <1>2, <1>4
  <2>2. QED
    BY <1>1, <1>3, <2>1, ClosureClosed, Zenon
<1>6. D \subseteq Contexts
  <2>1. {c} \subseteq Contexts /\ \A e \in Contexts : step[e] \subseteq Contexts
    BY <1>2, <1>4
  <2>2. QED
    BY <1>1, <1>3, <2>1, ClosureLeast, Zenon
<1>7. Closed(D) /\ c \in D
  BY <1>2, <1>5, <1>6 DEF Closed
<1>8. \A e \in Contexts : e # p => Held(e)' = Held(e)
  BY DEF Frame, Keeps, Held, Repeats, Contexts, Queued
<1>9. Held(p)' = Held(p) \cup {c}
  <2>1. /\ ctx[p].repeated \in Seq(Contexts) /\ ctx'[p].repeated = Append(ctx[p].repeated, c)
        /\ ctx'[p].parent = ctx[p].parent
    BY RepeatsIn DEF Queued, Frame, Keeps, Contexts
  <2>2. Elems(ctx'[p].repeated) = Elems(ctx[p].repeated) \cup {c}
    BY <2>1 DEF Elems
  <2>3. QED
    BY <2>1, <2>2 DEF Held, Repeats, Elems
<1>10. ASSUME NEW x \in Contexts PROVE \E X \in SUBSET Contexts : Closed(X)' /\ Held(x)' \subseteq X /\ x \notin X
  <2>1. PICK X \in SUBSET Contexts : Closed(X) /\ Held(x) \subseteq X /\ x \notin X
    BY DEF CircleInv
  <2>2. CASE x \in D
    <3>1. Closed(X \cap D)'
      BY <1>1, <1>3, <1>7, <1>8, <2>1 DEF Closed
    <3>2. Held(x)' \subseteq X \cap D
      BY <1>3, <1>7, <1>8, <2>1, <2>2 DEF Closed
    <3>3. QED
      BY <2>1, <3>1, <3>2
  <2>3. CASE x \notin D
    <3>1. \A e \in Contexts : Held(e)' \subseteq Held(e) \cup D
      BY <1>7, <1>8, <1>9
    <3>2. Closed(X \cup D)'
      BY <1>1, <1>6, <1>7, <2>1, <3>1 DEF Closed
    <3>3. Held(x)' \subseteq X \cup D
      BY <2>1, <3>1
    <3>4. QED
      BY <1>6, <2>1, <2>3, <3>2, <3>3
  <2>4. QED
    BY <2>2, <2>3
<1>11. QED
  BY <1>1, <1>10 DEF CircleInv

LEMMA NextCircle == Typed /\ Core /\ CircleInv /\ [Next]_vars => CircleInv'
<1> SUFFICES ASSUME Typed, Core, CircleInv, [Next]_vars PROVE CircleInv'
  OBVIOUS
<1>1. Frame /\ Records
  BY NextFrame DEF Typed, FlushInv
<1>2. CASE ~StartRepeated
  BY <1>1, <1>2, SameCircle DEF Frame, Keeps, Contexts
<1>3. CASE StartRepeated
  <2>1. PICK c, p : c = Running /\ p = primary[ctx[c].key]
    OBVIOUS
  <2>2. CASE ~IsWaitedOnBy(c, p)
    BY <1>1, <1>3, <2>1, <2>2, ComesToRepeat, QueuedCircle
  <2>3. CASE IsWaitedOnBy(c, p)
    <3>1. ctx' = [ctx EXCEPT ![c].state = "done"]
      BY <1>3, <2>1, <2>3 DEF StartRepeated
    <3>2. \A d \in Contexts : ctx'[d].repeated = ctx[d].repeated
      BY <1>1, <3>1 DEF Records, CtxFields, Contexts
    <3>3. QED
      BY <1>1, <3>2, SameCircle
  <2>4. QED
    BY <2>2, <2>3
<1>4. QED
  BY <1>2, <1>3

\* A successor that is not done with is built, nested in the same context as
\* the one it follows, made after it, and nothing repeats it.
LEMMA SuccessorsBuilt ==
  ASSUME Typed, Core, NEW c \in Contexts, NEW d \in Successors(c), ctx[d].state \in Live
  PROVE  d \in Contexts /\ ctx[d].state = "built" /\ ctx[d].parent = ctx[c].parent /\ c < d
<1>1. d \in Contexts /\ ctx[c].successors[d] > 0
  BY DEF Successors
<1>2. ctx[c].successors[d] = Cardinality(Links(ctx, c, d)) /\ ctx[c].successors[d] # 0
  <2>1. LinksInv
    BY DEF Core
  <2>2. ctx[c].successors[d] \in {0, Cardinality(Links(ctx, c, d))}
    BY <1>1, <2>1 DEF LinksInv
  <2>3. QED
    BY <1>1, <2>2
<1>3. PICK s : s \in Links(ctx, c, d)
  BY <1>2, FS_EmptySet
<1>4. s \in OpenLinks(d)
  BY <1>2, <1>3 DEF OpenLinks
<1>5. ctx[d].state \notin {"started", "done", "retired"}
  BY <1>1, <1>4 DEF Core, LinksInv
<1>6. ctx[d].state = "built"
  BY <1>5 DEF Live
<1>7. c < d /\ ctx[c].slots \cap ctx[d].slots # {}
  BY <1>3 DEF Links
<1>8. QED
  BY <1>1, <1>6, <1>7 DEF Typed, Types, Shapes

Built == {b \in Contexts : ctx[b].state = "built"}

\* What follows a closed set Y that has what c keeps waiting: the built contexts
\* nested in one of Y, or in none.  Of those beside c, if c is built itself, the later ones.
LEMMA NoCircleAt ==
  ASSUME Typed, Core, NEW c \in Contexts, NEW Y \in SUBSET Contexts, Closed(Y), Held(c) \subseteq Y, c \notin Y,
         ctx[c].state = "built" => \A d \in Y : ctx[d].parent # ctx[c].parent,
         NEW W, W = [e \in Contexts |-> {d \in Held(e) \cup Successors(e) : ctx[d].state \in Live}]
  PROVE  c \notin Closure(W[c], W)
<1> DEFINE After(b) == ctx[c].state = "built" /\ ctx[b].parent = ctx[c].parent => c < b
           X == Y \cup {b \in Built : ctx[b].parent \in Y \cup {NoContext} /\ After(b)}
<1>1. IsFiniteSet(Contexts) /\ Contexts \subseteq Nat
  BY DEF Typed, FlushInv, Records
<1>2. \A e \in Contexts : ctx[e].parent \in Contexts \cup {NoContext} /\ (ctx[e].parent # NoContext => ctx[e].parent \in Held(e))
  BY DEF Held, Typed, Types, Shapes
<1>3. \A b \in Built : ctx[b].parent \in Y \cup {NoContext} => Held(b) \subseteq Y
  <2>1. \A b \in Built : Repeats(b) = {}
    BY DEF Built, Repeats, Core, PrimaryInv
  <2>2. QED
    BY <2>1 DEF Held, Built
<1>4. ASSUME NEW e \in Contexts, e = c \/ e \in X PROVE W[e] \subseteq X
  <2>1. Held(e) \subseteq Y /\ ctx[e].parent \in Y \cup {NoContext}
    BY <1>2, <1>3, <1>4 DEF Closed, Built
  <2>2. ASSUME NEW d \in Successors(e), ctx[d].state \in Live PROVE d \in X
    <3>1. d \in Built /\ ctx[d].parent = ctx[e].parent /\ e < d /\ d \in Contexts
      BY <2>2, SuccessorsBuilt DEF Built
    <3>2. After(d)
      <4>1. CASE e = c
        BY <3>1, <4>1
      <4>2. CASE e \in Y
        BY <3>1, <4>2
      <4>3. CASE e \notin Y /\ e # c
        <5>1. After(e) /\ c \in Nat /\ e \in Nat /\ d \in Nat
          BY <1>1, <1>4, <3>1, <4>3
        <5>2. QED
          BY <3>1, <5>1
      <4>4. QED
        BY <4>1, <4>2, <4>3
    <3>3. QED
      BY <2>1, <3>1, <3>2
  <2>3. QED
    BY <2>1, <2>2
<1>5. X \subseteq Contexts
  BY DEF Closed, Built
<1>6. c \notin X
  BY <1>1 DEF Built
<1> HIDE DEF X
<1>7. Closure(W[c], W) \subseteq X
  BY <1>1, <1>4, <1>5, ClosureLeast, Zenon
<1>8. QED
  BY <1>6, <1>7

LEMMA CircleNone == ASSUME Typed, Core, CircleInv PROVE NoCircularWait
<1> DEFINE W == [e \in Contexts |-> {d \in Held(e) \cup Successors(e) : ctx[d].state \in Live}]
<1>1. ASSUME NEW c \in Contexts PROVE c \notin Closure(W[c], W)
  <2>1. PICK X \in SUBSET Contexts : Closed(X) /\ Held(c) \subseteq X /\ c \notin X
    BY DEF CircleInv
  <2>2. CASE ctx[c].state # "built"
    BY <2>1, <2>2, NoCircleAt
  <2>3. CASE ctx[c].state = "built" /\ ctx[c].parent = NoContext
    <3>1. Held(c) = {}
      BY <2>3 DEF Held, Repeats, Core, PrimaryInv
    <3>2. QED
      BY <2>3, <3>1, NoCircleAt DEF Closed
  <2>4. CASE ctx[c].state = "built" /\ ctx[c].parent # NoContext
    <3>1. PICK p \in Contexts : p = ctx[c].parent
      BY <2>4 DEF Typed, Types, Shapes
    <3>2. PICK Y \in SUBSET Contexts : Closed(Y) /\ Held(p) \subseteq Y /\ p \notin Y
      BY DEF CircleInv
    <3>3. Closed(Y \cup {p})
      BY <3>2 DEF Closed
    <3>4. Held(c) = {p}
      BY <2>4, <3>1 DEF Held, Repeats, Core, PrimaryInv
    <3>5. \A d \in Y \cup {p} : ctx[d].parent # p
      <4>1. ctx[p].parent < p /\ p \in Nat
        BY DEF Typed, Types, Shapes, FlushInv, Records
      <4>2. ASSUME NEW d \in Y, ctx[d].parent = p PROVE FALSE
        BY <2>4, <3>1, <3>2, <4>2 DEF Held, Closed
      <4>3. QED
        BY <4>1, <4>2
    <3>6. c \notin Y \cup {p}
      BY <3>1, <3>5
    <3>7. QED
      BY <3>1, <3>3, <3>4, <3>5, <3>6, NoCircleAt
  <2>5. QED
    BY <2>2, <2>3, <2>4
<1>2. W = [e \in Contexts |-> {d \in ({ctx[e].parent} \ {NoContext}) \cup Repeats(e) \cup Successors(e) :
                                 ctx[d].state \notin {"unborn", "retired", "deleted"}}]
  <2>1. \A d \in Contexts : ctx[d].state \in Live <=> ctx[d].state \notin {"unborn", "retired", "deleted"}
    BY DEF Typed, Types, TypesOf, CtxType, States, Live
  <2>2. \A e \in Contexts : Held(e) \cup Successors(e) \subseteq Contexts
    BY HeldIn DEF Successors
  <2>3. QED
    BY <2>1, <2>2 DEF Held
<1> HIDE DEF W
<1>3. QED
  BY <1>1, <1>2, Zenon DEF NoCircularWait

(* No rewrite waits for itself: the repetitions that IsWaitedOnBy lets pass *)
(* close no circle with nesting and with chains of slots.                   *)
THEOREM NoneWaitsForItself == Spec => []NoCircularWait
<1>1. Init => CircleInv
  BY InitCircle
<1>2. Typed /\ Core /\ CircleInv /\ [Next]_vars => CircleInv'
  BY NextCircle
<1>3. Typed /\ Core /\ CircleInv => NoCircularWait
  BY CircleNone
<1>4. QED
  BY <1>1, <1>2, <1>3, ContextInvariant, PTL DEF Spec

====
