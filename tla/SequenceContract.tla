-------------------------- MODULE SequenceContract --------------------------
(***************************************************************************)
(* What a Sequence of pagespeed/kernel/thread/sequence.h promises to the   *)
(* code that adds functions to it, with no pool, worker or lock in sight:  *)
(* functions run in the order they were added, one at a time, and each is  *)
(* run or canceled at most once.                                           *)
(***************************************************************************)
EXTENDS Naturals, Sequences

CONSTANTS Sequences, Functions

VARIABLES
  pending,   \* per sequence: functions waiting, oldest first
  running,   \* per sequence: the function being run, if any
  outcome    \* what became of each function

vars == <<pending, running, outcome>>

Init ==
  /\ pending = [s \in Sequences |-> <<>>]
  /\ running = [s \in Sequences |-> {}]
  /\ outcome = [f \in Functions |-> "new"]

\* A function is accepted, or canceled at once.
Accept(s, f) ==
  /\ outcome[f] = "new"
  /\ pending' = [pending EXCEPT ![s] = Append(@, f)]
  /\ outcome' = [outcome EXCEPT ![f] = "queued"]
  /\ UNCHANGED running

Refuse(f) ==
  /\ outcome[f] = "new"
  /\ outcome' = [outcome EXCEPT ![f] = "canceled"]
  /\ UNCHANGED <<pending, running>>

\* A bounded sequence makes room by canceling its oldest function.
AcceptDroppingOldest(s, f) ==
  /\ outcome[f] = "new"
  /\ pending[s] # <<>>
  /\ pending' = [pending EXCEPT ![s] = Append(Tail(@), f)]
  /\ outcome' = [outcome EXCEPT ![f] = "queued", ![Head(pending[s])] = "canceled"]
  /\ UNCHANGED running

Start(s) ==
  /\ pending[s] # <<>>
  /\ running[s] = {}
  /\ pending' = [pending EXCEPT ![s] = Tail(@)]
  /\ running' = [running EXCEPT ![s] = {Head(pending[s])}]
  /\ outcome' = [outcome EXCEPT ![Head(pending[s])] = "running"]

Finish(s) ==
  \E f \in running[s] :
    /\ running' = [running EXCEPT ![s] = @ \ {f}]
    /\ outcome' = [outcome EXCEPT ![f] = "ran"]
    /\ UNCHANGED pending

CancelOldest(s) ==
  /\ pending[s] # <<>>
  /\ pending' = [pending EXCEPT ![s] = Tail(@)]
  /\ outcome' = [outcome EXCEPT ![Head(pending[s])] = "canceled"]
  /\ UNCHANGED running

CancelAll(s) ==
  /\ pending' = [pending EXCEPT ![s] = <<>>]
  /\ outcome' = [f \in Functions |->
                   IF \E i \in DOMAIN pending[s] : pending[s][i] = f
                   THEN "canceled" ELSE outcome[f]]
  /\ UNCHANGED running

Next ==
  \/ \E f \in Functions : Refuse(f)
  \/ \E s \in Sequences :
       \/ Start(s) \/ Finish(s) \/ CancelOldest(s) \/ CancelAll(s)
       \/ \E f \in Functions : Accept(s, f) \/ AcceptDroppingOldest(s, f)

Spec == Init /\ [][Next]_vars
=============================================================================
