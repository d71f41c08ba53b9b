---- MODULE FetchRewriteMC ----
(* Instances of FetchRewrite for TLC. *)
EXTENDS FetchRewrite

(* .pagespeed. resources, of every kind of filter. *)
OfFilters ==
  {r \in RequestType : ~r.inPlace /\ ~r.waits /\ ~r.proxy /\ r.http /\ r.requestThread}

InPlace ==
  {r \in RequestType : r.inPlace /\ r.inputs = 1 /\ r.optional /\ ~r.strict
                       /\ ~r.onTheFly /\ ~r.conditional /\ ~r.nested}

(* Requests that make the alarm in a fetcher's thread. *)
OffSequence == {r \in InPlace : r.waits /\ r.http /\ ~r.requestThread /\ r.deadline}

OnSequence == OfFilters \cup (InPlace \ OffSequence)
====
