---- MODULE PageRewriteMC ----
EXTENDS PageRewrite

(* parent, slots, key, window, inputs, what is cached *)
Part(p, s, k, w, n, r) ==
  [parent |-> p, slots |-> s, key |-> k, window |-> w, inputs |-> n, cached |-> r]
Any == {"hit", "miss", "revalidate"}
HitOrMiss == {"hit", "miss"}
Miss == {"miss"}

(* Two rewrites of one slot in a row, and a third that repeats the first. *)
Chain == <<Part(0, {1}, 1, 1, 2, Any), Part(0, {1}, 2, 1, 1, HitOrMiss), Part(0, {2}, 1, 1, 2, Any)>>
(* A combination of two slots, each of which another rewrite has first. *)
Combine == <<Part(0, {1}, 1, 1, 0, HitOrMiss), Part(0, {2}, 2, 1, 0, HitOrMiss),
             Part(0, {1, 2}, 3, 1, 1, HitOrMiss)>>
(* Style sheets that import each other. *)
Import == <<Part(0, {1}, 1, 1, 0, HitOrMiss), Part(1, {2}, 2, 1, 0, HitOrMiss),
            Part(0, {3}, 2, 1, 0, HitOrMiss), Part(3, {4}, 1, 1, 0, HitOrMiss)>>
(* More nested rewrites than the document may start. *)
Many == <<Part(0, {1}, 1, 1, 1, Any), Part(1, {2}, 2, 1, 0, HitOrMiss), Part(1, {2}, 3, 1, 0, HitOrMiss),
          Part(1, {3}, 2, 1, 0, HitOrMiss), Part(1, {4}, 2, 1, 0, HitOrMiss)>>
(* Two nested rewrites whose inputs load one at a time. *)
Loads == <<Part(0, {1}, 1, 1, 0, Miss), Part(1, {2}, 2, 1, 2, Miss), Part(1, {3}, 3, 1, 1, Miss)>>
(* A nested rewrite with the key of a top-level one of the next window. *)
Shared == <<Part(0, {1}, 1, 1, 0, HitOrMiss), Part(1, {2}, 2, 1, 1, Any), Part(0, {3}, 2, 2, 0, HitOrMiss)>>
(* A second window that repeats a rewrite of the first. *)
Windows == <<Part(0, {1}, 1, 1, 1, Any), Part(0, {2}, 1, 2, 1, Any)>>

Pages == {Chain, Combine, Import, Many, Loads, Shared, Windows}
====
