-------------------------------- MODULE Maps --------------------------------
(* Rust's Option, and its HashMap as a function on the set of its keys. *)
EXTENDS Naturals, Functions

(* An Option<T>: None or Some(v), with v = o[1]. *)
None == <<>>
Some(v) == <<v>>
Option(S) == {None} \cup [1 .. 1 -> S]

Put(f, k, v) == [x \in DOMAIN f \cup {k} |-> IF x = k THEN v ELSE f[x]]
Merge(f, g) == [x \in DOMAIN f \cup DOMAIN g |-> IF x \in DOMAIN g THEN g[x] ELSE f[x]]
Without(f, keys) == Restrict(f, DOMAIN f \ keys)
=============================================================================
