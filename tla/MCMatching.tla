----------------------------- MODULE MCMatching -----------------------------
(* Values for the constants of Matching. *)
EXTENDS Matching

Everybody == [leaf \in Leaves |-> Teachers]
=============================================================================
