----------------------------- MODULE MCRouting -----------------------------
(***************************************************************************)
(* Instance of Routing for TLC: two tasks, of one gateway or of two.  The  *)
(* last virtual node of instance 1 collides with that of instance 2;       *)
(* the two stable instances are running when it registers.                 *)
(***************************************************************************)
EXTENDS Routing

TogetherOrApart == {[t \in Tasks |-> 1], [t \in Tasks |-> t]}
Weights == <<0, 50, 50>>
NodeHashes == <<[k \in 0..1 |-> 1 + 3 * k], [k \in {0} |-> 4], [k \in {0} |-> 3]>>
=============================================================================
