--------------------------- MODULE MCConnections ---------------------------
(***************************************************************************)
(* Instance of Connections for TLC: two connections, to one gateway or to  *)
(* two.  Every other placement only renames the gateways.                  *)
(***************************************************************************)
EXTENDS Connections

TogetherOrApart == {[c \in Conns |-> 1], [c \in Conns |-> c]}
=============================================================================
