---------------------------- MODULE MCPublisher ----------------------------
(***************************************************************************)
(* Instances of Publisher for TLC.                                         *)
(***************************************************************************)
EXTENDS Publisher

\* A request and its retry, another content under the same key, and two
\* calls without a key, one of them not valid.
FiveKeys == <<"k", "k", "k", "", "">>
FiveContents == <<"x", "x", "y", "x", "x">>
=============================================================================
