-------------------------- MODULE MCCommandDispatch --------------------------
(***************************************************************************)
(* Instances of CommandDispatch for TLC.                                   *)
(***************************************************************************)
EXTENDS CommandDispatch

\* A request, its retry, another payload under the same key, and a request
\* without a sequence number.
FourKeys == <<"k", "k", "k", "">>
FourHashes == <<"x", "x", "y", "x">>
==============================================================================
