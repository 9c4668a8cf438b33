---------------------------- MODULE MCLocalCache ----------------------------
(***************************************************************************)
(* Instances of LocalCache for TLC.                                        *)
(***************************************************************************)
EXTENDS LocalCache

\* The process of each task: two of one process, or one each of two.
OneHost == <<1, 1>>
TwoHosts == <<1, 2>>

\* The first mail expires when the second starts.
Starts == <<0, 1>>
Expires == <<1, 2>>

\* Two mails of the same time.
BothStart == <<0, 0>>
BothExpire == <<2, 2>>
=============================================================================
