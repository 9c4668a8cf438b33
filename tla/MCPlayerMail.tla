---------------------------- MODULE MCPlayerMail ----------------------------
(***************************************************************************)
(* The instance of PlayerMail for TLC.  Operations are interchangeable.    *)
(***************************************************************************)
EXTENDS PlayerMail, TLC

OpSymmetry == Permutations(Ops)

\* The indexes of a mail with two loots, one below and one above.
OutOfRange == -1..2
=============================================================================
