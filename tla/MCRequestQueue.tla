--------------------------- MODULE MCRequestQueue ---------------------------
(***************************************************************************)
(* Instances of RequestQueue for TLC.                                      *)
(***************************************************************************)
EXTENDS RequestQueue

\* Two requests of role 7, from two sessions, and one without a role.
ThreeRoleIds == <<7, 7, 0>>
ThreeUids == <<1, 2, 3>>

\* Two requests of role 7.
TwoRoleIds == <<7, 7>>
TwoUids == <<1, 2>>
=============================================================================
