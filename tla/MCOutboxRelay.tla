--------------------------- MODULE MCOutboxRelay ---------------------------
(***************************************************************************)
(* The instance of OutboxRelay for TLC.                                    *)
(***************************************************************************)
EXTENDS OutboxRelay
=============================================================================
