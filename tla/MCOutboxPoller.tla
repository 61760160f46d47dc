-------------------------- MODULE MCOutboxPoller --------------------------
(***************************************************************************)
(* Small instances of OutboxPoller for TLC.                                *)
(***************************************************************************)
EXTENDS OutboxPoller
=============================================================================
