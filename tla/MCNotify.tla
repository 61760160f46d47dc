------------------------------ MODULE MCNotify ------------------------------
(***************************************************************************)
(* Small instances of Notify for TLC.                                      *)
(***************************************************************************)
EXTENDS Notify
=============================================================================
