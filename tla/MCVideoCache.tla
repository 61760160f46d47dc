---------------------------- MODULE MCVideoCache ----------------------------
(***************************************************************************)
(* Small instances of VideoCache for TLC.                                  *)
(***************************************************************************)
EXTENDS VideoCache
=============================================================================
