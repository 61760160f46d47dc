------------------------------ MODULE MCSocial ------------------------------
(***************************************************************************)
(* Small instances of Social for TLC.                                      *)
(***************************************************************************)
EXTENDS Social
=============================================================================
