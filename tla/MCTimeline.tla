----------------------------- MODULE MCTimeline -----------------------------
(***************************************************************************)
(* Small instances of Timeline for TLC.                                    *)
(***************************************************************************)
EXTENDS Timeline
=============================================================================
