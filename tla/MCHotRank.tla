----------------------------- MODULE MCHotRank -----------------------------
(***************************************************************************)
(* Small instances of HotRank for TLC.                                     *)
(***************************************************************************)
EXTENDS HotRank, TLC

Interchangeable == Permutations(Events) \cup Permutations(Videos)
                   \cup Permutations(Readers)
=============================================================================
