----------------------------- MODULE MCSession ------------------------------
(***************************************************************************)
(* Small instances of Session for TLC: tabs and requests are               *)
(* interchangeable.                                                        *)
(***************************************************************************)
EXTENDS Session, TLC

Symmetry == Permutations(Tabs) \cup Permutations(Calls)
=============================================================================
