---------------------------- MODULE MCFollowFeed ----------------------------
(***************************************************************************)
(* Small instances of FollowFeed for TLC: the videos of two authors        *)
(* alternate.                                                              *)
(***************************************************************************)
EXTENDS FollowFeed, TLC

CONSTANTS a1, a2

MCAuthors == {a1, a2}
MCAuthorOf == [v \in 1..MaxVideo |-> IF v % 2 = 1 THEN a1 ELSE a2]
=============================================================================
