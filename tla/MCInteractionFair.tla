-------------------------- MODULE MCInteractionFair --------------------------
(***************************************************************************)
(* Small instances of Interaction with any number of failures, and for     *)
(* liveness.                                                               *)
(***************************************************************************)
EXTENDS Interaction

CONSTANTS likeA, commentA, heatA   \* consumers, named for their queue

MCServes ==
    [w \in Workers |-> CASE w = likeA    -> LikeQueue
                         [] w = commentA -> CommentQueue
                         [] w = heatA    -> HeatQueue]
=============================================================================
