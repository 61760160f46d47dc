--------------------------- MODULE MCInteraction ---------------------------
(***************************************************************************)
(* Small instances of Interaction for TLC, with any number of failures.    *)
(***************************************************************************)
EXTENDS Interaction, TLC

CONSTANTS likeA, commentA, heatA   \* consumers, named for their queue

MCServes ==
    [w \in Workers |-> CASE w = likeA    -> LikeQueue
                         [] w = commentA -> CommentQueue
                         [] w = heatA    -> HeatQueue]

Heats == [queue : {HeatQueue}, ev : Events]

\* Copies of the messages in M that wait in a queue or are in a consumer's hands,
\* and rows of M without any: a row and its first copy are one.
InFlight(M) ==
    LET queued  == {m \in M : copies[m] > 0}
        twice   == {m \in M : copies[m] > 1}
        holding == {w \in Workers : hand[w].msg \in M}
        held    == {hand[w].msg : w \in holding}
    IN  Cardinality(queued) + Cardinality(twice) + Cardinality(holding)
            + Cardinality((outbox \cap M) \ (queued \cup held))

Retried == {w \in Workers : hand[w].failures > 0}

\* BOUND: three messages in flight, a delivery that has failed counting twice,
\* and one of them a heat event; two commands of any kind, or three likes and
\* unlikes of one user with the video there.  An event left over from the first
\* command, the second command and the heat event it writes are three.
Scope ==
    LET made == {e \in Events : body[e] # None} IN
    /\ InFlight(Message) + Cardinality(Retried) <= 3
    /\ InFlight(Heats) <= 1
    /\ \/ Cardinality(made) <= 2
       \/ /\ \A e \in made : body[e].action \in {"like", "unlike"}
          /\ Cardinality({body[e].user : e \in made}) = 1
          /\ videos = Videos

\* The state without dead, which no step and no property of this run reads.
Alive == <<requests, outbox, relay, copies, hand, database, cache>>

Interchangeable == Permutations(Events) \cup Permutations(Users)
=============================================================================
