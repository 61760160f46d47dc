------------------------------- MODULE Relay -------------------------------
(***************************************************************************)
(* What the outbox promises: a committed row is handed to the broker at    *)
(* least once before it disappears, and what was never committed is never  *)
(* handed over.  OutboxPoller implements this module.                      *)
(***************************************************************************)
CONSTANT Rows

VARIABLES
    pending,     \* committed rows still in the table
    delivered,   \* rows whose message the broker has stored at least once
    retired      \* rows deleted

vars == <<pending, delivered, retired>>

Init == pending = {} /\ delivered = {} /\ retired = {}

Commit(r) ==
    /\ r \notin pending \cup retired
    /\ pending' = pending \cup {r}
    /\ UNCHANGED <<delivered, retired>>

\* A second delivery of the row is a stuttering step.
Deliver(r) ==
    /\ r \in pending
    /\ delivered' = delivered \cup {r}
    /\ UNCHANGED <<pending, retired>>

Retire(r) ==
    /\ r \in pending \cap delivered
    /\ pending' = pending \ {r}
    /\ retired' = retired \cup {r}
    /\ UNCHANGED delivered

Next == \E r \in Rows : Commit(r) \/ Deliver(r) \/ Retire(r)

Spec == Init /\ [][Next]_vars
=============================================================================
