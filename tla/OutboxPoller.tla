---------------------------- MODULE OutboxPoller ----------------------------
(***************************************************************************)
(* RunOutboxPoller, dispatchOutbox and ConfirmedPublisher in detail: row   *)
(* ids and the order they commit in, the row lock a dispatch transaction   *)
(* holds, mandatory publishing with confirms and returns, the three-second *)
(* wait, and the restart after every error with a new connection, channel  *)
(* and publisher that declares the topology again.                         *)
(*                                                                         *)
(* In Interaction a row is a message and any unlocked row may be claimed;  *)
(* here its id decides, and a publish is the exchange of messages it is.   *)
(***************************************************************************)
EXTENDS Integers, FiniteSets

CONSTANTS
    MaxRow,      \* BOUND: rows inserted
    Pollers,     \* RunOutboxPoller tasks, one in each worker process
    MaxStored    \* BOUND: stored copies of a row are counted up to here

ASSUME BoundsAssumption == MaxRow \in Nat /\ MaxStored \in Nat /\ MaxStored >= 2

Rows == 1..MaxRow    \* outbox_msgs ids, given out in this order

VARIABLES
    row,         \* id -> where the row is: see RowStatus
    pc,          \* poller -> what its task is doing
    claimed,     \* poller -> id its open transaction has locked, 0 if none
    answer,      \* poller -> what the broker said of its publish
    stored,      \* id -> copies of its message the broker has stored so far
    orphans,     \* ids with a copy on a connection the poller has given up
    bound,       \* is there a queue bound for the messages?
    aborted      \* ids of which some dispatch has failed

vars == <<row, pc, claimed, answer, stored, orphans, bound, aborted>>

\* "inserted" is a row of a transaction still open; "undone" one rolled back.
RowStatus == {"unused", "inserted", "undone", "pending", "retired"}

TypeOK ==
    /\ row \in [Rows -> RowStatus]
    /\ pc \in [Pollers -> {"down", "polling", "claimed", "waiting"}]
    /\ claimed \in [Pollers -> Rows \cup {0}]
    /\ answer \in [Pollers -> {"none", "ack", "nack", "returned"}]
    /\ stored \in [Rows -> 0..MaxStored]
    /\ orphans \subseteq Rows
    /\ bound \in BOOLEAN
    /\ aborted \subseteq Rows

Init ==
    /\ row = [r \in Rows |-> "unused"]
    /\ pc = [p \in Pollers |-> "down"]
    /\ claimed = [p \in Pollers |-> 0]
    /\ answer = [p \in Pollers |-> "none"]
    /\ stored = [r \in Rows |-> 0]
    /\ orphans = {}
    /\ bound = FALSE
    /\ aborted = {}

-----------------------------------------------------------------------------
(***************************************************************************)
(* Writers.  The id is given out when the row is inserted, the row becomes *)
(* visible when its transaction commits: in another order, or never.       *)
(***************************************************************************)
Insert(r) ==
    /\ row[r] = "unused"
    /\ \A q \in Rows : q < r => row[q] # "unused"
    /\ row' = [row EXCEPT ![r] = "inserted"]
    /\ UNCHANGED <<pc, claimed, answer, stored, orphans, bound, aborted>>

EndInsert(r) ==
    /\ row[r] = "inserted"
    /\ \E s \in {"pending", "undone"} : row' = [row EXCEPT ![r] = s]
    /\ UNCHANGED <<pc, claimed, answer, stored, orphans, bound, aborted>>

-----------------------------------------------------------------------------
\* Mutation: the topology is declared elsewhere, once.
Start_NoDeclare(p) ==
    /\ pc[p] = "down"
    /\ pc' = [pc EXCEPT ![p] = "polling"]
    /\ UNCHANGED <<row, claimed, answer, stored, orphans, bound, aborted>>

\* Dial, declare exchanges, queues and bindings, put the channel in confirm mode.
Start(p) ==
    /\ pc[p] = "down"
    /\ pc' = [pc EXCEPT ![p] = "polling"]
    /\ bound' = TRUE
    /\ UNCHANGED <<row, claimed, answer, stored, orphans, aborted>>

\* Mutation: the row is read without FOR UPDATE.
Free_NoLock == {r \in Rows : row[r] = "pending"}

\* SELECT ... WHERE status = 'pending' ORDER BY id LIMIT 1 FOR UPDATE SKIP LOCKED.
Free == {r \in Rows : row[r] = "pending" /\ \A q \in Pollers : claimed[q] # r}

\* Mutation: RowsAffected is not looked at, the zero row is dispatched.
Claim_NoFoundCheck(p) ==
    /\ pc[p] = "polling"
    /\ claimed' = [claimed EXCEPT ![p] = IF Free = {} THEN 0 ELSE CHOOSE r \in Free : TRUE]
    /\ pc' = [pc EXCEPT ![p] = "claimed"]
    /\ UNCHANGED <<row, answer, stored, orphans, bound, aborted>>

Claim(p) ==
    /\ pc[p] = "polling"
    /\ \E r \in Free :
         /\ \A q \in Free : r <= q
         /\ claimed' = [claimed EXCEPT ![p] = r]
    /\ pc' = [pc EXCEPT ![p] = "claimed"]
    /\ UNCHANGED <<row, answer, stored, orphans, bound, aborted>>

Publish(p) ==
    /\ pc[p] = "claimed"
    /\ pc' = [pc EXCEPT ![p] = "waiting"]
    /\ UNCHANGED <<row, claimed, answer, stored, orphans, bound, aborted>>

AddCopy(r) == stored' = [stored EXCEPT ![r] = IF @ = MaxStored THEN @ ELSE @ + 1]

Unanswered(p) == pc[p] = "waiting" /\ answer[p] = "none"

\* The broker stores a routable message before it confirms it.
Accept(p) ==
    /\ Unanswered(p)
    /\ bound
    /\ AddCopy(claimed[p])
    /\ answer' = [answer EXCEPT ![p] = "ack"]
    /\ UNCHANGED <<row, pc, claimed, orphans, bound, aborted>>

\* An unroutable mandatory message is returned, and then confirmed as well; a
\* broker in trouble refuses it.
Refuse(p) ==
    /\ Unanswered(p)
    /\ \/ ~bound /\ answer' = [answer EXCEPT ![p] = "returned"]
       \/ answer' = [answer EXCEPT ![p] = "nack"]
    /\ UNCHANGED <<row, pc, claimed, stored, orphans, bound, aborted>>

\* Mutation: a confirm is enough, the channel of returns is not read.
Retire_ReturnsIgnored(p) ==
    /\ pc[p] = "waiting"
    /\ answer[p] \in {"ack", "returned"}
    /\ row' = [row EXCEPT ![claimed[p]] = "retired"]
    /\ pc' = [pc EXCEPT ![p] = "polling"]
    /\ claimed' = [claimed EXCEPT ![p] = 0]
    /\ answer' = [answer EXCEPT ![p] = "none"]
    /\ UNCHANGED <<stored, orphans, bound, aborted>>

\* Publish returned nil: the row is deleted, the transaction commits.
Retire(p) ==
    /\ pc[p] = "waiting"
    /\ answer[p] = "ack"
    /\ row' = [row EXCEPT ![claimed[p]] = "retired"]
    /\ pc' = [pc EXCEPT ![p] = "polling"]
    /\ claimed' = [claimed EXCEPT ![p] = 0]
    /\ answer' = [answer EXCEPT ![p] = "none"]
    /\ UNCHANGED <<stored, orphans, bound, aborted>>

\* Refused, no confirm within three seconds, connection or database lost, the
\* commit failed, the process died: the transaction rolls back, the task ends
\* and is restarted.  A copy not answered yet may still reach the broker; also
\* one not sent yet, when MySQL drops the transaction before the poller notices.
Abort(p) ==
    /\ pc[p] \in {"claimed", "waiting"}
    /\ orphans' = IF answer[p] = "none" THEN orphans \cup {claimed[p]} ELSE orphans
    /\ aborted' = aborted \cup {claimed[p]}
    /\ pc' = [pc EXCEPT ![p] = "down"]
    /\ claimed' = [claimed EXCEPT ![p] = 0]
    /\ answer' = [answer EXCEPT ![p] = "none"]
    /\ UNCHANGED <<row, stored, bound>>

-----------------------------------------------------------------------------
\* The broker reads, or never reads, a copy whose publisher gave up waiting.
LateCopy(r) ==
    /\ r \in orphans
    /\ orphans' = orphans \ {r}
    /\ \/ bound /\ AddCopy(r)
       \/ UNCHANGED stored
    /\ UNCHANGED <<row, pc, claimed, answer, bound, aborted>>

\* Somebody deletes the queue or its binding.
Unbind ==
    /\ bound
    /\ bound' = FALSE
    /\ UNCHANGED <<row, pc, claimed, answer, stored, orphans, aborted>>

Next ==
    \/ \E r \in Rows : Insert(r) \/ EndInsert(r) \/ LateCopy(r)
    \/ \E p \in Pollers : \/ Start(p) \/ Claim(p) \/ Publish(p) \/ Accept(p)
                          \/ Refuse(p) \/ Retire(p) \/ Abort(p)
    \/ Unbind

Spec == Init /\ [][Next]_vars

-----------------------------------------------------------------------------
(***************************************************************************)
(* The row lock is held from the choice of the row to its deletion, so     *)
(* several pollers do not publish a row twice: a second copy exists only   *)
(* of a row one of whose dispatches failed.                                *)
(***************************************************************************)
DuplicatesNeedFailure ==
    \A r \in Rows : r \notin aborted => stored[r] <= 1

\* Outbox rows as Relay sees them.
R == INSTANCE Relay WITH
        pending   <- {r \in Rows : row[r] = "pending"},
        delivered <- {r \in Rows : stored[r] > 0},
        retired   <- {r \in Rows : row[r] = "retired"}

\* Locks, confirms, returns and restarts add up to at-least-once relaying.
ImplementsRelay == R!Spec

(***************************************************************************)
(* Tasks.Go restarts a failed poller for ever; failures of the database    *)
(* and the broker pass, so a step possible again and again is taken.  A    *)
(* poller does not wait for ever: an error or the three-second limit ends  *)
(* the dispatch if its success does not.                                   *)
(***************************************************************************)
Fairness == \A p \in Pollers : /\ WF_vars(Start(p))
                               /\ SF_vars(Claim(p))
                               /\ SF_vars(Publish(p))
                               /\ SF_vars(Accept(p))
                               /\ SF_vars(Retire(p))
                               /\ WF_vars(Abort(p))

\* The queue is not removed again and again for ever.
FairSpec == Spec /\ Fairness /\ <>[][~Unbind]_vars

\* Every committed row is relayed and deleted in the end, whatever aborts and
\* however often the queue is removed: a restart declares it again.
RowsDrain == \A r \in Rows : row[r] = "pending" ~> row[r] = "retired"
=============================================================================
