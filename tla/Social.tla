------------------------------- MODULE Social -------------------------------
(***************************************************************************)
(* Follow and unfollow of one author by one user: the requests that write  *)
(* the relation to MySQL and then publish an event, the publisher with     *)
(* confirms the API process keeps for all of them, and the two consumers   *)
(* of the event: the social worker, which writes the relation once more,   *)
(* and the notification worker.  Relations of other pairs are other rows   *)
(* and other events; they share the publisher and the queues only.         *)
(*                                                                         *)
(* An event is named by the request it came from.  A queue keeps a message *)
(* until its consumer acknowledges it, so one that was delivered and not   *)
(* acknowledged is still at the head.                                      *)
(***************************************************************************)
EXTENDS Integers, Sequences, FiniteSets

CONSTANTS
    MaxRequests,    \* BOUND: requests
    MaxConcurrent,  \* BOUND: requests of the pair at a time
    MaxRetries,     \* retries of a consumer before dead-lettering (3)
    MaxUnconfirmed, \* BOUND: publications without a confirm
    MaxFaults       \* BOUND: failing calls, lost channels, API restarts

ASSUME ConstantsAssumption ==
    /\ {MaxRequests, MaxConcurrent, MaxRetries} \subseteq Nat \ {0}
    /\ {MaxUnconfirmed, MaxFaults} \subseteq Nat

Requests == 1..MaxRequests
Consumers == {"social", "notification"}

VARIABLES
    following,   \* the row of socials exists
    request,     \* request -> kind, next step and outcome
    failed,      \* the publisher's failed flag
    queue,       \* consumer -> its queue, of requests
    consumer,    \* consumer -> next step with the head of its queue, and retries
    dead,        \* consumer -> dead-lettered events
    rows,        \* request -> notifications stored for its event
    pushed,      \* history: events whose notification was pushed
    last,        \* history: what the last request that wrote left in MySQL
    unconfirmed, \* history: requests whose own event was not confirmed
    faults       \* faults so far

api    == <<request, failed, last, unconfirmed>>
broker == <<queue, consumer, dead>>
notices == <<rows, pushed>>
vars   == <<following, api, broker, notices, faults>>

NotYet == [kind |-> "none", step |-> "none", ok |-> FALSE]
Idle == [step |-> "idle", tries |-> 0]

FlagsOK == {following, failed, last} \subseteq BOOLEAN

RequestsOK ==
    /\ request \in [Requests ->
         [kind : {"none", "follow", "unfollow"},
          step : {"none", "check", "write", "publish", "done"}, ok : BOOLEAN]]
    /\ unconfirmed \subseteq Requests
    /\ faults \in 0..MaxFaults

BrokerOK ==
    /\ queue \in [Consumers -> Seq(Requests)]
    /\ consumer \in [Consumers ->
         [step : {"idle", "apply", "push", "ack"}, tries : 0..MaxRetries]]
    /\ \A c \in Consumers : consumer[c] # Idle => queue[c] # <<>>
    /\ dead \in [Consumers -> SUBSET Requests]
    /\ rows \in [Requests -> Nat]
    /\ pushed \subseteq Requests

TypeOK == FlagsOK /\ RequestsOK /\ BrokerOK

Init ==
    /\ following = FALSE
    /\ request = [r \in Requests |-> NotYet]
    /\ failed = FALSE
    /\ queue = [c \in Consumers |-> <<>>]
    /\ consumer = [c \in Consumers |-> Idle]
    /\ dead = [c \in Consumers |-> {}]
    /\ rows = [r \in Requests |-> 0]
    /\ pushed = {}
    /\ last = FALSE
    /\ unconfirmed = {}
    /\ faults = 0

-----------------------------------------------------------------------------
(* The requests.                                                           *)

Running == {r \in Requests : request[r].step \in {"check", "write", "publish"}}

Go(r, step, ok) == [request EXCEPT ![r].step = step, ![r].ok = ok]

Start(r, kind) ==
    /\ request[r] = NotYet
    /\ \A q \in 1..(r - 1) : request[q] # NotYet
    /\ Cardinality(Running) < MaxConcurrent
    /\ request' = [request EXCEPT ![r] = [kind |-> kind, step |-> "check", ok |-> FALSE]]
    /\ UNCHANGED <<following, failed, last, unconfirmed, broker, notices, faults>>

\* IsFollowed: following twice and leaving nobody are errors.
Check(r) ==
    /\ request[r].step = "check"
    /\ request' = IF (request[r].kind = "follow") = following
                  THEN Go(r, "done", FALSE) ELSE Go(r, "write", FALSE)
    /\ UNCHANGED <<following, failed, last, unconfirmed, broker, notices, faults>>

\* The unique index refuses a second row; deleting no row is no error.
Write(r) ==
    LET follow == request[r].kind = "follow" IN
    /\ request[r].step = "write"
    /\ IF follow /\ following
       THEN /\ request' = Go(r, "done", FALSE)
            /\ UNCHANGED <<following, last>>
       ELSE /\ request' = Go(r, "publish", TRUE)
            /\ following' = follow
            /\ last' = follow
    /\ UNCHANGED <<failed, unconfirmed, broker, notices, faults>>

\* Mutation: the worker's queue is bound like the notifications'.
Bound_FollowOnly(c) == {"follow"}

\* The kinds of event a consumer's queue is bound to.
Bound(c) == IF c = "social" THEN {"follow", "unfollow"} ELSE {"follow"}

Routed(r) == [c \in Consumers |-> IF request[r].kind \in Bound(c)
                                  THEN Append(queue[c], r) ELSE queue[c]]

\* Confirmed; or refused by the publisher since an earlier one was not.
Publish(r) ==
    /\ request[r].step = "publish"
    /\ request' = Go(r, "done", TRUE)
    /\ queue' = IF failed THEN queue ELSE Routed(r)
    /\ UNCHANGED <<following, failed, last, unconfirmed, consumer, dead, notices, faults>>

\* The send fails or no confirm comes within three seconds or before the
\* client goes: the message may be stored, and the publisher is done for.
\* A message the broker rejects or cannot route leaves the publisher usable.
PublishUnconfirmed(r) ==
    \E stored, rejected \in BOOLEAN :
        /\ request[r].step = "publish"
        /\ ~failed
        /\ Cardinality(unconfirmed) < MaxUnconfirmed
        /\ ~(stored /\ rejected)
        /\ request' = Go(r, "done", TRUE)
        /\ queue' = IF stored THEN Routed(r) ELSE queue
        /\ failed' = ~rejected
        /\ unconfirmed' = unconfirmed \cup {r}
        /\ UNCHANGED <<following, last, consumer, dead, notices, faults>>

-----------------------------------------------------------------------------
(* The consumers.                                                          *)

Step(c, step) == consumer[c].step = step
Turn(c, step) == consumer' = [consumer EXCEPT ![c].step = step]

Deliver(c) ==
    /\ consumer[c] = Idle
    /\ queue[c] # <<>>
    /\ Turn(c, "apply")
    /\ UNCHANGED <<following, api, queue, dead, notices, faults>>

\* The social worker writes the relation of the event, whatever it is now.
ApplyRelation ==
    /\ Step("social", "apply")
    /\ following' = (request[Head(queue["social"])].kind = "follow")
    /\ Turn("social", "ack")
    /\ UNCHANGED <<api, queue, dead, notices, faults>>

\* Mutation: the row is inserted without its event key.
Stored_NoKey(n) == n + 1

\* ON CONFLICT DO NOTHING on the event key.
Stored(n) == IF n = 0 THEN 1 ELSE n

InsertRow ==
    LET r == Head(queue["notification"]) IN
    /\ Step("notification", "apply")
    /\ rows' = [rows EXCEPT ![r] = Stored(@)]
    /\ Turn("notification", "push")
    /\ UNCHANGED <<following, api, queue, dead, pushed, faults>>

\* The stored row is published for the SSE bridge.
Push ==
    /\ Step("notification", "push")
    /\ Turn("notification", "ack")
    /\ pushed' = pushed \cup {Head(queue["notification"])}
    /\ UNCHANGED <<following, api, queue, dead, rows, faults>>

Ack(c) ==
    /\ Step(c, "ack")
    /\ queue' = [queue EXCEPT ![c] = Tail(@)]
    /\ consumer' = [consumer EXCEPT ![c] = Idle]
    /\ UNCHANGED <<following, api, dead, notices, faults>>

\* Mutation: one retry more than allowed.
MayRetry_OffByOne(c) == consumer[c].tries <= MaxRetries

MayRetry(c) == consumer[c].tries < MaxRetries

\* A database call or the push fails: process is run again, or the event is
\* dead-lettered.
Fail(c) ==
    /\ consumer[c].step \in {"apply", "push"}
    /\ faults < MaxFaults
    /\ faults' = faults + 1
    /\ IF MayRetry(c)
       THEN /\ consumer' = [consumer EXCEPT ![c] = [step |-> "apply", tries |-> @.tries + 1]]
            /\ UNCHANGED <<queue, dead>>
       ELSE /\ consumer' = [consumer EXCEPT ![c] = Idle]
            /\ queue' = [queue EXCEPT ![c] = Tail(@)]
            /\ dead' = [dead EXCEPT ![c] = @ \cup {Head(queue[c])}]
    /\ UNCHANGED <<following, api, notices>>

\* Mutation: deliveries are acknowledged when they are sent.
Returned_AutoAck(q) == Tail(q)

\* What was not acknowledged is delivered again.
Returned(q) == q

\* The consumer stops or its connection breaks.
Disconnect(c) ==
    /\ consumer[c] # Idle
    /\ faults < MaxFaults
    /\ faults' = faults + 1
    /\ queue' = [queue EXCEPT ![c] = Returned(@)]
    /\ consumer' = [consumer EXCEPT ![c] = Idle]
    /\ UNCHANGED <<following, api, dead, notices>>

\* A database call of a request fails.  When only the answer of its write is
\* lost, the row is changed and no event is sent.
RequestFails(r) ==
    /\ r \in Running
    /\ faults < MaxFaults
    /\ faults' = faults + 1
    /\ request' = Go(r, "done", FALSE)
    /\ unconfirmed' = unconfirmed \cup {q \in {r} : request[q].step = "publish"}
    /\ UNCHANGED <<following, failed, last, broker, notices>>

\* The API process restarts: requests under way end, with an event unsent
\* perhaps, and a new publisher is made.
Restart ==
    /\ faults < MaxFaults
    /\ faults' = faults + 1
    /\ failed' = FALSE
    /\ request' = [r \in Requests |-> IF r \in Running
                                      THEN [request[r] EXCEPT !.step = "done"]
                                      ELSE request[r]]
    /\ unconfirmed' = unconfirmed \cup {r \in Running : request[r].step = "publish"}
    /\ failed \/ Running # {}
    /\ UNCHANGED <<following, last, broker, notices>>

Serve(r) == Check(r) \/ Write(r) \/ Publish(r)

Consume(c) == Deliver(c) \/ Ack(c)

Next ==
    \/ \E r \in Requests : \E kind \in {"follow", "unfollow"} : Start(r, kind)
    \/ \E r \in Requests : Serve(r) \/ PublishUnconfirmed(r) \/ RequestFails(r)
    \/ \E c \in Consumers : Consume(c) \/ Fail(c) \/ Disconnect(c)
    \/ ApplyRelation
    \/ InsertRow
    \/ Push
    \/ Restart

Spec == Init /\ [][Next]_vars

\* Requests and consumers run; nothing need be asked for and nothing need fail.
FairSpec ==
    /\ Spec
    /\ \A r \in Requests : WF_vars(Serve(r))
    /\ \A c \in Consumers : WF_vars(Consume(c))
    /\ WF_vars(ApplyRelation)
    /\ WF_vars(InsertRow)
    /\ WF_vars(Push)

-----------------------------------------------------------------------------
(* Properties.                                                             *)

Quiet == Running = {} /\ queue["social"] = <<>>

\* Once the events of requests made one after the other are consumed, the
\* relation is what the last of them made it, unless an event was lost on its
\* way to the broker or dead-lettered: that the worker writes it again, each
\* event any number of times, changes nothing in the end.
RelationConverges ==
    Quiet /\ unconfirmed = {} /\ dead["social"] = {} => following = last

Queued(r) == \E i \in 1..Len(queue["notification"]) : queue["notification"][i] = r

\* An event leaves the queue of the notifications with exactly one notification
\* stored for it, and that one pushed; or as a dead letter.  A push, an
\* acknowledgement or a connection that fails after the row was stored neither
\* stores another row nor leaves the push out.
NotifiedOnce ==
    [][\A r \in Requests : Queued(r) /\ ~Queued(r)' =>
          (rows[r] = 1 /\ r \in pushed) \/ r \in dead'["notification"]]_vars

\* As long as failures end: an event that reached the queue of the notifications
\* is stored or dead-lettered.
EventNotified ==
    \A r \in Requests : Queued(r) ~> (rows[r] > 0 \/ r \in dead["notification"])
=============================================================================
