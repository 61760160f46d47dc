---------------------------- MODULE Interaction ----------------------------
(***************************************************************************)
(* The path of a like, unlike, comment or comment deletion through the     *)
(* system:                                                                 *)
(*                                                                         *)
(*    API --> MySQL outbox --> RabbitMQ --> like / comment consumer        *)
(*              ^                             | one transaction: inbox     *)
(*              |                             | row, rows and counters,    *)
(*              +----- heat outbox row -------+ heat outbox row            *)
(*    heat outbox row --> RabbitMQ --> popularity consumer --> Redis Lua   *)
(*                                                                         *)
(* Every process may stop, lose its connection or get an uncertain answer  *)
(* between any two steps.  A database transaction is one step (the row and *)
(* unique-key locks it takes serialise it with the others), and so is a    *)
(* Redis script.  Queues do not keep order: several consumers, redelivery  *)
(* and republication reorder them.                                         *)
(***************************************************************************)
EXTENDS Integers, FiniteSets

CONSTANTS
    Users,        \* accounts
    Videos,       \* videos published at the start
    Events,       \* event ids NewEventID can return, one for each command
    Pollers,      \* RunOutboxPoller loops, one in each worker process
    Workers,      \* consumer goroutines
    Serves,       \* the queue each consumer reads
    MaxRetries,   \* retries before a delivery is dead-lettered (3 in the code)
    MaxCopies,    \* BOUND: publishing more copies of a message adds none
    None          \* "nothing"; a value of no other kind

LikeQueue    == "like.events"
CommentQueue == "comment.events"
HeatQueue    == "video.popularity.events"

Queues  == {LikeQueue, CommentQueue, HeatQueue}
Message == [queue : Queues, ev : Events]

\* A command as the outbox row and the queued message carry it, never changed
\* once written; "comment" is the row a deletion names, 0 in the others.
Command == [action : {"like", "unlike", "publish", "delete"},
            user : Users, video : Videos, comment : Nat]

CommentRow == [id : Nat, video : Videos, author : Users]

ASSUME ConstantsAssumption ==
    /\ IsFiniteSet(Users)
    /\ MaxRetries \in Nat
    /\ MaxCopies \in Nat \ {0}
    /\ Serves \in [Workers -> Queues]
    /\ None \notin Message
    /\ None \notin Command

VARIABLES
    body,         \* event id -> the command it stands for
    checked,      \* requests that passed their checks, not yet enqueued
    outbox,       \* messages with a pending outbox_msgs row
    claim,        \* poller -> the row its open transaction has locked
    sent,         \* poller -> has the broker confirmed the claimed message?
    copies,       \* message -> copies waiting in its queue
    hand,         \* consumer -> its delivery: message, failures, committed?
    dead,         \* messages that reached the dead-letter exchange
    videos,       \* ids of the videos rows
    likes,        \* <<user, video>> pairs of the likes rows
    likesCount,   \* videos.likes_count
    popularity,   \* videos.popularity
    comments,     \* comments rows
    lastComment,  \* the last comment id MySQL gave out
    consumed,     \* events with a consumed_events row
    change,       \* event id -> "change" of the heat event written for it, or 0
    seen,         \* events with a hot:processed marker in Redis
    heat          \* video -> its total over the Redis minute buckets

requests == <<body, checked>>
relay    == <<claim, sent>>
broker   == <<copies, hand, dead>>
database == <<videos, likes, likesCount, popularity, comments, lastComment,
              consumed, change>>
cache    == <<seen, heat>>
vars     == <<requests, outbox, relay, broker, database, cache>>

Idle == [msg |-> None, failures |-> 0, done |-> FALSE]

QueueOf(action) == IF action \in {"like", "unlike"} THEN LikeQueue ELSE CommentQueue
CommandMsg(e)   == [queue |-> QueueOf(body[e].action), ev |-> e]
HeatMsg(e)      == [queue |-> HeatQueue, ev |-> e]

\* GREATEST(counter + delta, 0)
Greatest0(n) == IF n < 0 THEN 0 ELSE n

TypeOK ==
    /\ body \in [Events -> Command \cup {None}]
    /\ checked \subseteq Events
    /\ outbox \subseteq Message
    /\ claim \in [Pollers -> Message \cup {None}]
    /\ sent \in [Pollers -> BOOLEAN]
    /\ copies \in [Message -> Nat]
    /\ hand \in [Workers -> [msg : Message \cup {None},
                             failures : 0..MaxRetries, done : BOOLEAN]]
    /\ dead \subseteq Message
    /\ videos \subseteq Videos
    /\ likes \subseteq Users \X Videos
    /\ likesCount \in [Videos -> Nat]
    /\ popularity \in [Videos -> Nat]
    /\ comments \subseteq CommentRow
    /\ lastComment \in Nat
    /\ consumed \subseteq Events
    /\ change \in [Events -> {-1, 0, 1}]
    /\ seen \subseteq Events
    /\ heat \in [Videos -> Int]

Init ==
    /\ body = [e \in Events |-> None]
    /\ checked = {}
    /\ outbox = {}
    /\ claim = [p \in Pollers |-> None]
    /\ sent = [p \in Pollers |-> FALSE]
    /\ copies = [m \in Message |-> 0]
    /\ hand = [w \in Workers |-> Idle]
    /\ dead = {}
    /\ videos = Videos
    /\ likes = {}
    /\ likesCount = [v \in Videos |-> 0]
    /\ popularity = [v \in Videos |-> 0]
    /\ comments = {}
    /\ lastComment = 0
    /\ consumed = {}
    /\ change = [e \in Events |-> 0]
    /\ seen = {}
    /\ heat = [v \in Videos |-> 0]

-----------------------------------------------------------------------------
(***************************************************************************)
(* The API.  A handler reads what it checks and inserts the outbox row in  *)
(* separate statements, so a request is two steps and any number of        *)
(* requests, of one user too, may stand between them.                      *)
(***************************************************************************)
Check(e, c) ==
    /\ body[e] = None
    /\ body' = [body EXCEPT ![e] = c]
    /\ checked' = checked \cup {e}
    /\ UNCHANGED <<outbox, relay, broker, database, cache>>

Like(e, u, v) ==
    /\ v \in videos
    /\ <<u, v>> \notin likes
    /\ Check(e, [action |-> "like", user |-> u, video |-> v, comment |-> 0])

Unlike(e, u, v) ==
    /\ v \in videos
    /\ <<u, v>> \in likes
    /\ Check(e, [action |-> "unlike", user |-> u, video |-> v, comment |-> 0])

PublishComment(e, u, v) ==
    /\ v \in videos
    /\ Check(e, [action |-> "publish", user |-> u, video |-> v, comment |-> 0])

\* Only the author may delete; the event names the row and nothing else of it
\* is used again.
DeleteComment(e, u, c) ==
    /\ c.author = u
    /\ Check(e, [action |-> "delete", user |-> u, video |-> c.video,
                 comment |-> c.id])

Enqueue(e) ==
    /\ e \in checked
    /\ checked' = checked \ {e}
    /\ outbox' = outbox \cup {CommandMsg(e)}
    /\ UNCHANGED <<body, relay, broker, database, cache>>

DeleteVideo(v) ==
    /\ v \in videos
    /\ videos' = videos \ {v}
    /\ UNCHANGED <<requests, outbox, relay, broker, likes, likesCount,
                   popularity, comments, lastComment, consumed, change, cache>>

-----------------------------------------------------------------------------
(***************************************************************************)
(* dispatchOutbox: lock one pending row, publish it, delete it, in one     *)
(* transaction.  Rows another poller has locked are skipped.  Which row is *)
(* taken first (ORDER BY id) is left open here: see OutboxPoller.          *)
(***************************************************************************)
Locked == {claim[p] : p \in Pollers} \ {None}

Claim(p, m) ==
    /\ claim[p] = None
    /\ m \in outbox \ Locked
    /\ claim' = [claim EXCEPT ![p] = m]
    /\ UNCHANGED <<requests, outbox, sent, broker, database, cache>>

\* The broker has stored the message.  Whether the poller hears so, and
\* whether its transaction then commits, is decided by the next step.
Publish(p) ==
    /\ claim[p] # None
    /\ ~sent[p]
    /\ copies' = [copies EXCEPT ![claim[p]] = IF @ < MaxCopies THEN @ + 1 ELSE @]
    /\ sent' = [sent EXCEPT ![p] = TRUE]
    /\ UNCHANGED <<requests, outbox, claim, hand, dead, database, cache>>

\* Mutation: the row is deleted whether or not the broker confirmed it.
DeleteRow_Unconfirmed(p) ==
    /\ claim[p] # None
    /\ outbox' = outbox \ {claim[p]}
    /\ claim' = [claim EXCEPT ![p] = None]
    /\ sent' = [sent EXCEPT ![p] = FALSE]
    /\ UNCHANGED <<requests, broker, database, cache>>

DeleteRow(p) ==
    /\ sent[p]
    /\ outbox' = outbox \ {claim[p]}
    /\ claim' = [claim EXCEPT ![p] = None]
    /\ sent' = [sent EXCEPT ![p] = FALSE]
    /\ UNCHANGED <<requests, broker, database, cache>>

\* The publish failed or was not confirmed, the commit failed, or the process
\* stopped: the row stays pending, published or not.
Rollback(p) ==
    /\ claim[p] # None
    /\ claim' = [claim EXCEPT ![p] = None]
    /\ sent' = [sent EXCEPT ![p] = FALSE]
    /\ UNCHANGED <<requests, outbox, broker, database, cache>>

-----------------------------------------------------------------------------
(***************************************************************************)
(* The transaction of the like and comment consumers.  consumeEvent first  *)
(* inserts the inbox row; on a duplicate key it commits nothing else.      *)
(***************************************************************************)
Replay(e) ==
    /\ e \in consumed
    /\ UNCHANGED <<outbox, database>>

\* Mutation: the inbox row is written but a duplicate is not noticed.
consumeEvent_NoInbox(e) == consumed' = consumed \cup {e}

consumeEvent(e) ==
    /\ e \notin consumed
    /\ consumed' = consumed \cup {e}

\* Mutation: the heat event is sent after the commit, and the process dies.
enqueuePopularity_AfterCommit(e, delta) ==
    /\ change' = [change EXCEPT ![e] = delta]
    /\ UNCHANGED outbox

enqueuePopularity(e, delta) ==
    /\ change' = [change EXCEPT ![e] = delta]
    /\ outbox' = outbox \cup {HeatMsg(e)}

\* Mutation: the counters move although no row did.
LikeRowChanges_NotChecked(c) == c.video \in videos

\* LikeIgnoreDuplicate created the row, or DeleteByVideoAndAccount found it.
LikeRowChanges(c) ==
    /\ c.video \in videos
    /\ (c.action = "like") = (<<c.user, c.video>> \notin likes)

ChangeLike(e) ==
    LET c     == body[e]
        delta == IF c.action = "like" THEN 1 ELSE -1
    IN  /\ consumeEvent(e)
        /\ LikeRowChanges(c)
        /\ likes' = IF c.action = "like" THEN likes \cup {<<c.user, c.video>>}
                                         ELSE likes \ {<<c.user, c.video>>}
        /\ likesCount' = [likesCount EXCEPT ![c.video] = Greatest0(@ + delta)]
        /\ popularity' = [popularity EXCEPT ![c.video] = Greatest0(@ + delta)]
        /\ enqueuePopularity(e, delta)
        /\ UNCHANGED <<videos, comments, lastComment>>

\* The video is gone, or the relation is already as the command wants it.
IgnoreLike(e) ==
    /\ consumeEvent(e)
    /\ ~LikeRowChanges(body[e])
    /\ UNCHANGED <<outbox, videos, likes, likesCount, popularity, comments,
                   lastComment, change>>

ApplyLikeEvent(e) == Replay(e) \/ ChangeLike(e) \/ IgnoreLike(e)

CreateComment(e) ==
    LET c == body[e]
    IN  /\ c.action = "publish"
        /\ consumeEvent(e)
        /\ c.video \in videos
        /\ lastComment' = lastComment + 1
        /\ comments' = comments \cup
              {[id |-> lastComment + 1, video |-> c.video, author |-> c.user]}
        /\ popularity' = [popularity EXCEPT ![c.video] = @ + 1]
        /\ enqueuePopularity(e, 1)
        /\ UNCHANGED <<videos, likes, likesCount>>

IgnoreComment(e) ==
    /\ body[e].action = "publish"
    /\ consumeEvent(e)
    /\ body[e].video \notin videos
    /\ UNCHANGED <<outbox, videos, likes, likesCount, popularity, comments,
                   lastComment, change>>

\* Mutation: the point of the comment is taken back.
RemoveComment_TakesPointBack(e) ==
    /\ body[e].action = "delete"
    /\ consumeEvent(e)
    /\ comments' = {c \in comments : c.id # body[e].comment}
    /\ popularity' = [popularity EXCEPT ![body[e].video] = Greatest0(@ - 1)]
    /\ UNCHANGED <<outbox, videos, likes, likesCount, lastComment, change>>

\* A deletion does not look at the video and gives no popularity back.
RemoveComment(e) ==
    /\ body[e].action = "delete"
    /\ consumeEvent(e)
    /\ comments' = {c \in comments : c.id # body[e].comment}
    /\ UNCHANGED <<outbox, videos, likes, likesCount, popularity, lastComment,
                   change>>

ApplyCommentEvent(e) ==
    Replay(e) \/ CreateComment(e) \/ IgnoreComment(e) \/ RemoveComment(e)

-----------------------------------------------------------------------------
(***************************************************************************)
(* The popularity script, for events younger than its two-hour deadline,   *)
(* during which the marker does not expire.                                *)
(***************************************************************************)
SkipHeat(e) ==
    /\ e \in seen
    /\ UNCHANGED cache

\* Mutation: the script does not look for the marker.
AddHeat_NoMarker(e) ==
    /\ seen' = seen \cup {e}
    /\ heat' = [heat EXCEPT ![body[e].video] = @ + change[e]]

AddHeat(e) ==
    /\ e \notin seen
    /\ seen' = seen \cup {e}
    /\ heat' = [heat EXCEPT ![body[e].video] = @ + change[e]]

ApplyPopularity(e) == SkipHeat(e) \/ AddHeat(e)

-----------------------------------------------------------------------------
(***************************************************************************)
(* The consumers: take a delivery, run its handler, acknowledge.           *)
(***************************************************************************)
Deliver(w, m) ==
    /\ hand[w].msg = None
    /\ m.queue = Serves[w]
    /\ copies[m] > 0
    /\ copies' = [copies EXCEPT ![m] = @ - 1]
    /\ hand' = [hand EXCEPT ![w].msg = m]
    /\ UNCHANGED <<requests, outbox, relay, dead, database, cache>>

Busy(w) == hand[w].msg # None /\ ~hand[w].done

\* What a handler commits for message m.
Effect(m) ==
    \/ m.queue = LikeQueue /\ ApplyLikeEvent(m.ev) /\ UNCHANGED cache
    \/ m.queue = CommentQueue /\ ApplyCommentEvent(m.ev) /\ UNCHANGED cache
    \/ m.queue = HeatQueue /\ ApplyPopularity(m.ev) /\ UNCHANGED <<outbox, database>>

\* Mutation: one retry too many.
CountFailure_OffByOne(w) ==
    \/ /\ hand[w].failures <= MaxRetries
       /\ hand' = [hand EXCEPT ![w].failures = @ + 1]
       /\ UNCHANGED dead
    \/ /\ hand[w].failures > MaxRetries
       /\ hand' = [hand EXCEPT ![w] = Idle]
       /\ dead' = dead \cup {hand[w].msg}

\* An error is retried; after the last retry the delivery is rejected and the
\* broker dead-letters it.
CountFailure(w) ==
    \/ /\ hand[w].failures < MaxRetries
       /\ hand' = [hand EXCEPT ![w].failures = @ + 1]
       /\ UNCHANGED dead
    \/ /\ hand[w].failures = MaxRetries
       /\ hand' = [hand EXCEPT ![w] = Idle]
       /\ dead' = dead \cup {hand[w].msg}

Process(w) ==
    /\ Busy(w)
    /\ Effect(hand[w].msg)
    /\ hand' = [hand EXCEPT ![w].done = TRUE]
    /\ UNCHANGED <<requests, relay, copies, dead>>

\* The transaction rolled back, or Redis did not run the script.
Fail(w) ==
    /\ Busy(w)
    /\ CountFailure(w)
    /\ UNCHANGED <<requests, outbox, relay, copies, database, cache>>

\* The transaction committed or the script ran, but the answer was lost: the
\* handler sees an error.
Uncertain(w) ==
    /\ Busy(w)
    /\ Effect(hand[w].msg)
    /\ CountFailure(w)
    /\ UNCHANGED <<requests, relay, copies>>

Ack(w) ==
    /\ hand[w].done
    /\ hand' = [hand EXCEPT ![w] = Idle]
    /\ UNCHANGED <<requests, outbox, relay, copies, dead, database, cache>>

\* Shutdown (Nack with requeue), a crash, a lost connection or a lost Ack: the
\* broker puts the delivery back in its queue.
Requeue(w) ==
    /\ hand[w].msg # None
    /\ copies' = [copies EXCEPT ![hand[w].msg] = @ + 1]
    /\ hand' = [hand EXCEPT ![w] = Idle]
    /\ UNCHANGED <<requests, outbox, relay, dead, database, cache>>

-----------------------------------------------------------------------------
Request ==
    \E e \in Events, u \in Users :
        \/ \E v \in Videos : \/ Like(e, u, v)
                             \/ Unlike(e, u, v)
                             \/ PublishComment(e, u, v)
        \/ \E c \in comments : DeleteComment(e, u, c)

Poller(p) ==
    \/ \E m \in Message : Claim(p, m)
    \/ Publish(p)
    \/ DeleteRow(p)

Consumer(w) ==
    \/ \E m \in Message : Deliver(w, m)
    \/ Process(w)
    \/ Ack(w)

Fault ==
    \/ \E p \in Pollers : Rollback(p)
    \/ \E w \in Workers : Fail(w) \/ Uncertain(w) \/ Requeue(w)

Step ==
    \/ Request
    \/ \E e \in Events : Enqueue(e)
    \/ \E v \in Videos : DeleteVideo(v)
    \/ \E p \in Pollers : Poller(p)
    \/ \E w \in Workers : Consumer(w)

Next == Step \/ Fault

Spec == Init /\ [][Next]_vars

-----------------------------------------------------------------------------
(***************************************************************************)
(* Safety.                                                                 *)
(***************************************************************************)
Likers(v)    == {u \in Users : <<u, v>> \in likes}
Published(v) == {e \in consumed : body[e].action = "publish" /\ body[e].video = v}

\* videos.likes_count, kept by increments in a transaction that may be retried,
\* replayed or run by several consumers, is the number of likes rows.
LikesCounted == \A v \in videos : likesCount[v] = Cardinality(Likers(v))

\* videos.popularity is one for each like that stands and one for each comment
\* ever published; a deleted comment keeps its point.
PopularityExplained ==
    \A v \in videos : popularity[v] = likesCount[v] + Cardinality(Published(v))

\* The heat in Redis and the popularity in MySQL differ by exactly the heat
\* events not yet counted: none is made up, counted twice or forgotten.
Uncounted(v, delta) ==
    {e \in Events \ seen : change[e] = delta /\ body[e].video = v}

HeatConserved ==
    \A v \in videos :
        popularity[v] = heat[v] + Cardinality(Uncounted(v, 1)) - Cardinality(Uncounted(v, -1))

\* Every command the API accepted and every heat event a transaction wrote is
\* still somewhere until it has taken effect, or was given up to the DLX.
Accepted(e) == body[e] # None /\ e \notin checked

Somewhere(m) == \/ m \in outbox
                \/ copies[m] > 0
                \/ \E w \in Workers : hand[w].msg = m
                \/ m \in dead

NothingLost ==
    \A e \in Events :
        /\ Accepted(e) /\ e \notin consumed => Somewhere(CommandMsg(e))
        /\ change[e] # 0 /\ e \notin seen => Somewhere(HeatMsg(e))

\* A step that consumes no new event (a redelivery, a second copy, a retry after
\* a lost answer) leaves likes, comments and counters as they are: an old like
\* does not come back after the unlike, nor an old comment after its deletion.
ReplayHarmless ==
    [][consumed' = consumed =>
         UNCHANGED <<likes, likesCount, popularity, comments, lastComment, change>>]_vars

-----------------------------------------------------------------------------
(***************************************************************************)
(* Liveness.  Tasks.Go restarts a failed loop for ever and the loops take  *)
(* whatever row or message there is.  MySQL, RabbitMQ, Redis and the       *)
(* processes may fail any number of times, but not for ever; OutboxPoller  *)
(* treats failures without end.  Nothing is assumed of the clients.        *)
(***************************************************************************)
Fairness ==
    /\ \A p \in Pollers : WF_vars(Poller(p))
    /\ \A w \in Workers : WF_vars(Consumer(w))

FairSpec == Spec /\ Fairness /\ <>[][~Fault]_vars

\* An accepted command takes effect, and the heat of every change reaches
\* Redis, or its message is dead-lettered, through any number of rollbacks, lost
\* confirms, crashes and requeues.
CommandSettles(e) ==
    Accepted(e) ~> (e \in consumed \/ \E m \in dead : m.ev = e /\ m.queue # HeatQueue)

HeatSettles(e) == change[e] # 0 ~> (e \in seen \/ HeatMsg(e) \in dead)

EventsSettle == \A e \in Events : CommandSettles(e) /\ HeatSettles(e)

-----------------------------------------------------------------------------
(***************************************************************************)
(* Interaction implements ExactlyOnce: outbox, broker and workers are      *)
(* invisible, inbox rows are effects, markers are scores.                  *)
(***************************************************************************)
Once == INSTANCE ExactlyOnce WITH
            command <- [e \in Events |-> IF e \in checked THEN None ELSE body[e]],
            applied <- consumed,
            gain    <- change,
            scored  <- seen

\* Whatever is retried, republished, redelivered or lost on the way, clients of
\* the database and of Redis see each accepted command take effect once at most
\* and the counters equal to a recount of the rows.
ImplementsExactlyOnce == Once!Spec
=============================================================================
