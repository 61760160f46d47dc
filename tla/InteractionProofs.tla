-------------------------- MODULE InteractionProofs --------------------------
(***************************************************************************)
(* Theorems about Interaction, for all users, videos, events, pollers and  *)
(* workers and all bounds: messages are not lost, the counters are those   *)
(* of the rows, and Interaction implements ExactlyOnce.                    *)
(***************************************************************************)
EXTENDS Interaction, TLAPS, FiniteSetTheorems

(***************************************************************************)
(* The type invariant alone is not inductive: a handler reads the command  *)
(* of the event its message names, so every message in the system must     *)
(* name an event that has one, and be in the queue for it or the heat one. *)
(***************************************************************************)
Known(e) == body[e] \in Command

Fits(m) == Known(m.ev) /\ m.queue \in {HeatQueue, QueueOf(body[m.ev].action)}

MessagesKnown ==
    /\ \A e \in checked : Known(e)
    /\ \A m \in outbox \cup dead : Fits(m)
    /\ \A p \in Pollers : claim[p] # None => Fits(claim[p])
    /\ \A m \in Message : copies[m] > 0 => Fits(m)
    /\ \A w \in Workers : hand[w].msg # None => Fits(hand[w].msg)

TInv == TypeOK /\ MessagesKnown

\* Queue names, and the empty delivery.
LEMMA MessageForm ==
    /\ \A e \in Events : HeatMsg(e) \in Message
    /\ \A e \in Events, c \in Command :
         [queue |-> QueueOf(c.action), ev |-> e] \in Message
    /\ \A m \in Message : m.ev \in Events /\ m.queue \in Queues
  BY DEF Message, HeatMsg, QueueOf, Queues, LikeQueue, CommentQueue, HeatQueue

LEMMA InitTInv == Init => TInv
<1> SUFFICES ASSUME Init PROVE TInv
  OBVIOUS
<1> USE ConstantsAssumption DEF Init
<1>1. TypeOK
  BY DEF TypeOK, Idle
<1>2. MessagesKnown
  BY DEF MessagesKnown, Idle
<1> QED
  BY <1>1, <1>2 DEF TInv

-----------------------------------------------------------------------------
\* What a handler commits keeps the types of everything it writes, and writes
\* a row only for the event it handles.
EffectTypes ==
    /\ outbox' \subseteq Message
    /\ videos' \subseteq Videos
    /\ likes' \subseteq Users \X Videos
    /\ likesCount' \in [Videos -> Nat]
    /\ popularity' \in [Videos -> Nat]
    /\ comments' \subseteq CommentRow
    /\ lastComment' \in Nat
    /\ consumed' \subseteq Events
    /\ change' \in [Events -> {-1, 0, 1}]
    /\ seen' \subseteq Events
    /\ heat' \in [Videos -> Int]

LEMMA EffectKeepsTypes ==
    ASSUME TypeOK, NEW m \in Message, Known(m.ev), Effect(m)
    PROVE  EffectTypes /\ outbox' \subseteq outbox \cup {HeatMsg(m.ev)}
<1> DEFINE e == m.ev
           c == body[e]
<1>0. /\ e \in Events /\ c \in Command
      /\ c.video \in Videos /\ c.user \in Users
      /\ HeatMsg(e) \in Message
  BY MessageForm DEF Known, Command
<1> USE DEF TypeOK, EffectTypes
<1>1. CASE UNCHANGED <<outbox, database, cache>>
  BY <1>1 DEF database, cache
<1>2. CASE ChangeLike(e) /\ UNCHANGED cache
  <2> DEFINE delta == IF c.action = "like" THEN 1 ELSE -1
  <2>1. likesCount' \in [Videos -> Nat] /\ popularity' \in [Videos -> Nat]
    BY <1>2, <1>0 DEF ChangeLike, Greatest0
  <2>2. likes' \subseteq Users \X Videos
    BY <1>2, <1>0 DEF ChangeLike
  <2>3. /\ outbox' = outbox \cup {HeatMsg(e)}
        /\ change' \in [Events -> {-1, 0, 1}]
    BY <1>2, <1>0 DEF ChangeLike, enqueuePopularity
  <2> QED
    BY <1>2, <1>0, <2>1, <2>2, <2>3 DEF ChangeLike, consumeEvent, cache
<1>3. CASE IgnoreLike(e) /\ UNCHANGED cache
  BY <1>3, <1>0 DEF IgnoreLike, consumeEvent, cache
<1>4. CASE CreateComment(e) /\ UNCHANGED cache
  <2>1. comments' \subseteq CommentRow /\ lastComment' \in Nat
    BY <1>4, <1>0 DEF CreateComment, CommentRow
  <2>2. popularity' \in [Videos -> Nat]
    BY <1>4, <1>0 DEF CreateComment
  <2>3. /\ outbox' = outbox \cup {HeatMsg(e)}
        /\ change' \in [Events -> {-1, 0, 1}]
    BY <1>4, <1>0 DEF CreateComment, enqueuePopularity
  <2> QED
    BY <1>4, <1>0, <2>1, <2>2, <2>3 DEF CreateComment, consumeEvent, cache
<1>5. CASE IgnoreComment(e) /\ UNCHANGED cache
  BY <1>5, <1>0 DEF IgnoreComment, consumeEvent, cache
<1>6. CASE RemoveComment(e) /\ UNCHANGED cache
  BY <1>6, <1>0 DEF RemoveComment, consumeEvent, cache
<1>7. CASE AddHeat(e) /\ UNCHANGED <<outbox, database>>
  <2>1. change[e] \in Int
    BY <1>0
  <2>2. heat' \in [Videos -> Int]
    BY <1>7, <1>0, <2>1 DEF AddHeat
  <2> QED
    BY <1>7, <1>0, <2>2 DEF AddHeat, database
<1> QED
  BY <1>1, <1>2, <1>3, <1>4, <1>5, <1>6, <1>7
     DEF Effect, ApplyLikeEvent, ApplyCommentEvent, ApplyPopularity, Replay,
         SkipHeat, cache, database

\* A command, once chosen, is never changed.
LEMMA KnownStays ==
    ASSUME TypeOK, [Next]_vars, NEW e \in Events, Known(e)
    PROVE  Known(e)' /\ body'[e] = body[e]
<1>1. body[e] # None
  BY ConstantsAssumption DEF Known
<1>2. ASSUME NEW f \in Events, NEW c, Check(f, c) PROVE body'[e] = body[e]
  BY <1>1, <1>2 DEF Check, TypeOK
<1>3. CASE Request
  <2>1. body'[e] = body[e]
    BY <1>3, <1>2 DEF Request, Like, Unlike, PublishComment, DeleteComment
  <2> QED
    BY <2>1 DEF Known
<1>4. CASE body' = body
  BY <1>4 DEF Known
<1>5. CASE ~Request /\ Next
  <2>1. body' = body
    BY <1>5 DEF Next, Step, Fault, Poller, Consumer, Enqueue, DeleteVideo, Claim,
        Publish, DeleteRow, Rollback, Deliver, Process, Fail, Uncertain, Ack,
        Requeue, requests
  <2> QED
    BY <2>1, <1>4
<1>6. CASE UNCHANGED vars
  BY <1>6, <1>4 DEF vars, requests
<1> QED
  BY <1>3, <1>4, <1>5, <1>6 DEF Known

-----------------------------------------------------------------------------
LEMMA FailureCounted ==
    ASSUME TypeOK, MessagesKnown, NEW w \in Workers, Busy(w), CountFailure(w)
    PROVE  /\ hand' \in [Workers -> [msg : Message \cup {None},
                                    failures : 0..MaxRetries, done : BOOLEAN]]
           /\ dead' \subseteq Message
           /\ \A m \in dead' : Fits(m)
           /\ \A v \in Workers : hand'[v].msg # None => Fits(hand'[v].msg)
<1> USE ConstantsAssumption DEF TypeOK, MessagesKnown, Busy
<1>1. hand[w].msg \in Message
  OBVIOUS
<1>2. CASE /\ hand[w].failures < MaxRetries
           /\ hand' = [hand EXCEPT ![w].failures = @ + 1]
           /\ UNCHANGED dead
  BY <1>1, <1>2
<1>3. CASE /\ hand[w].failures = MaxRetries
           /\ hand' = [hand EXCEPT ![w] = Idle]
           /\ dead' = dead \cup {hand[w].msg}
  BY <1>1, <1>3 DEF Idle
<1> QED
  BY <1>2, <1>3 DEF CountFailure

LEMMA StepTInv == TInv /\ [Next]_vars => TInv'
<1> SUFFICES ASSUME TInv, [Next]_vars PROVE TInv'
  OBVIOUS
<1>0. /\ TypeOK /\ MessagesKnown
      /\ \A e \in Events : Known(e) => Known(e)'
      /\ \A m \in Message : m.ev \in Events /\ (Fits(m) => Fits(m)')
  BY KnownStays, MessageForm DEF TInv, Fits
<1> USE ConstantsAssumption DEF TypeOK, MessagesKnown
<1>1. ASSUME NEW e \in Events, NEW c \in Command, Check(e, c) PROVE TInv'
  <2>1. body' \in [Events -> Command \cup {None}] /\ Known(e)'
    BY <1>0, <1>1 DEF Check, Known
  <2> QED
    BY <1>0, <1>1, <2>1
       DEF TInv, Check, relay, broker, database, cache
<1>2. CASE Request
  <2> PICK e \in Events, u \in Users :
           \/ \E v \in Videos : \/ Like(e, u, v)
                                \/ Unlike(e, u, v)
                                \/ PublishComment(e, u, v)
           \/ \E c \in comments : DeleteComment(e, u, c)
    BY <1>2 DEF Request
  <2>1. \E c \in Command : Check(e, c)
    BY <1>0 DEF Like, Unlike, PublishComment, DeleteComment, Command, CommentRow
  <2> QED
    BY <1>1, <2>1
<1>3. ASSUME NEW e \in Events, Enqueue(e) PROVE TInv'
  <2>1. Known(e) /\ CommandMsg(e) \in Message /\ Fits(CommandMsg(e))
    BY <1>0, <1>3, MessageForm DEF Enqueue, CommandMsg, Known, Fits
  <2> QED
    BY <1>0, <1>3, <2>1 DEF TInv, Enqueue, relay, broker, database, cache
<1>4. ASSUME NEW v \in Videos, DeleteVideo(v) PROVE TInv'
  BY <1>0, <1>4 DEF TInv, DeleteVideo, requests, relay, broker, cache
<1>5. ASSUME NEW p \in Pollers, Poller(p) \/ Rollback(p) PROVE TInv'
  <2>1. ASSUME NEW m \in Message, Claim(p, m) PROVE TInv'
    BY <1>0, <2>1 DEF TInv, Claim, requests, broker, database, cache
  <2>2. CASE Publish(p)
    <3>1. claim[p] \in Message
      BY <1>0, <2>2 DEF Publish
    <3>2. copies' \in [Message -> Nat]
      BY <1>0, <2>2, <3>1 DEF Publish
    <3>3. \A m \in Message : copies'[m] > 0 => m = claim[p] \/ copies[m] > 0
      BY <1>0, <2>2, <3>1 DEF Publish
    <3> QED
      BY <1>0, <2>2, <3>1, <3>2, <3>3 DEF TInv, Publish, requests, database, cache
  <2>3. CASE DeleteRow(p) \/ Rollback(p)
    BY <1>0, <2>3 DEF TInv, DeleteRow, Rollback, requests, broker, database, cache
  <2> QED
    BY <1>5, <2>1, <2>2, <2>3 DEF Poller
<1>6. ASSUME NEW w \in Workers, NEW m \in Message, Deliver(w, m) PROVE TInv'
  <2>1. Fits(m)
    BY <1>0, <1>6 DEF Deliver
  <2>2. copies' \in [Message -> Nat]
    BY <1>0, <1>6 DEF Deliver
  <2>3. \A n \in Message : copies'[n] > 0 => copies[n] > 0
    BY <1>0, <1>6 DEF Deliver
  <2> QED
    BY <1>0, <1>6, <2>1, <2>2, <2>3
       DEF TInv, Deliver, requests, relay, database, cache
<1>7. ASSUME NEW w \in Workers, Busy(w), Effect(hand[w].msg),
             UNCHANGED <<requests, relay, copies>>,
             \/ CountFailure(w)
             \/ hand' = [hand EXCEPT ![w].done = TRUE] /\ UNCHANGED dead
      PROVE  TInv'
  <2>1. hand[w].msg \in Message /\ Fits(hand[w].msg)
    BY <1>0, <1>7 DEF Busy
  <2>2. /\ EffectTypes
        /\ outbox' \subseteq outbox \cup {HeatMsg(hand[w].msg.ev)}
    BY <1>0, <1>7, <2>1, EffectKeepsTypes DEF Fits
  <2>3. HeatMsg(hand[w].msg.ev) \in Message /\ Fits(HeatMsg(hand[w].msg.ev))
    BY <1>0, <2>1, MessageForm DEF HeatMsg, Fits
  <2>4. /\ hand' \in [Workers -> [msg : Message \cup {None},
                                 failures : 0..MaxRetries, done : BOOLEAN]]
        /\ dead' \subseteq Message
        /\ \A m \in dead' : Fits(m)
        /\ \A v \in Workers : hand'[v].msg # None => Fits(hand'[v].msg)
    <3>1. CASE CountFailure(w)
      BY <1>0, <1>7, <3>1, FailureCounted
    <3>2. CASE hand' = [hand EXCEPT ![w].done = TRUE] /\ UNCHANGED dead
      <4>1. hand' \in [Workers -> [msg : Message \cup {None},
                                  failures : 0..MaxRetries, done : BOOLEAN]]
        BY <1>0, <3>2
      <4>2. \A v \in Workers : hand'[v].msg = hand[v].msg
        BY <1>0, <3>2
      <4> QED
        BY <1>0, <3>2, <4>1, <4>2
    <3> QED
      BY <1>7, <3>1, <3>2
  <2>5. TypeOK'
    BY <1>0, <1>7, <2>2, <2>4 DEF EffectTypes, requests, relay
  <2>6. MessagesKnown'
    BY <1>0, <1>7, <2>1, <2>2, <2>3, <2>4 DEF EffectTypes, requests, relay
  <2> QED
    BY <2>5, <2>6 DEF TInv
<1>8. ASSUME NEW w \in Workers, Fail(w) PROVE TInv'
  <2>1. /\ hand' \in [Workers -> [msg : Message \cup {None},
                                 failures : 0..MaxRetries, done : BOOLEAN]]
        /\ dead' \subseteq Message
        /\ \A m \in dead' : Fits(m)
        /\ \A v \in Workers : hand'[v].msg # None => Fits(hand'[v].msg)
    BY <1>0, <1>8, FailureCounted DEF Fail
  <2> QED
    BY <1>0, <1>8, <2>1 DEF TInv, Fail, requests, relay, database, cache
<1>9. ASSUME NEW w \in Workers, Ack(w) PROVE TInv'
  BY <1>0, <1>9 DEF TInv, Ack, Idle, requests, relay, database, cache
<1>10. ASSUME NEW w \in Workers, Requeue(w) PROVE TInv'
  <2>1. hand[w].msg \in Message /\ Fits(hand[w].msg)
    BY <1>0, <1>10 DEF Requeue
  <2>2. copies' \in [Message -> Nat]
    BY <1>0, <1>10, <2>1 DEF Requeue
  <2>3. \A m \in Message : copies'[m] > 0 => m = hand[w].msg \/ copies[m] > 0
    BY <1>0, <1>10, <2>1 DEF Requeue
  <2> QED
    BY <1>0, <1>10, <2>1, <2>2, <2>3
       DEF TInv, Requeue, Idle, requests, relay, database, cache
<1>11. CASE UNCHANGED vars
  BY <1>0, <1>11 DEF TInv, vars, requests, relay, broker, database, cache
<1> QED
  BY <1>2, <1>3, <1>4, <1>5, <1>6, <1>7, <1>8, <1>9, <1>10, <1>11
     DEF Next, Step, Fault, Consumer, Process, Uncertain

LEMMA AlwaysTInv == Spec => []TInv
  BY InitTInv, StepTInv, PTL DEF Spec

\* The rows, queues and Redis keys keep their types: no handler ever meets a
\* message whose event has no command, or one meant for another queue.
THEOREM TypeCorrect == Spec => []TypeOK
<1>1. TInv => TypeOK
  BY DEF TInv
<1> QED
  BY <1>1, AlwaysTInv, PTL

-----------------------------------------------------------------------------
(***************************************************************************)
(* The counters.  A step either leaves rows and counters alone or is one   *)
(* of the five outcomes of a first consumption.                            *)
(***************************************************************************)
LikeCommand(e)    == Known(e) /\ body[e].action \in {"like", "unlike"}
CommentCommand(e) == Known(e) /\ body[e].action \in {"publish", "delete"}

SameRows == UNCHANGED <<likes, likesCount, popularity, comments, lastComment,
                        consumed, change>>

FirstUse(e) ==
    \/ LikeCommand(e) /\ (ChangeLike(e) \/ IgnoreLike(e))
    \/ CommentCommand(e) /\ (CreateComment(e) \/ IgnoreComment(e) \/ RemoveComment(e))

LEMMA RowsChangeAtFirstUse ==
    ASSUME TInv, [Next]_vars
    PROVE  SameRows \/ \E e \in Events : FirstUse(e) /\ UNCHANGED <<body, seen, heat>>
<1> USE DEF SameRows
<1>1. ASSUME NEW w \in Workers, Busy(w), Effect(hand[w].msg), UNCHANGED requests
      PROVE  SameRows \/ \E e \in Events : FirstUse(e) /\ UNCHANGED <<body, seen, heat>>
  <2> DEFINE m == hand[w].msg
  <2>1. m \in Message /\ Fits(m) /\ m.ev \in Events
    BY <1>1, MessageForm DEF Busy, TInv, TypeOK, MessagesKnown
  <2>2. CASE m.queue = LikeQueue /\ ApplyLikeEvent(m.ev) /\ UNCHANGED cache
    <3>1. LikeCommand(m.ev)
      BY <2>1, <2>2 DEF Fits, LikeCommand, Known, Command, QueueOf, LikeQueue,
         CommentQueue, HeatQueue
    <3> QED
      BY <1>1, <2>1, <2>2, <3>1
         DEF FirstUse, ApplyLikeEvent, Replay, requests, cache, database
  <2>3. CASE m.queue = CommentQueue /\ ApplyCommentEvent(m.ev) /\ UNCHANGED cache
    <3>1. CommentCommand(m.ev)
      BY <2>1, <2>3 DEF Fits, CommentCommand, Known, Command, QueueOf, LikeQueue,
         CommentQueue, HeatQueue
    <3> QED
      BY <1>1, <2>1, <2>3, <3>1
         DEF FirstUse, ApplyCommentEvent, Replay, requests, cache, database
  <2> QED
    BY <1>1, <2>2, <2>3 DEF Effect, database
<1>2. CASE UNCHANGED database
  BY <1>2 DEF database
<1>3. ASSUME NEW v \in Videos, DeleteVideo(v) PROVE SameRows
  BY <1>3 DEF DeleteVideo
<1>4. ASSUME NEW w \in Workers, Process(w) \/ Uncertain(w)
      PROVE  Busy(w) /\ Effect(hand[w].msg) /\ UNCHANGED requests
  BY <1>4 DEF Process, Uncertain
<1>5. CASE Request
  BY <1>5, <1>2 DEF Request, Like, Unlike, PublishComment, DeleteComment, Check
<1>6. CASE UNCHANGED vars
  BY <1>6, <1>2 DEF vars
<1> QED
  BY <1>1, <1>2, <1>3, <1>4, <1>5, <1>6
     DEF Next, Step, Fault, Poller, Consumer, Enqueue, Claim, Publish, DeleteRow,
         Rollback, Deliver, Fail, Ack, Requeue

\* No replay, redelivery or retry changes a row or a counter.
THEOREM ReplaysAreHarmless == Spec => ReplayHarmless
<1>1. ASSUME TInv, [Next]_vars, consumed' = consumed
      PROVE  UNCHANGED <<likes, likesCount, popularity, comments, lastComment, change>>
  <2>1. \A e : ~consumeEvent(e)
    BY <1>1 DEF consumeEvent
  <2>2. \A e \in Events : ~FirstUse(e)
    BY <2>1 DEF FirstUse, ChangeLike, IgnoreLike, CreateComment, IgnoreComment,
       RemoveComment
  <2> QED
    BY <1>1, <2>2, RowsChangeAtFirstUse DEF SameRows
<1> QED
  BY <1>1, AlwaysTInv, PTL DEF Spec, ReplayHarmless

-----------------------------------------------------------------------------
(***************************************************************************)
(* likes_count.  The invariant is for every video, deleted ones included:  *)
(* their rows are frozen, so it stays inductive when a video goes.         *)
(***************************************************************************)
LInv == \A v \in Videos : likesCount[v] = Cardinality(Likers(v))

LEMMA LikersFinite == \A v : IsFiniteSet(Likers(v)) /\ Cardinality(Likers(v)) \in Nat
  BY ConstantsAssumption, FS_Subset, FS_CardinalityType, Zenon DEF Likers

\* A like row added or removed changes the number of likers by its delta.
LEMMA OneLiker ==
    ASSUME TypeOK, NEW e \in Events, LikeCommand(e), ChangeLike(e),
           NEW v \in Videos, v = body[e].video
    PROVE  /\ \A w \in Videos \ {v} :
                 Likers(w)' = Likers(w) /\ likesCount'[w] = likesCount[w]
           /\ body[e].action = "like" =>
                 Cardinality(Likers(v)') = Cardinality(Likers(v)) + 1
           /\ body[e].action = "unlike" =>
                 /\ Cardinality(Likers(v)) > 0
                 /\ Cardinality(Likers(v)') = Cardinality(Likers(v)) - 1
<1> PICK u \in Users : u = body[e].user
  BY DEF LikeCommand, Known, Command
<1>1. \A w \in Videos \ {v} :
         Likers(w)' = Likers(w) /\ likesCount'[w] = likesCount[w]
  <2>1. \A w \in Videos \ {v}, x \in Users : <<x, w>> \in likes' <=> <<x, w>> \in likes
    BY DEF ChangeLike
  <2> QED
    BY <2>1 DEF ChangeLike, Likers, TypeOK
<1>2. IsFiniteSet(Likers(v)) /\ Cardinality(Likers(v)) \in Nat
  BY LikersFinite
<1>3. ASSUME body[e].action = "like"
      PROVE  Cardinality(Likers(v)') = Cardinality(Likers(v)) + 1
  <2>1. likes' = likes \cup {<<u, v>>} /\ <<u, v>> \notin likes
    BY <1>3 DEF ChangeLike, LikeRowChanges
  <2>2. u \notin Likers(v) /\ Likers(v)' = Likers(v) \cup {u}
    BY <2>1 DEF Likers
  <2> QED
    BY <1>2, <2>2, FS_AddElement
<1>4. ASSUME body[e].action = "unlike"
      PROVE  /\ Cardinality(Likers(v)) > 0
             /\ Cardinality(Likers(v)') = Cardinality(Likers(v)) - 1
  <2>1. likes' = likes \ {<<u, v>>} /\ <<u, v>> \in likes
    BY <1>4 DEF ChangeLike, LikeRowChanges
  <2>2. u \in Likers(v) /\ Likers(v)' = Likers(v) \ {u}
    BY <2>1 DEF Likers
  <2>3. /\ IsFiniteSet(Likers(v)')
        /\ Cardinality(Likers(v)') = Cardinality(Likers(v)) - 1
    BY <1>2, <2>2, FS_RemoveElement
  <2>4. Cardinality(Likers(v)') \in Nat
    BY <2>3, FS_CardinalityType
  <2> QED
    BY <1>2, <2>3, <2>4
<1> QED
  BY <1>1, <1>3, <1>4

LEMMA StepLInv == TInv /\ LInv /\ [Next]_vars => LInv'
<1> SUFFICES ASSUME TInv, LInv, [Next]_vars PROVE LInv'
  OBVIOUS
<1>1. CASE UNCHANGED <<likes, likesCount>>
  BY <1>1 DEF LInv, Likers
<1>2. ASSUME NEW e \in Events, LikeCommand(e), ChangeLike(e) PROVE LInv'
  <2> PICK v \in Videos : v = body[e].video
    BY <1>2 DEF LikeCommand, Known, Command
  <2>1. TypeOK /\ Cardinality(Likers(v)) \in Nat /\ likesCount[v] = Cardinality(Likers(v))
    BY LikersFinite DEF TInv, LInv
  <2>2. likesCount'[v] =
          Greatest0(likesCount[v] + (IF body[e].action = "like" THEN 1 ELSE -1))
    BY <1>2, <2>1 DEF ChangeLike, TypeOK
  <2>3. likesCount'[v] = Cardinality(Likers(v)')
    BY <1>2, <2>1, <2>2, OneLiker DEF Greatest0, LikeCommand
  <2>4. \A w \in Videos \ {v} :
           Likers(w)' = Likers(w) /\ likesCount'[w] = likesCount[w]
    BY <1>2, <2>1, OneLiker
  <2>5. \A w \in Videos : likesCount'[w] = Cardinality(Likers(w)')
    BY <2>3, <2>4 DEF LInv
  <2> QED
    BY <2>5 DEF LInv
<1>3. ASSUME NEW e \in Events, FirstUse(e), ~ChangeLike(e)
      PROVE  UNCHANGED <<likes, likesCount>>
  BY <1>3 DEF FirstUse, IgnoreLike, CreateComment, IgnoreComment, RemoveComment
<1> QED
  BY <1>1, <1>2, <1>3, RowsChangeAtFirstUse DEF SameRows, FirstUse, CreateComment,
     IgnoreComment, RemoveComment, IgnoreLike

\* likes_count is the number of likes rows of the video, for any number of
\* users, commands, copies, retries and crashes: GREATEST never has to clip it.
THEOREM LikesAreCounted == Spec => []LikesCounted
<1>1. Init => LInv
  <2> SUFFICES ASSUME Init, NEW v \in Videos PROVE likesCount[v] = Cardinality(Likers(v))
    BY DEF LInv
  <2>1. Likers(v) = {} /\ likesCount[v] = 0
    BY DEF Init, Likers
  <2> QED
    BY <2>1, FS_EmptySet
<1>2. LInv /\ TInv => LikesCounted
  BY DEF LInv, LikesCounted, TInv, TypeOK
<1> QED
  BY <1>1, <1>2, StepLInv, AlwaysTInv, PTL DEF Spec

-----------------------------------------------------------------------------
(***************************************************************************)
(* Nothing is lost.                                                        *)
(***************************************************************************)
\* The message has done its work.
Settled(m) == IF m.queue = HeatQueue THEN m.ev \in seen ELSE m.ev \in consumed

\* The broker has it, or had it and gave it up.
Stored(m) == \/ copies[m] > 0
             \/ \E w \in Workers : hand[w].msg = m
             \/ m \in dead

\* Some transaction has promised its work.
Owed(m) == IF m.queue = HeatQueue
           THEN change[m.ev] # 0
           ELSE Accepted(m.ev) /\ m.queue = QueueOf(body[m.ev].action)

(***************************************************************************)
(* NothingLost is not inductive: why may a row be deleted, and a delivery  *)
(* acknowledged?  A poller whose publish was confirmed knows the broker    *)
(* has the message or its work is done, and a consumer about to            *)
(* acknowledge knows the work is done.                                     *)
(***************************************************************************)
OwedIsKept == \A m \in Message : Owed(m) /\ ~Settled(m) => m \in outbox \/ Stored(m)
SentIsKept == \A p \in Pollers : sent[p] => /\ claim[p] # None
                                            /\ Stored(claim[p]) \/ Settled(claim[p])
DoneIsDone == \A w \in Workers : hand[w].done => hand[w].msg # None /\ Settled(hand[w].msg)

NInv == OwedIsKept /\ SentIsKept /\ DoneIsDone

LEMMA InitNInv == Init => NInv
<1> SUFFICES ASSUME Init PROVE NInv
  OBVIOUS
<1>1. OwedIsKept
  BY DEF Init, OwedIsKept, Owed, Accepted, Message
<1>2. SentIsKept /\ DoneIsDone
  BY DEF Init, SentIsKept, DoneIsDone, Idle
<1> QED
  BY <1>1, <1>2 DEF NInv

-----------------------------------------------------------------------------
\* Inbox rows and markers are never removed.
LEMMA SettledStays ==
    ASSUME [Next]_vars
    PROVE  consumed \subseteq consumed' /\ seen \subseteq seen'
<1>1. ASSUME NEW m, Effect(m) PROVE consumed \subseteq consumed' /\ seen \subseteq seen'
  BY <1>1 DEF Effect, ApplyLikeEvent, ApplyCommentEvent, ApplyPopularity, Replay, ChangeLike,
     IgnoreLike, CreateComment, IgnoreComment, RemoveComment, consumeEvent, SkipHeat, AddHeat,
     database, cache
<1> QED
  BY <1>1 DEF Next, Step, Fault, Request, Like, Unlike, PublishComment, DeleteComment, Check,
     Enqueue, DeleteVideo, Poller, Claim, Publish, DeleteRow, Rollback, Consumer, Deliver,
     Process, Fail, Uncertain, Ack, Requeue, vars, database, cache

\* A handler that commits has done the work of its message.
LEMMA EffectSettles ==
    ASSUME NEW m \in Message, Effect(m)
    PROVE  Settled(m)'
<1>1. m.queue = HeatQueue => m.ev \in seen'
  BY DEF Effect, ApplyPopularity, SkipHeat, AddHeat, cache, LikeQueue, CommentQueue, HeatQueue
<1>2. m.queue # HeatQueue => m.ev \in consumed'
  BY DEF Effect, ApplyLikeEvent, ApplyCommentEvent, Replay, ChangeLike, IgnoreLike,
     CreateComment, IgnoreComment, RemoveComment, consumeEvent, database
<1> QED
  BY <1>1, <1>2 DEF Settled

\* A stored message stays stored until its work is done.
LEMMA StoredStays ==
    ASSUME TInv, DoneIsDone, [Next]_vars, NEW m \in Message, Stored(m)
    PROVE  Stored(m)' \/ Settled(m)'
<1> USE DEF Stored
<1>0. /\ TypeOK /\ None \notin Message /\ hand \in [Workers -> [msg : Message \cup {None},
                             failures : 0..MaxRetries, done : BOOLEAN]]
      /\ copies \in [Message -> Nat]
  BY ConstantsAssumption DEF TInv, TypeOK
<1>1. CASE UNCHANGED broker
  BY <1>1 DEF broker
<1>2. ASSUME NEW p \in Pollers, Publish(p) PROVE Stored(m)'
  BY <1>2, <1>0, ConstantsAssumption DEF Publish
<1>3. ASSUME NEW w \in Workers, NEW n \in Message, Deliver(w, n) PROVE Stored(m)'
  <2>1. hand' = [hand EXCEPT ![w] = [hand[w] EXCEPT !.msg = n]] /\ hand[w].msg = None /\ dead' = dead
    BY <1>3, <1>0 DEF Deliver
  <2>2. CASE n = m
    BY <2>1, <2>2, <1>0
  <2>3. CASE n # m
    BY <2>1, <2>3, <1>0, <1>3 DEF Deliver
  <2> QED
    BY <2>2, <2>3
<1>4. ASSUME NEW w \in Workers, Ack(w) PROVE Stored(m)' \/ Settled(m)'
  <2>1. CASE hand[w].msg = m
    BY <2>1, <1>4, SettledStays DEF Ack, DoneIsDone, Settled, database, cache
  <2>2. CASE hand[w].msg # m
    BY <2>2, <1>4, <1>0 DEF Ack
  <2> QED
    BY <2>1, <2>2
<1>5. ASSUME NEW w \in Workers, Requeue(w) PROVE Stored(m)'
  <2>1. CASE hand[w].msg = m
    BY <2>1, <1>5, <1>0 DEF Requeue
  <2>2. CASE hand[w].msg # m
    BY <2>2, <1>5, <1>0 DEF Requeue
  <2> QED
    BY <2>1, <2>2
<1>6. ASSUME NEW w \in Workers, Process(w) PROVE Stored(m)'
  BY <1>6, <1>0 DEF Process
<1>7. ASSUME NEW w \in Workers, Busy(w), CountFailure(w), copies' = copies PROVE Stored(m)'
  <2>1. CASE hand[w].msg = m
    BY <2>1, <1>7, <1>0 DEF CountFailure, Busy
  <2>2. CASE hand[w].msg # m
    BY <2>2, <1>7, <1>0 DEF CountFailure
  <2> QED
    BY <2>1, <2>2
<1> QED
  BY <1>1, <1>2, <1>3, <1>4, <1>5, <1>6, <1>7
     DEF Next, Step, Fault, Request, Like, Unlike, PublishComment, DeleteComment, Check,
         Enqueue, DeleteVideo, Poller, Claim, DeleteRow, Rollback, Consumer, Fail,
         Uncertain, vars

\* Work is promised together with the row that carries it.
LEMMA OwedIsWritten ==
    ASSUME TInv, [Next]_vars, NEW m \in Message, Owed(m)'
    PROVE  Owed(m) \/ m \in outbox'
<1>0. m.ev \in Events /\ m.queue \in Queues /\ m = [queue |-> m.queue, ev |-> m.ev]
  BY DEF Message
<1>00. change \in [Events -> {-1, 0, 1}] /\ body \in [Events -> Command \cup {None}]
  BY DEF TInv, TypeOK
<1>1. ASSUME NEW n \in Message, Effect(n), UNCHANGED requests PROVE Owed(m) \/ m \in outbox'
  <2>1. CASE m.queue # HeatQueue
    BY <2>1, <1>1 DEF Owed, Accepted, requests
  <2>2. CASE m.queue = HeatQueue
    <3>1. change'[m.ev] # 0
      BY <2>2 DEF Owed
    <3>2. CASE change' = change
      BY <3>1, <3>2, <2>2 DEF Owed
    <3>3. ASSUME NEW d, enqueuePopularity(n.ev, d) PROVE Owed(m) \/ m \in outbox'
      <4>1. CASE m.ev = n.ev
        BY <4>1, <3>3, <2>2, <1>0 DEF enqueuePopularity, HeatMsg
      <4>2. CASE m.ev # n.ev
        <5>1. change'[m.ev] = change[m.ev]
          BY <4>2, <3>3, <1>0, <1>00 DEF enqueuePopularity
        <5> QED
          BY <5>1, <3>1, <2>2 DEF Owed
      <4> QED
        BY <4>1, <4>2
    <3> QED
      BY <1>1, <3>2, <3>3 DEF Effect, ApplyLikeEvent, ApplyCommentEvent, Replay, ChangeLike,
         IgnoreLike, CreateComment, IgnoreComment, RemoveComment, database
  <2> QED
    BY <2>1, <2>2
<1>2. ASSUME NEW e \in Events, NEW c, Check(e, c) PROVE Owed(m)
  <2>1. change' = change
    BY <1>2 DEF Check, database
  <2>2. m.ev # e \/ m.queue = HeatQueue
    BY <1>2 DEF Check, Owed, Accepted
  <2> QED
    BY <1>2, <2>1, <2>2, <1>0, <1>00 DEF Check, Owed, Accepted
<1>3. ASSUME NEW e \in Events, Enqueue(e) PROVE Owed(m) \/ m \in outbox'
  <2>1. CASE m = CommandMsg(e)
    BY <2>1, <1>3 DEF Enqueue
  <2>2. CASE m # CommandMsg(e) /\ m.queue = HeatQueue
    BY <2>2, <1>3 DEF Enqueue, Owed, database
  <2>3. CASE m # CommandMsg(e) /\ m.queue # HeatQueue
    <3>1. m.ev # e
      BY <2>3, <1>3, <1>0 DEF Enqueue, Owed, CommandMsg
    <3> QED
      BY <3>1, <2>3, <1>3, <1>0 DEF Enqueue, Owed, Accepted
  <2> QED
    BY <2>1, <2>2, <2>3
<1>4. CASE UNCHANGED <<body, checked, change>>
  BY <1>4 DEF Owed, Accepted
<1>5. ASSUME NEW w \in Workers, Process(w) \/ Uncertain(w)
      PROVE  hand[w].msg \in Message /\ Effect(hand[w].msg) /\ UNCHANGED requests
  BY <1>5 DEF Process, Uncertain, Busy, TInv, TypeOK
<1>6. ASSUME NEW e \in Events, NEW u \in Users, NEW v \in Videos,
             Like(e, u, v) \/ Unlike(e, u, v) \/ PublishComment(e, u, v)
      PROVE  Owed(m)
  BY <1>6, <1>2 DEF Like, Unlike, PublishComment
<1>7. ASSUME NEW e \in Events, NEW u \in Users, NEW c, DeleteComment(e, u, c)
      PROVE  Owed(m)
  BY <1>7, <1>2 DEF DeleteComment
<1>8. CASE \E w \in Workers : Process(w) \/ Uncertain(w)
  BY <1>1, <1>5, <1>8
<1>9. CASE Request
  BY <1>6, <1>7, <1>9 DEF Request
<1> QED
  BY <1>3, <1>4, <1>8, <1>9
     DEF Next, Step, Fault, DeleteVideo, Poller, Claim, Publish, DeleteRow, Rollback,
         Consumer, Deliver, Fail, Ack, Requeue, vars, requests, database

LEMMA StepSentIsKept == TInv /\ NInv /\ [Next]_vars => SentIsKept'
<1> SUFFICES ASSUME TInv, NInv, [Next]_vars, NEW p \in Pollers, sent'[p]
             PROVE  (claim[p] # None /\ (Stored(claim[p]) \/ Settled(claim[p])))'
  BY DEF SentIsKept
<1>0. /\ claim \in [Pollers -> Message \cup {None}] /\ sent \in [Pollers -> BOOLEAN]
      /\ copies \in [Message -> Nat]
  BY DEF TInv, TypeOK
<1>1. ASSUME sent[p], claim'[p] = claim[p]
      PROVE  (claim[p] # None /\ (Stored(claim[p]) \/ Settled(claim[p])))'
  <2>1. PICK m \in Message : m = claim[p] /\ (Stored(m) \/ Settled(m))
    BY <1>1, <1>0 DEF NInv, SentIsKept
  <2>2. (Stored(m) \/ Settled(m))'
    BY <2>1, StoredStays, SettledStays DEF NInv, Settled
  <2> QED
    BY <2>1, <2>2, <1>1, ConstantsAssumption DEF Stored, Settled
<1>2. ASSUME Publish(p)
      PROVE  (claim[p] # None /\ (Stored(claim[p]) \/ Settled(claim[p])))'
  <2>1. claim[p] \in Message /\ claim' = claim
    BY <1>2, <1>0 DEF Publish
  <2>2. copies'[claim[p]] > 0
    BY <1>2, <2>1, <1>0, ConstantsAssumption DEF Publish
  <2> QED
    BY <2>1, <2>2, <1>2 DEF Stored, Publish
<1>3. CASE UNCHANGED relay
  BY <1>3, <1>1 DEF relay
<1>4. ASSUME NEW q \in Pollers, NEW m \in Message, Claim(q, m)
      PROVE  sent[p] /\ claim'[p] = claim[p]
  <2>1. sent[p]
    BY <1>4 DEF Claim
  <2>2. claim[p] # None
    BY <2>1 DEF NInv, SentIsKept
  <2> QED
    BY <2>1, <2>2, <1>4, <1>0 DEF Claim
<1>5. ASSUME NEW q \in Pollers, Publish(q), q # p PROVE sent[p] /\ claim'[p] = claim[p]
  BY <1>5, <1>0 DEF Publish
<1>6. ASSUME NEW q \in Pollers, DeleteRow(q) \/ Rollback(q) PROVE sent[p] /\ claim'[p] = claim[p]
  BY <1>6, <1>0 DEF DeleteRow, Rollback
<1> QED
  BY <1>1, <1>2, <1>3, <1>4, <1>5, <1>6
     DEF Next, Step, Fault, Request, Like, Unlike, PublishComment, DeleteComment, Check,
         Enqueue, DeleteVideo, Poller, Consumer, Deliver, Process, Fail, Uncertain, Ack,
         Requeue, vars

LEMMA StepDoneIsDone == TInv /\ NInv /\ [Next]_vars => DoneIsDone'
<1> SUFFICES ASSUME TInv, NInv, [Next]_vars, NEW x \in Workers, hand'[x].done
             PROVE  (hand[x].msg # None /\ Settled(hand[x].msg))'
  BY DEF DoneIsDone
<1>0. hand \in [Workers -> [msg : Message \cup {None}, failures : 0..MaxRetries, done : BOOLEAN]]
  BY DEF TInv, TypeOK
<1>1. ASSUME hand'[x] = hand[x]
      PROVE  (hand[x].msg # None /\ Settled(hand[x].msg))'
  BY <1>1, SettledStays DEF NInv, DoneIsDone, Settled
<1>2. ASSUME Process(x)
      PROVE  (hand[x].msg # None /\ Settled(hand[x].msg))'
  <2>1. hand[x].msg \in Message /\ hand'[x].msg = hand[x].msg
    BY <1>2, <1>0 DEF Process, Busy
  <2> QED
    BY <1>2, <2>1, EffectSettles, ConstantsAssumption DEF Process
<1>3. ASSUME NEW w \in Workers, NEW m \in Message, Deliver(w, m) PROVE hand'[x] = hand[x]
  BY <1>3, <1>0 DEF Deliver, NInv, DoneIsDone
<1>4. ASSUME NEW w \in Workers, Busy(w), CountFailure(w) PROVE hand'[x] = hand[x]
  BY <1>4, <1>0 DEF CountFailure, Busy, Idle
<1>5. ASSUME NEW w \in Workers, Ack(w) \/ Requeue(w) PROVE hand'[x] = hand[x]
  BY <1>5, <1>0 DEF Ack, Requeue, Idle
<1>6. ASSUME NEW w \in Workers, Process(w), w # x PROVE hand'[x] = hand[x]
  BY <1>6, <1>0 DEF Process
<1>7. CASE UNCHANGED hand
  BY <1>1, <1>7
<1> QED
  BY <1>1, <1>2, <1>3, <1>4, <1>5, <1>6, <1>7
     DEF Next, Step, Fault, Request, Like, Unlike, PublishComment, DeleteComment, Check,
         Enqueue, DeleteVideo, Poller, Claim, Publish, DeleteRow, Rollback, Consumer,
         Fail, Uncertain, vars, broker

LEMMA StepOwedIsKept == TInv /\ NInv /\ [Next]_vars => OwedIsKept'
<1> SUFFICES ASSUME TInv, NInv, [Next]_vars, NEW m \in Message, Owed(m)', ~Settled(m)'
             PROVE  m \in outbox' \/ Stored(m)'
  BY DEF OwedIsKept
<1>1. CASE m \in outbox
  <2>1. ASSUME NEW p \in Pollers, DeleteRow(p), m = claim[p] PROVE Stored(m)'
    <3>1. Stored(m) \/ Settled(m)
      BY <2>1 DEF DeleteRow, NInv, SentIsKept
    <3> QED
      BY <3>1, StoredStays, SettledStays DEF NInv, Settled
  <2>2. ASSUME NEW p \in Pollers, DeleteRow(p), m # claim[p] PROVE m \in outbox'
    BY <2>2, <1>1 DEF DeleteRow
  <2>3. ASSUME NEW n, Effect(n) PROVE m \in outbox'
    BY <2>3, <1>1 DEF Effect, ApplyLikeEvent, ApplyCommentEvent, Replay, ChangeLike, IgnoreLike,
       CreateComment, IgnoreComment, RemoveComment, enqueuePopularity
  <2>4. CASE outbox \subseteq outbox'
    BY <2>4, <1>1
  <2> QED
    BY <2>1, <2>2, <2>3, <2>4
       DEF Next, Step, Fault, Request, Like, Unlike, PublishComment, DeleteComment, Check,
           Enqueue, DeleteVideo, Poller, Claim, Publish, Rollback, Consumer, Deliver,
           Process, Fail, Uncertain, Ack, Requeue, vars
<1>2. CASE Stored(m)
  BY <1>2, StoredStays DEF NInv
<1>3. Owed(m) \/ m \in outbox'
  BY OwedIsWritten
<1>4. CASE Owed(m)
  <2>1. ~Settled(m)
    BY SettledStays DEF Settled
  <2> QED
    BY <2>1, <1>4, <1>1, <1>2 DEF NInv, OwedIsKept
<1> QED
  BY <1>3, <1>4

\* A command the API accepted, and the heat event of every change, is in the
\* outbox, with the broker, with a consumer or in the dead-letter queue until it
\* has taken effect: through any number of rollbacks, lost confirms, crashes and
\* redeliveries.
THEOREM NothingIsLost == Spec => []NothingLost
<1>1. Init => NInv
  BY InitNInv
<1>2. TInv /\ NInv /\ [Next]_vars => NInv'
  BY StepOwedIsKept, StepSentIsKept, StepDoneIsDone DEF NInv
<1>3. TInv /\ NInv => NothingLost
  <2> SUFFICES ASSUME TInv, NInv, NEW e \in Events
               PROVE  /\ Accepted(e) /\ e \notin consumed => Somewhere(CommandMsg(e))
                      /\ change[e] # 0 /\ e \notin seen => Somewhere(HeatMsg(e))
    BY DEF NothingLost
  <2>1. ASSUME Accepted(e), e \notin consumed PROVE Somewhere(CommandMsg(e))
    <3>1. body[e] \in Command
      BY <2>1 DEF TInv, TypeOK, Accepted
    <3>2. CommandMsg(e) \in Message /\ Owed(CommandMsg(e)) /\ ~Settled(CommandMsg(e))
      BY <2>1, <3>1 DEF CommandMsg, QueueOf, Owed, Settled, Message, Queues, LikeQueue,
         CommentQueue, HeatQueue
    <3> QED
      BY <3>2 DEF NInv, OwedIsKept, Somewhere, Stored
  <2>2. ASSUME change[e] # 0, e \notin seen PROVE Somewhere(HeatMsg(e))
    <3>1. HeatMsg(e) \in Message /\ Owed(HeatMsg(e)) /\ ~Settled(HeatMsg(e))
      BY <2>2, MessageForm DEF HeatMsg, Owed, Settled
    <3> QED
      BY <3>1 DEF NInv, OwedIsKept, Somewhere, Stored
  <2> QED
    BY <2>1, <2>2
<1> QED
  BY <1>1, <1>2, <1>3, AlwaysTInv, PTL DEF Spec

-----------------------------------------------------------------------------
(***************************************************************************)
(* The counters are explained by the rows and events, and Interaction      *)
(* implements ExactlyOnce.                                                 *)
(***************************************************************************)
\* Somewhere between the outbox and its consumer, or given up.
InSystem(m) == \/ m \in outbox \cup dead
               \/ \E p \in Pollers : claim[p] = m
               \/ copies[m] > 0
               \/ \E w \in Workers : hand[w].msg = m

\* The command of a message has been accepted; a heat message tells of a change.
Real(m) == m.ev \notin checked /\ (m.queue = HeatQueue => change[m.ev] # 0)

MessagesReal == \A m \in Message : InSystem(m) => Real(m)

\* What is known of an event that has taken effect, and of one that has not.
EventsOK ==
    /\ \A e \in consumed : Known(e) /\ e \notin checked
    /\ \A e \in Events : change[e] # 0 => e \in consumed
    /\ \A e \in seen : change[e] # 0
    /\ IsFiniteSet(consumed)

\* A comment of a video that is still there has its point.
CommentsHavePoints ==
    \A e \in consumed :
        body[e].action = "publish" /\ body[e].video \in videos => change[e] = 1

\* A deletion names a comment that exists or has existed.
CommentIds ==
    /\ \A c \in comments : c.id <= lastComment
    /\ \A e \in Events : Known(e) => body[e].comment <= lastComment

\* The publications of comments of v that counted.
Points(v) == {e \in consumed : /\ body[e].action = "publish"
                               /\ body[e].video = v
                               /\ change[e] = 1}

(***************************************************************************)
(* The two equations, for deleted videos too: a counter of a video that is *)
(* gone is not changed any more, its heat is.                              *)
(***************************************************************************)
PInv == \A v \in Videos : popularity[v] = likesCount[v] + Cardinality(Points(v))

HInv == \A v \in Videos :
           popularity[v] = heat[v] + Cardinality(Uncounted(v, 1)) - Cardinality(Uncounted(v, -1))

EInv == MessagesReal /\ EventsOK /\ CommentsHavePoints /\ CommentIds

XInv == TInv /\ LInv /\ EInv /\ PInv /\ HInv

-----------------------------------------------------------------------------
LEMMA NoPointsNoHeat ==
    ASSUME Init PROVE EInv /\ LInv /\ PInv /\ HInv
<1> USE DEF Init
<1>1. EventsOK /\ CommentsHavePoints
  BY FS_EmptySet DEF EventsOK, CommentsHavePoints
<1>2. CommentIds
  BY ConstantsAssumption DEF CommentIds, Known
<1>3. MessagesReal
  BY ConstantsAssumption DEF MessagesReal, InSystem, Idle
<1>4. ASSUME NEW v \in Videos
      PROVE  /\ Likers(v) = {} /\ Points(v) = {}
             /\ Uncounted(v, 1) = {} /\ Uncounted(v, -1) = {}
  BY DEF Likers, Points, Uncounted
<1>5. Cardinality({}) = 0
  BY FS_EmptySet
<1>6. LInv
  BY <1>4, <1>5 DEF LInv
<1>7. PInv
  BY <1>4, <1>5 DEF PInv
<1>8. HInv
  BY <1>4, <1>5 DEF HInv
<1> QED
  BY <1>1, <1>2, <1>3, <1>6, <1>7, <1>8 DEF EInv

-----------------------------------------------------------------------------
\* The steps a client of the database and of Redis can see, and the rest.
LEMMA VisibleSteps ==
    ASSUME TInv, EInv, [Next]_vars
    PROVE  \/ \E e \in Events, c \in Command : Check(e, c) /\ c.comment <= lastComment
           \/ \E e \in Events : Enqueue(e)
           \/ \E v \in Videos : DeleteVideo(v)
           \/ \E e \in Events : /\ FirstUse(e) /\ e \notin checked
                                /\ UNCHANGED <<requests, videos, cache>>
           \/ \E e \in Events : /\ AddHeat(e) /\ change[e] # 0
                                /\ UNCHANGED <<requests, database>>
           \/ UNCHANGED <<requests, database, cache>>
<1>1. ASSUME Request
      PROVE  \E e \in Events, c \in Command : Check(e, c) /\ c.comment <= lastComment
  <2>0. lastComment \in Nat /\ comments \subseteq CommentRow
    BY DEF TInv, TypeOK
  <2> PICK e \in Events, u \in Users :
           \/ \E v \in Videos : \/ Like(e, u, v)
                                \/ Unlike(e, u, v)
                                \/ PublishComment(e, u, v)
           \/ \E c \in comments : DeleteComment(e, u, c)
    BY <1>1 DEF Request
  <2>1. ASSUME NEW v \in Videos, NEW a \in {"like", "unlike", "publish"},
               Check(e, [action |-> a, user |-> u, video |-> v, comment |-> 0])
        PROVE  \E c \in Command : Check(e, c) /\ c.comment <= lastComment
    <3>1. [action |-> a, user |-> u, video |-> v, comment |-> 0] \in Command
      BY DEF Command
    <3> QED
      BY <2>0, <2>1, <3>1
  <2>2. ASSUME NEW r \in comments, DeleteComment(e, u, r)
        PROVE  \E c \in Command : Check(e, c) /\ c.comment <= lastComment
    <3>1. r.id \in Nat /\ r.video \in Videos /\ r.id <= lastComment
      BY <2>0, <2>2 DEF CommentRow, EInv, CommentIds
    <3>2. [action |-> "delete", user |-> u, video |-> r.video, comment |-> r.id] \in Command
      BY <3>1 DEF Command
    <3> QED
      BY <2>2, <3>1, <3>2 DEF DeleteComment
  <2> QED
    BY <2>1, <2>2 DEF Like, Unlike, PublishComment
<1>2. ASSUME NEW w \in Workers, Busy(w), Effect(hand[w].msg), UNCHANGED requests
      PROVE  \/ \E e \in Events : /\ FirstUse(e) /\ e \notin checked
                                  /\ UNCHANGED <<requests, videos, cache>>
             \/ \E e \in Events : /\ AddHeat(e) /\ change[e] # 0
                                  /\ UNCHANGED <<requests, database>>
             \/ UNCHANGED <<requests, database, cache>>
  <2> PICK m \in Message : m = hand[w].msg
    BY <1>2 DEF Busy, TInv, TypeOK
  <2>1. m \in Message /\ Fits(m) /\ m.ev \in Events /\ Real(m)
    BY <1>2, MessageForm DEF Busy, TInv, TypeOK, MessagesKnown, EInv, MessagesReal, InSystem
  <2>2. CASE m.queue = LikeQueue /\ ApplyLikeEvent(m.ev) /\ UNCHANGED cache
    <3>1. LikeCommand(m.ev)
      BY <2>1, <2>2 DEF Fits, LikeCommand, Known, Command, QueueOf, LikeQueue,
         CommentQueue, HeatQueue
    <3> QED
      BY <1>2, <2>1, <2>2, <3>1
         DEF FirstUse, ApplyLikeEvent, Replay, Real, ChangeLike, IgnoreLike
  <2>3. CASE m.queue = CommentQueue /\ ApplyCommentEvent(m.ev) /\ UNCHANGED cache
    <3>1. CommentCommand(m.ev)
      BY <2>1, <2>3 DEF Fits, CommentCommand, Known, Command, QueueOf, LikeQueue,
         CommentQueue, HeatQueue
    <3> QED
      BY <1>2, <2>1, <2>3, <3>1
         DEF FirstUse, ApplyCommentEvent, Replay, Real, CreateComment, IgnoreComment,
             RemoveComment
  <2>4. CASE m.queue = HeatQueue /\ ApplyPopularity(m.ev) /\ UNCHANGED <<outbox, database>>
    BY <1>2, <2>1, <2>4 DEF ApplyPopularity, SkipHeat, Real
  <2> QED
    BY <1>2, <2>2, <2>3, <2>4 DEF Effect
<1>3. ASSUME NEW w \in Workers, Process(w) \/ Uncertain(w)
      PROVE  Busy(w) /\ Effect(hand[w].msg) /\ UNCHANGED requests
  BY <1>3 DEF Process, Uncertain
<1>4. CASE UNCHANGED vars
  BY <1>4 DEF vars
<1> QED
  BY <1>1, <1>2, <1>3, <1>4
     DEF Next, Step, Fault, Poller, Consumer, Claim, Publish, DeleteRow,
         Rollback, Deliver, Fail, Ack, Requeue

\* Messages come from Enqueue, and from a consumer that changed a counter.
LEMMA NewMessages ==
    ASSUME TInv, [Next]_vars, NEW m \in Message, InSystem(m)'
    PROVE  \/ InSystem(m)
           \/ \E e \in Events : Enqueue(e) /\ m = CommandMsg(e)
           \/ m.queue = HeatQueue /\ change'[m.ev] # 0
<1> USE DEF InSystem
<1>0. /\ TypeOK /\ None \notin Message
      /\ hand \in [Workers -> [msg : Message \cup {None},
                              failures : 0..MaxRetries, done : BOOLEAN]]
      /\ copies \in [Message -> Nat]
  BY ConstantsAssumption DEF TInv, TypeOK
<1>1. CASE Request \/ UNCHANGED vars \/ \E v \in Videos : DeleteVideo(v)
  BY <1>1 DEF Request, Like, Unlike, PublishComment, DeleteComment, Check, DeleteVideo,
     vars, broker, relay
<1>2. ASSUME NEW e \in Events, Enqueue(e) PROVE InSystem(m) \/ m = CommandMsg(e)
  BY <1>2 DEF Enqueue, broker, relay
<1>3. ASSUME NEW p \in Pollers, Poller(p) \/ Rollback(p) PROVE InSystem(m)
  <2>1. ASSUME NEW n \in Message, Claim(p, n) PROVE InSystem(m)
    <3>1. \A q \in Pollers : claim'[q] = n \/ claim'[q] = claim[q]
      BY <1>0, <2>1 DEF Claim, TypeOK
    <3> QED
      BY <2>1, <3>1 DEF Claim, broker
  <2>2. CASE Publish(p)
    BY <1>0, <2>2 DEF Publish, TypeOK
  <2>3. CASE DeleteRow(p) \/ Rollback(p)
    <3>1. \A q \in Pollers : claim'[q] = None \/ claim'[q] = claim[q]
      BY <1>0, <2>3 DEF DeleteRow, Rollback, TypeOK
    <3> QED
      BY <1>0, <2>3, <3>1 DEF DeleteRow, Rollback, broker
  <2> QED
    BY <1>3, <2>1, <2>2, <2>3 DEF Poller
<1>4. ASSUME NEW w \in Workers, NEW n \in Message, Deliver(w, n) PROVE InSystem(m)
  <2>1. \A x \in Workers : hand'[x].msg = n \/ hand'[x].msg = hand[x].msg
    BY <1>0, <1>4 DEF Deliver
  <2>2. copies'[m] > 0 => copies[m] > 0
    BY <1>0, <1>4 DEF Deliver
  <2> QED
    BY <1>4, <2>1, <2>2 DEF Deliver, relay
\* A delivery that fails stays in hand or is given up.
<1>5. ASSUME NEW w \in Workers, CountFailure(w), hand[w].msg # None
      PROVE  /\ \A x \in Workers : hand'[x].msg = None \/ hand'[x].msg = hand[x].msg
             /\ dead' \subseteq dead \cup {hand[w].msg}
  BY <1>0, <1>5 DEF CountFailure, Idle
<1>6. ASSUME NEW w \in Workers, Fail(w) PROVE InSystem(m)
  BY <1>0, <1>5, <1>6 DEF Fail, Busy, relay
<1>7. ASSUME NEW w \in Workers, Process(w) \/ Uncertain(w)
      PROVE  InSystem(m) \/ (m.queue = HeatQueue /\ change'[m.ev] # 0)
  <2>1. Busy(w) /\ Effect(hand[w].msg) /\ UNCHANGED <<requests, relay, copies>>
    BY <1>7 DEF Process, Uncertain
  <2> PICK n \in Message : n = hand[w].msg
    BY <1>0, <2>1 DEF Busy
  <2>2. n.ev \in Events /\ HeatMsg(n.ev).queue = HeatQueue /\ HeatMsg(n.ev).ev = n.ev
    BY MessageForm DEF HeatMsg
  <2>3. ASSUME NEW delta \in {-1, 1}, enqueuePopularity(n.ev, delta)
        PROVE  outbox' \subseteq outbox \cup {HeatMsg(n.ev)} /\ change'[n.ev] # 0
    BY <1>0, <2>2, <2>3 DEF enqueuePopularity, TypeOK
  <2>4. \/ UNCHANGED outbox
        \/ outbox' \subseteq outbox \cup {HeatMsg(n.ev)} /\ change'[n.ev] # 0
    BY <2>1, <2>3 DEF Effect, ApplyLikeEvent, ApplyCommentEvent, ApplyPopularity, Replay,
       ChangeLike, IgnoreLike, CreateComment, IgnoreComment, RemoveComment
  <2>5. CASE Process(w)
    <3>1. \A x \in Workers : hand'[x].msg = hand[x].msg
      BY <1>0, <2>5 DEF Process
    <3> QED
      BY <2>1, <2>2, <2>4, <2>5, <3>1 DEF Process, relay
  <2>6. CASE Uncertain(w)
    <3>1. /\ \A x \in Workers : hand'[x].msg = None \/ hand'[x].msg = hand[x].msg
          /\ dead' \subseteq dead \cup {hand[w].msg}
      BY <1>5, <2>6 DEF Uncertain, Busy
    <3> QED
      BY <1>0, <2>1, <2>2, <2>4, <3>1 DEF relay
  <2> QED
    BY <1>7, <2>5, <2>6
<1>8. ASSUME NEW w \in Workers, Ack(w) \/ Requeue(w) PROVE InSystem(m)
  <2>1. \A x \in Workers : hand'[x].msg = None \/ hand'[x].msg = hand[x].msg
    BY <1>0, <1>8 DEF Ack, Requeue, Idle
  <2>2. copies'[m] > 0 => copies[m] > 0 \/ hand[w].msg = m
    BY <1>0, <1>8 DEF Ack, Requeue
  <2> QED
    BY <1>0, <1>8, <2>1, <2>2 DEF Ack, Requeue, relay
<1> QED
  BY <1>1, <1>2, <1>3, <1>4, <1>6, <1>7, <1>8 DEF Next, Step, Fault, Consumer

-----------------------------------------------------------------------------
\* What a first consumption does to the counters of its video: they move by the
\* change it records.
Moves(e, delta) ==
    /\ e \notin consumed /\ consumed' = consumed \cup {e}
    /\ change[e] = 0 /\ change' = [change EXCEPT ![e] = delta]
    /\ popularity' = [popularity EXCEPT ![body[e].video] = @ + delta]
    /\ body[e].action = "publish" =>
          /\ UNCHANGED likesCount
          /\ delta = IF body[e].video \in videos THEN 1 ELSE 0
    /\ body[e].action # "publish" =>
          likesCount' = [likesCount EXCEPT ![body[e].video] = @ + delta]

LEMMA FirstUseMoves ==
    ASSUME XInv, NEW e \in Events, FirstUse(e)
    PROVE  \E delta \in {-1, 0, 1} : Moves(e, delta)
<1> PICK v \in Videos : v = body[e].video
  BY DEF FirstUse, LikeCommand, CommentCommand, Known, Command
<1>1. /\ TypeOK /\ likesCount[v] \in Nat /\ popularity[v] \in Nat
      /\ likesCount = [likesCount EXCEPT ![v] = @ + 0]
      /\ popularity = [popularity EXCEPT ![v] = @ + 0]
  BY DEF XInv, TInv, TypeOK
<1>2. /\ e \notin consumed /\ consumed' = consumed \cup {e}
  BY DEF FirstUse, ChangeLike, IgnoreLike, CreateComment, IgnoreComment, RemoveComment,
     consumeEvent
<1>3. change[e] = 0 /\ change = [change EXCEPT ![e] = 0]
  BY <1>1, <1>2 DEF XInv, EInv, EventsOK, TypeOK
\* A like that is taken back was counted: GREATEST has nothing to clip.
<1>4. CASE LikeCommand(e) /\ ChangeLike(e)
  <2> DEFINE delta == IF body[e].action = "like" THEN 1 ELSE -1
  <2>1. IsFiniteSet(Points(v)) /\ Cardinality(Points(v)) \in Nat
    BY FS_Subset, FS_CardinalityType DEF XInv, EInv, EventsOK, Points
  <2>2. popularity[v] >= likesCount[v] /\ likesCount[v] = Cardinality(Likers(v))
    BY <1>1, <2>1 DEF XInv, PInv, LInv
  <2>3. body[e].action # "like" => likesCount[v] > 0
    BY <1>1, <1>4, <2>2, OneLiker DEF LikeCommand
  <2>4. /\ Greatest0(likesCount[v] + delta) = likesCount[v] + delta
        /\ Greatest0(popularity[v] + delta) = popularity[v] + delta
    BY <1>1, <2>2, <2>3 DEF Greatest0
  <2>5. /\ likesCount' = [likesCount EXCEPT ![v] = Greatest0(@ + delta)]
        /\ popularity' = [popularity EXCEPT ![v] = Greatest0(@ + delta)]
    BY <1>4 DEF ChangeLike
  <2>6. /\ likesCount' = [likesCount EXCEPT ![v] = @ + delta]
        /\ popularity' = [popularity EXCEPT ![v] = @ + delta]
    BY <2>4, <2>5, Zenon
  <2>7. Moves(e, delta) /\ delta \in {-1, 0, 1}
    BY <1>2, <1>3, <1>4, <2>6 DEF LikeCommand, ChangeLike, Moves, enqueuePopularity
  <2> QED
    BY <2>7
<1>5. CASE LikeCommand(e) /\ IgnoreLike(e)
  <2>1. Moves(e, 0)
    BY <1>1, <1>2, <1>3, <1>5 DEF LikeCommand, IgnoreLike, Moves
  <2> QED
    BY <2>1
<1>6. CASE CreateComment(e)
  <2>1. Moves(e, 1)
    BY <1>2, <1>3, <1>6 DEF CreateComment, Moves, enqueuePopularity
  <2> QED
    BY <2>1
<1>7. CASE IgnoreComment(e) \/ RemoveComment(e)
  <2>1. Moves(e, 0)
    BY <1>1, <1>2, <1>3, <1>7 DEF IgnoreComment, RemoveComment, Moves
  <2> QED
    BY <2>1
<1> QED
  BY <1>4, <1>5, <1>6, <1>7 DEF FirstUse

\* An event that is accepted stays so, and a change that is recorded stays.
LEMMA EventsStay ==
    ASSUME XInv, [Next]_vars
    PROVE  /\ \A e \in Events \ checked : Known(e) => e \notin checked'
           /\ \A e \in Events : change[e] # 0 => change'[e] = change[e]
<1>0. TInv /\ EInv /\ TypeOK /\ None \notin Command
  BY ConstantsAssumption DEF XInv, TInv
<1>1. ASSUME NEW e \in Events, FirstUse(e)
      PROVE  \A f \in Events : change[f] # 0 => change'[f] = change[f]
  <2> PICK delta \in {-1, 0, 1} : Moves(e, delta)
    BY <1>1, FirstUseMoves
  <2> QED
    BY <1>0 DEF Moves, EInv, EventsOK, TypeOK
<1>2. ASSUME NEW e \in Events, NEW c \in Command, Check(e, c)
      PROVE  \A f \in Events \ checked : Known(f) => f \notin checked'
  BY <1>0, <1>2 DEF Check, Known
<1> QED
  BY <1>0, <1>1, <1>2, VisibleSteps
     DEF Check, Enqueue, DeleteVideo, requests, database, cache

\* The events stay what they are known to be.
LEMMA StepEInv == XInv /\ [Next]_vars => EInv'
<1> SUFFICES ASSUME XInv, [Next]_vars PROVE EInv'
  OBVIOUS
<1> TInv /\ EInv
  BY DEF XInv
<1>0. /\ TypeOK /\ TypeOK' /\ None \notin Command
      /\ \A e \in Events : Known(e) => Known(e)' /\ body'[e] = body[e]
  BY KnownStays, StepTInv, ConstantsAssumption DEF TInv
<1>1. EventsOK'
  <2>1. ASSUME NEW e \in Events, FirstUse(e), e \notin checked,
               UNCHANGED <<requests, videos, cache>>
        PROVE  EventsOK'
    <3> PICK delta \in {-1, 0, 1} : Moves(e, delta)
      BY <2>1, FirstUseMoves
    <3>1. Known(e)
      BY <2>1 DEF FirstUse, LikeCommand, CommentCommand
    <3>2. IsFiniteSet(consumed')
      BY FS_AddElement DEF Moves, EInv, EventsOK
    <3>3. \A f \in consumed' : Known(f)' /\ f \notin checked'
      <4>1. consumed' = consumed \cup {e} /\ checked' = checked /\ consumed \subseteq Events
        BY <1>0, <2>1 DEF Moves, requests, TypeOK
      <4> QED
        BY <1>0, <2>1, <3>1, <4>1 DEF EInv, EventsOK
    <3>4. \A f \in Events : change'[f] # 0 => f \in consumed'
      BY <1>0 DEF Moves, EInv, EventsOK, TypeOK
    <3>5. \A f \in seen' : change'[f] # 0
      BY <1>0, <2>1, EventsStay DEF EInv, EventsOK, TypeOK, cache
    <3> QED
      BY <3>2, <3>3, <3>4, <3>5 DEF EventsOK
  <2>2. ASSUME UNCHANGED <<change, consumed>>,
               \/ UNCHANGED seen
               \/ \E e \in Events : change[e] # 0 /\ seen' = seen \cup {e}
        PROVE  EventsOK'
    <3>1. \A f \in consumed' : Known(f)' /\ f \notin checked'
      BY <1>0, <2>2, EventsStay DEF EInv, EventsOK, TypeOK
    <3> QED
      BY <2>2, <3>1 DEF EInv, EventsOK
  <2> QED
    BY <2>1, <2>2, VisibleSteps
       DEF Check, Enqueue, DeleteVideo, AddHeat, database, cache
<1>2. MessagesReal'
  <2> SUFFICES ASSUME NEW m \in Message, InSystem(m)' PROVE Real(m)'
    BY DEF MessagesReal
  <2>1. m.ev \in Events
    BY MessageForm
  <2>2. CASE InSystem(m)
    <3>1. Known(m.ev) /\ Real(m)
      BY <2>2, ConstantsAssumption DEF EInv, MessagesReal, InSystem, TInv, MessagesKnown, Fits
    <3>2. m.ev \notin checked' /\ (change[m.ev] # 0 => change'[m.ev] = change[m.ev])
      BY <2>1, <3>1, EventsStay DEF Real
    <3> QED
      BY <3>1, <3>2 DEF Real
  <2>3. ASSUME NEW e \in Events, Enqueue(e), m = CommandMsg(e) PROVE Real(m)'
    BY <1>0, <2>3 DEF Enqueue, CommandMsg, QueueOf, Real, LikeQueue, CommentQueue, HeatQueue
  <2>4. CASE m.queue = HeatQueue /\ change'[m.ev] # 0
    BY <1>1, <2>1, <2>4 DEF Real, EventsOK
  <2> QED
    BY <2>2, <2>3, <2>4, NewMessages
<1>3. CommentsHavePoints'
  <2>1. ASSUME NEW e \in Events, FirstUse(e), UNCHANGED <<requests, videos, cache>>
        PROVE  CommentsHavePoints'
    <3> PICK delta \in {-1, 0, 1} : Moves(e, delta)
      BY <2>1, FirstUseMoves
    <3> QED
      BY <1>0, <2>1 DEF Moves, EInv, EventsOK, CommentsHavePoints, TypeOK, requests
  <2>2. ASSUME videos' \subseteq videos, UNCHANGED <<change, consumed>>
        PROVE  CommentsHavePoints'
    BY <1>0, <2>2 DEF EInv, EventsOK, CommentsHavePoints, TypeOK
  <2> QED
    BY <2>1, <2>2, VisibleSteps
       DEF Check, Enqueue, DeleteVideo, AddHeat, database, cache
<1>4. CommentIds'
  <2>0. lastComment \in Nat /\ lastComment' \in Nat /\ comments \subseteq CommentRow
    BY <1>0 DEF TypeOK
  <2>1. lastComment <= lastComment' /\ \A c \in comments' : c.id <= lastComment'
    <3>1. ASSUME NEW e \in Events, FirstUse(e)
          PROVE  lastComment <= lastComment' /\ \A c \in comments' : c.id <= lastComment'
      <4>1. CASE CreateComment(e)
        BY <2>0, <4>1 DEF CreateComment, EInv, CommentIds, CommentRow
      <4>2. CASE lastComment' = lastComment /\ comments' \subseteq comments
        BY <2>0, <4>2 DEF EInv, CommentIds
      <4> QED
        BY <3>1, <4>1, <4>2 DEF FirstUse, ChangeLike, IgnoreLike, IgnoreComment, RemoveComment
    <3>2. CASE UNCHANGED <<comments, lastComment>>
      BY <2>0, <3>2 DEF EInv, CommentIds
    <3> QED
      BY <3>1, <3>2, VisibleSteps DEF Check, Enqueue, DeleteVideo, AddHeat, database, cache
  <2>2. ASSUME NEW e \in Events, Known(e)' PROVE body'[e].comment <= lastComment'
    <3>0. body'[e].comment \in Nat
      BY <2>2 DEF Known, Command
    <3>1. CASE Known(e)
      BY <1>0, <2>0, <2>1, <3>0, <3>1 DEF EInv, CommentIds
    <3>2. ASSUME NEW f \in Events, NEW c \in Command, Check(f, c), c.comment <= lastComment,
                 ~Known(e)
          PROVE  body'[e].comment <= lastComment'
      BY <1>0, <2>0, <2>1, <2>2, <3>0, <3>2 DEF Check, Known, TypeOK
    <3>3. CASE UNCHANGED body
      BY <2>2, <3>1, <3>3 DEF Known
    <3> QED
      BY <3>1, <3>2, <3>3, VisibleSteps
         DEF Enqueue, DeleteVideo, requests
  <2> QED
    BY <2>1, <2>2 DEF CommentIds
<1> QED
  BY <1>1, <1>2, <1>3, <1>4 DEF EInv

-----------------------------------------------------------------------------
\* The sets the counters are explained by are finite: they are sets of events
\* that have taken effect.
LEMMA SetsFinite ==
    ASSUME XInv, NEW v
    PROVE  /\ IsFiniteSet(Points(v)) /\ Cardinality(Points(v)) \in Nat
           /\ \A d \in {-1, 1} : /\ IsFiniteSet(Uncounted(v, d))
                                 /\ Cardinality(Uncounted(v, d)) \in Nat
<1>1. Points(v) \subseteq consumed /\ \A d \in {-1, 1} : Uncounted(v, d) \subseteq consumed
  BY DEF Points, Uncounted, XInv, EInv, EventsOK
<1>2. IsFiniteSet(consumed)
  BY DEF XInv, EInv, EventsOK
<1> QED
  BY <1>1, <1>2, FS_Subset, FS_CardinalityType

\* A first consumption adds its event to the sets that explain the counters of
\* its video, and to no other.
LEMMA SetsAfterMove ==
    ASSUME XInv, NEW e \in Events, NEW delta \in {-1, 0, 1}, Moves(e, delta),
           UNCHANGED <<body, seen>>, NEW v \in Videos
    PROVE  /\ e \notin Points(v)
           /\ Points(v)' = IF body[e].action = "publish" /\ body[e].video = v /\ delta = 1
                           THEN Points(v) \cup {e} ELSE Points(v)
           /\ \A d \in {-1, 1} :
                 /\ e \notin Uncounted(v, d)
                 /\ Uncounted(v, d)' = IF body[e].video = v /\ delta = d
                                       THEN Uncounted(v, d) \cup {e} ELSE Uncounted(v, d)
<1>1. /\ TypeOK /\ e \notin consumed /\ e \notin seen /\ change[e] = 0
      /\ consumed' = consumed \cup {e} /\ change' = [change EXCEPT ![e] = delta]
  BY DEF Moves, XInv, EInv, EventsOK, TInv
<1>2. change'[e] = delta /\ \A f \in Events \ {e} : change'[f] = change[f]
  BY <1>1 DEF TypeOK
<1>3. consumed \subseteq Events
  BY <1>1 DEF TypeOK
<1>4. e \notin Points(v) /\ \A d \in {-1, 1} : e \notin Uncounted(v, d)
  BY <1>1 DEF Points, Uncounted
<1>5. Points(v)' = IF body[e].action = "publish" /\ body[e].video = v /\ delta = 1
                   THEN Points(v) \cup {e} ELSE Points(v)
  BY <1>1, <1>2, <1>3 DEF Points
<1>6. ASSUME NEW d \in {-1, 1}
      PROVE  Uncounted(v, d)' = IF body[e].video = v /\ delta = d
                                THEN Uncounted(v, d) \cup {e} ELSE Uncounted(v, d)
  BY <1>1, <1>2 DEF Uncounted
<1> QED
  BY <1>4, <1>5, <1>6

\* The sets do not change in a step that consumes and counts nothing.
LEMMA SetsSame ==
    ASSUME XInv, [Next]_vars, UNCHANGED <<consumed, change, seen>>, NEW v \in Videos
    PROVE  /\ Points(v)' = Points(v)
           /\ \A d \in {-1, 1} : Uncounted(v, d)' = Uncounted(v, d)
<1>1. \A e \in consumed : e \in Events /\ body'[e] = body[e]
  BY KnownStays DEF XInv, TInv, TypeOK, EInv, EventsOK
<1>2. \A d \in {-1, 1}, e \in Events : change[e] = d => e \in consumed
  BY DEF XInv, EInv, EventsOK
<1> QED
  BY <1>1, <1>2 DEF Points, Uncounted

LEMMA StepPInv == XInv /\ [Next]_vars => PInv'
<1> SUFFICES ASSUME XInv, [Next]_vars, NEW v \in Videos
             PROVE  popularity'[v] = likesCount'[v] + Cardinality(Points(v)')
  BY DEF PInv
<1>0. /\ TInv /\ EInv /\ TypeOK
      /\ popularity[v] \in Nat /\ likesCount[v] \in Nat
      /\ popularity[v] = likesCount[v] + Cardinality(Points(v))
  BY DEF XInv, TInv, TypeOK, PInv
<1>1. ASSUME NEW e \in Events, FirstUse(e), UNCHANGED <<requests, videos, cache>>
      PROVE  popularity'[v] = likesCount'[v] + Cardinality(Points(v)')
  <2> PICK delta \in {-1, 0, 1} : Moves(e, delta)
    BY <1>1, FirstUseMoves
  <2> DEFINE d == IF v = body[e].video THEN delta ELSE 0
  <2>1. popularity'[v] = popularity[v] + d
    BY <1>0 DEF Moves, TypeOK
  <2>2. CASE body[e].action = "publish"
    <3>1. likesCount'[v] = likesCount[v] /\ delta \in {0, 1}
      BY <2>2 DEF Moves
    <3>2. Cardinality(Points(v)') = Cardinality(Points(v)) + d
      BY <1>1, <2>2, <3>1, SetsAfterMove, SetsFinite, FS_AddElement DEF requests, cache
    <3> QED
      BY <1>0, <2>1, <3>1, <3>2, SetsFinite
  <2>3. CASE body[e].action # "publish"
    <3>1. likesCount'[v] = likesCount[v] + d
      BY <1>0, <2>3 DEF Moves, TypeOK
    <3>2. Points(v)' = Points(v)
      BY <1>1, <2>3, SetsAfterMove DEF requests, cache
    <3> QED
      BY <1>0, <2>1, <3>1, <3>2, SetsFinite
  <2> QED
    BY <2>2, <2>3
<1>2. CASE UNCHANGED <<popularity, likesCount, consumed, change>>
  <2>1. Points(v)' = Points(v)
    <3>1. \A e \in consumed : e \in Events /\ body'[e] = body[e]
      BY <1>0, KnownStays DEF EInv, EventsOK, TypeOK
    <3> QED
      BY <1>2, <3>1 DEF Points
  <2> QED
    BY <1>0, <1>2, <2>1
<1> QED
  BY <1>0, <1>1, <1>2, VisibleSteps DEF Check, Enqueue, DeleteVideo, AddHeat, database

LEMMA StepHInv == XInv /\ [Next]_vars => HInv'
<1> SUFFICES ASSUME XInv, [Next]_vars, NEW v \in Videos
             PROVE  popularity'[v] = heat'[v] + Cardinality(Uncounted(v, 1)')
                                              - Cardinality(Uncounted(v, -1)')
  BY DEF HInv
<1>0. /\ TInv /\ EInv /\ TypeOK
      /\ popularity[v] \in Nat /\ heat[v] \in Int
      /\ popularity[v] = heat[v] + Cardinality(Uncounted(v, 1)) - Cardinality(Uncounted(v, -1))
      /\ \A d \in {-1, 1} : /\ IsFiniteSet(Uncounted(v, d))
                            /\ Cardinality(Uncounted(v, d)) \in Nat
  BY SetsFinite DEF XInv, TInv, TypeOK, HInv
\* A change is owed until the heat has it.
<1>1. ASSUME NEW e \in Events, FirstUse(e), UNCHANGED <<requests, videos, cache>>
      PROVE  popularity'[v] = heat'[v] + Cardinality(Uncounted(v, 1)')
                                       - Cardinality(Uncounted(v, -1)')
  <2> PICK delta \in {-1, 0, 1} : Moves(e, delta)
    BY <1>1, FirstUseMoves
  <2>1. /\ popularity'[v] = popularity[v] + (IF v = body[e].video THEN delta ELSE 0)
        /\ heat'[v] = heat[v]
    BY <1>0, <1>1 DEF Moves, TypeOK, cache
  <2>2. ASSUME NEW d \in {-1, 1}
        PROVE  Cardinality(Uncounted(v, d)') = Cardinality(Uncounted(v, d)) +
                 (IF v = body[e].video /\ delta = d THEN 1 ELSE 0)
    BY <1>0, <1>1, SetsAfterMove, FS_AddElement DEF requests, cache
  <2> QED
    BY <1>0, <2>1, <2>2
\* Adding it to the heat settles what is owed.
<1>2. ASSUME NEW e \in Events, AddHeat(e), change[e] # 0, UNCHANGED <<requests, database>>
      PROVE  popularity'[v] = heat'[v] + Cardinality(Uncounted(v, 1)')
                                       - Cardinality(Uncounted(v, -1)')
  <2> PICK delta \in {-1, 1} : delta = change[e]
    BY <1>0, <1>2 DEF TypeOK
  <2>1. /\ popularity'[v] = popularity[v]
        /\ heat'[v] = heat[v] + (IF v = body[e].video THEN delta ELSE 0)
    BY <1>0, <1>2 DEF AddHeat, TypeOK, database
  <2>2. ASSUME NEW d \in {-1, 1}
        PROVE  Cardinality(Uncounted(v, d)') = Cardinality(Uncounted(v, d)) -
                 (IF v = body[e].video /\ delta = d THEN 1 ELSE 0)
    <3>1. e \notin seen /\ seen' = seen \cup {e} /\ UNCHANGED <<body, change>>
      BY <1>2 DEF AddHeat, requests, database
    <3>2. CASE v = body[e].video /\ delta = d
      <4>1. e \in Uncounted(v, d) /\ Uncounted(v, d)' = Uncounted(v, d) \ {e}
        BY <3>1, <3>2 DEF Uncounted
      <4> QED
        BY <1>0, <3>2, <4>1, FS_RemoveElement
    <3>3. CASE ~(v = body[e].video /\ delta = d)
      <4>1. Uncounted(v, d)' = Uncounted(v, d)
        BY <3>1, <3>3 DEF Uncounted
      <4> QED
        BY <1>0, <3>3, <4>1
    <3> QED
      BY <3>2, <3>3
  <2> QED
    BY <1>0, <2>1, <2>2
<1>3. CASE UNCHANGED <<popularity, heat, consumed, change, seen>>
  BY <1>0, <1>3, SetsSame
<1> QED
  BY <1>0, <1>1, <1>2, <1>3, VisibleSteps DEF Check, Enqueue, DeleteVideo, database, cache

LEMMA StepXInv == XInv /\ [Next]_vars => XInv'
  BY StepTInv, StepLInv, StepEInv, StepPInv, StepHInv DEF XInv

LEMMA AlwaysXInv == Spec => []XInv
<1>1. Init => XInv
  BY InitTInv, NoPointsNoHeat DEF XInv
<1> QED
  BY <1>1, StepXInv, PTL DEF Spec

\* videos.popularity is one for each like that stands and one for each comment
\* published while the video was there, through any number of retries, replays
\* and crashes; GREATEST never has to clip it.
THEOREM PopularityIsExplained == Spec => []PopularityExplained
<1>1. XInv => PopularityExplained
  <2> SUFFICES ASSUME XInv, NEW v \in videos
               PROVE  popularity[v] = likesCount[v] + Cardinality(Published(v))
    BY DEF PopularityExplained
  <2>1. v \in Videos
    BY DEF XInv, TInv, TypeOK
  <2>2. Published(v) = Points(v)
    BY DEF Published, Points, XInv, EInv, CommentsHavePoints
  <2> QED
    BY <2>1, <2>2 DEF XInv, PInv
<1> QED
  BY <1>1, AlwaysXInv, PTL

\* Heat and popularity differ by the changes whose event is still on its way:
\* none is made up, counted twice or forgotten.
THEOREM HeatIsConserved == Spec => []HeatConserved
<1>1. XInv => HeatConserved
  BY DEF XInv, HInv, HeatConserved, TInv, TypeOK
<1> QED
  BY <1>1, AlwaysXInv, PTL

-----------------------------------------------------------------------------
(***************************************************************************)
(* Interaction implements ExactlyOnce: Enqueue accepts a command, its      *)
(* first consumption applies it, the first run of the script for its heat  *)
(* event scores it, and nothing else shows.                                *)
(***************************************************************************)
AcceptedCommand == [e \in Events |-> IF e \in checked THEN None ELSE body[e]]

Seen == <<AcceptedCommand, consumed, change, seen, videos, likes, comments, lastComment,
          likesCount, popularity, heat>>

LEMMA StartsAsOnce == Init => Once!Init
  BY DEF Init, Once!Init

LEMMA EnqueueAccepts ==
    ASSUME XInv, NEW e \in Events, Enqueue(e)
    PROVE  Once!Accept(e)
<1>1. /\ body[e] \in Command /\ body[e].comment <= lastComment /\ lastComment \in Nat
  BY DEF Enqueue, XInv, TInv, MessagesKnown, Known, EInv, CommentIds, TypeOK
<1>2. /\ body[e].user \in Users /\ body[e].video \in Videos
      /\ body[e].comment \in 0..lastComment
      /\ body[e].action \in {"like", "unlike", "publish", "delete"}
      /\ body[e] = [action |-> body[e].action, user |-> body[e].user,
                    video |-> body[e].video, comment |-> body[e].comment]
  BY <1>1 DEF Command
<1>3. /\ AcceptedCommand[e] = None
      /\ AcceptedCommand' = [AcceptedCommand EXCEPT ![e] = body[e]]
  BY DEF Enqueue, AcceptedCommand
<1>4. UNCHANGED <<consumed, change, seen, videos, likes, comments, lastComment,
                  likesCount, popularity, heat>>
  BY DEF Enqueue, database, cache
<1>5. \E u \in Users, v \in Videos, n \in 0..lastComment,
         a \in {"like", "unlike", "publish", "delete"} :
         AcceptedCommand' = [AcceptedCommand EXCEPT
                       ![e] = [action |-> a, user |-> u, video |-> v, comment |-> n]]
  BY <1>2, <1>3
<1> QED
  BY <1>3, <1>4, <1>5, Zenon DEF Once!Accept, AcceptedCommand

\* ExactlyOnce takes Cardinality from its own copy of FiniteSets.
LEMMA OnceCardinality == \A S : Once!Cardinality(S) = Cardinality(S)
  BY DEF Once!Cardinality, Cardinality

\* The counters are what a recount of the rows gives.
LEMMA CountersAreARecount ==
    ASSUME XInv, XInv', UNCHANGED <<body, checked>>
    PROVE  Once!Recount
<1>1. /\ likesCount' \in [Videos -> Nat] /\ popularity' \in [Videos -> Nat]
  BY DEF XInv, TInv, TypeOK
<1>2. \A v \in Videos : likesCount'[v] = Cardinality({u \in Users : <<u, v>> \in likes'})
  BY DEF XInv, LInv, Likers
<1>3. \A v \in Videos :
         Points(v)' = {e \in consumed' : /\ AcceptedCommand[e].action = "publish"
                                         /\ AcceptedCommand[e].video = v
                                         /\ change'[e] = 1}
  <2>1. \A e \in consumed' : AcceptedCommand[e] = body'[e]
    BY DEF XInv, EInv, EventsOK, TInv, TypeOK, AcceptedCommand
  <2> QED
    BY <2>1 DEF Points
<1>4. \A v \in Videos : popularity'[v] = likesCount'[v] + Cardinality(Points(v)')
  BY DEF XInv, PInv
<1>5. likesCount' = [v \in Videos |-> Cardinality({u \in Users : <<u, v>> \in likes'})]
  BY <1>1, <1>2
<1>6. popularity' = [v \in Videos |-> likesCount'[v] + Cardinality(
           {e \in consumed' : /\ AcceptedCommand[e].action = "publish"
                              /\ AcceptedCommand[e].video = v
                              /\ change'[e] = 1})]
  BY <1>1, <1>3, <1>4
<1> QED
  BY <1>5, <1>6, OnceCardinality DEF Once!Recount, AcceptedCommand

LEMMA FirstUseApplies ==
    ASSUME XInv, XInv', NEW e \in Events, FirstUse(e), e \notin checked,
           UNCHANGED <<requests, videos, cache>>
    PROVE  Once!Apply(e)
<1> DEFINE c == AcceptedCommand[e]
<1>0. TypeOK
  BY DEF XInv, TInv
<1>1. c = body[e] /\ c # None
  BY ConstantsAssumption DEF FirstUse, LikeCommand, CommentCommand, Known, AcceptedCommand
<1>2. AcceptedCommand' = AcceptedCommand
  BY DEF AcceptedCommand, requests
<1> PICK delta \in {-1, 0, 1} : Moves(e, delta)
  BY FirstUseMoves
<1>3. /\ e \notin consumed /\ consumed' = consumed \cup {e}
      /\ change' = [change EXCEPT ![e] = delta]
  BY DEF Moves
<1>4. Once!Effect(c, delta)
  <2>1. CASE LikeCommand(e) /\ ChangeLike(e)
    <3>1. delta = IF c.action = "like" THEN 1 ELSE -1
      BY <1>0, <1>1, <1>3, <2>1 DEF ChangeLike, enqueuePopularity, TypeOK
    <3> QED
      BY <1>1, <2>1, <3>1 DEF LikeCommand, ChangeLike, LikeRowChanges, Once!Effect
  <2>2. CASE CreateComment(e)
    <3>1. delta = 1
      BY <1>0, <1>3, <2>2 DEF CreateComment, enqueuePopularity, TypeOK
    <3> QED
      BY <1>1, <2>2, <3>1 DEF CreateComment, Once!Effect
  <2>3. ASSUME UNCHANGED change PROVE delta = 0
    BY <1>0, <1>3, <2>3 DEF Moves, TypeOK
  <2>4. CASE LikeCommand(e) /\ IgnoreLike(e)
    BY <1>1, <2>3, <2>4 DEF LikeCommand, IgnoreLike, LikeRowChanges, Once!Effect
  <2>5. CASE IgnoreComment(e)
    BY <1>1, <2>3, <2>5 DEF IgnoreComment, Once!Effect
  <2>6. CASE RemoveComment(e)
    BY <1>1, <2>3, <2>6 DEF RemoveComment, Once!Effect
  <2> QED
    BY <2>1, <2>2, <2>4, <2>5, <2>6 DEF FirstUse
<1>5. Once!Recount
  BY CountersAreARecount DEF requests
<1> QED
  BY <1>1, <1>2, <1>3, <1>4, <1>5 DEF Once!Apply, AcceptedCommand, requests, cache

\* Each visible step is the one step of ExactlyOnce it should be.
LEMMA StepsAsOnce == XInv /\ XInv' /\ [Next]_vars => [Once!Next]_(Once!vars)
<1> SUFFICES ASSUME XInv, XInv', [Next]_vars PROVE Once!Next \/ UNCHANGED Seen
  BY DEF Once!vars, Seen, AcceptedCommand
<1>0. TInv /\ EInv /\ TypeOK
  BY DEF XInv, TInv
<1>1. ASSUME NEW e \in Events, NEW c \in Command, Check(e, c) PROVE UNCHANGED Seen
  <2>1. AcceptedCommand' = AcceptedCommand
    BY <1>0, <1>1 DEF Check, AcceptedCommand, TypeOK
  <2> QED
    BY <1>1, <2>1 DEF Check, Seen, database, cache
<1>2. ASSUME NEW v \in Videos, DeleteVideo(v) PROVE Once!RemoveVideo(v)
  BY <1>2 DEF DeleteVideo, Once!RemoveVideo, requests, cache
<1>3. ASSUME NEW e \in Events, AddHeat(e), change[e] # 0, UNCHANGED <<requests, database>>
      PROVE  Once!Score(e)
  <2>1. AcceptedCommand[e] = body[e] /\ AcceptedCommand' = AcceptedCommand
    BY <1>0, <1>3 DEF EInv, EventsOK, AcceptedCommand, requests
  <2>2. heat' = [heat EXCEPT ![AcceptedCommand[e].video] = @ + change[e]]
    BY <1>3, <2>1 DEF AddHeat
  <2> QED
    BY <1>3, <2>1, <2>2 DEF AddHeat, Once!Score, AcceptedCommand, database
<1>4. CASE UNCHANGED <<requests, database, cache>>
  BY <1>4 DEF Seen, AcceptedCommand, requests, database, cache
<1> QED
  BY <1>0, <1>1, <1>2, <1>3, <1>4, VisibleSteps, EnqueueAccepts, FirstUseApplies
     DEF Once!Next

\* Whatever is retried, republished, redelivered or lost on the way: clients of
\* the database and of Redis see each accepted command take effect at most once,
\* at one moment, with counters equal to a recount of the rows.
THEOREM ActsExactlyOnce == Spec => ImplementsExactlyOnce
<1>1. Init => Once!Init
  BY StartsAsOnce
<1> QED
  BY <1>1, StepsAsOnce, AlwaysXInv, PTL DEF Spec, ImplementsExactlyOnce, Once!Spec
=============================================================================
