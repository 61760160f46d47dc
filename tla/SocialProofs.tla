---------------------------- MODULE SocialProofs ----------------------------
(***************************************************************************)
(* Social keeps its type, and stores and pushes one notification for an    *)
(* event that is not dead-lettered; and when requests of the pair come one *)
(* after the other, applying their events again leaves the relation as the *)
(* last of them made it.                                                   *)
(***************************************************************************)
EXTENDS Social, FiniteSetTheorems, SequenceTheorems, TLAPS

LEMMA InitTypeOK == Init => TypeOK
<1>1. Init => FlagsOK
  BY DEF Init, FlagsOK
<1>2. Init => RequestsOK /\ BrokerOK
  BY ConstantsAssumption DEF Init, NotYet, Idle, RequestsOK, BrokerOK
<1> QED
  BY <1>1, <1>2 DEF TypeOK

\* A step of a request keeps the type of the records.
LEMMA GoTyped ==
    ASSUME RequestsOK, NEW r \in Requests, NEW ok \in BOOLEAN,
           NEW step \in {"none", "check", "write", "publish", "done"},
           request' = Go(r, step, ok), UNCHANGED <<unconfirmed, faults>>
    PROVE  RequestsOK'
  BY DEF RequestsOK, Go

\* An event may be appended to each of the queues.
LEMMA RoutedTyped ==
    ASSUME BrokerOK, NEW r \in Requests
    PROVE  /\ Routed(r) \in [Consumers -> Seq(Requests)]
           /\ \A c \in Consumers : queue[c] # <<>> => Routed(r)[c] # <<>>
<1>1. ASSUME NEW c \in Consumers
      PROVE  /\ Append(queue[c], r) \in Seq(Requests)
             /\ Append(queue[c], r) # <<>>
             /\ queue[c] \in Seq(Requests)
  <2>1. queue[c] \in Seq(Requests)
    BY DEF BrokerOK
  <2> QED
    BY <2>1, AppendProperties, EmptySeq
<1> QED
  BY <1>1 DEF Routed

LEMMA FlagsStep == FlagsOK /\ [Next]_vars => FlagsOK'
<1> SUFFICES ASSUME FlagsOK, [Next]_vars PROVE FlagsOK'
  OBVIOUS
<1>1. CASE \E r \in Requests : Write(r) \/ Publish(r) \/ PublishUnconfirmed(r)
  BY <1>1 DEF FlagsOK, Write, Publish, PublishUnconfirmed
<1>2. CASE Restart
  BY <1>2 DEF FlagsOK, Restart
<1>3. CASE ApplyRelation
  BY <1>3 DEF FlagsOK, ApplyRelation, api
<1>4. CASE UNCHANGED <<following, failed, last>>
  BY <1>4 DEF FlagsOK
<1> QED
  BY <1>1, <1>2, <1>3, <1>4
  DEF Next, Start, Serve, Check, RequestFails, Consume, Deliver, Ack, Fail, Disconnect, InsertRow,
      Push, vars, api

LEMMA RequestsStep == RequestsOK /\ [Next]_vars => RequestsOK'
<1> SUFFICES ASSUME RequestsOK, [Next]_vars PROVE RequestsOK'
  OBVIOUS
<1>1. ASSUME NEW r \in Requests, NEW kind \in {"follow", "unfollow"}, Start(r, kind)
      PROVE  RequestsOK'
  BY <1>1 DEF RequestsOK, Start
<1>2. ASSUME NEW r \in Requests, Check(r) \/ Write(r) \/ Publish(r)
      PROVE  RequestsOK'
  <2>1. /\ \/ request' = Go(r, "done", FALSE)
           \/ request' = Go(r, "write", FALSE)
           \/ request' = Go(r, "publish", TRUE)
           \/ request' = Go(r, "done", TRUE)
        /\ UNCHANGED <<unconfirmed, faults>>
    BY <1>2 DEF Check, Write, Publish
  <2> QED
    BY <2>1, GoTyped
<1>3. ASSUME NEW r \in Requests, PublishUnconfirmed(r) PROVE RequestsOK'
  <2>1. /\ request' = Go(r, "done", TRUE)
        /\ unconfirmed' = unconfirmed \cup {r}
        /\ UNCHANGED faults
    BY <1>3 DEF PublishUnconfirmed
  <2> QED
    BY <2>1 DEF RequestsOK, Go
<1>7. ASSUME NEW r \in Requests, RequestFails(r) PROVE RequestsOK'
  <2>1. /\ request' = Go(r, "done", FALSE)
        /\ unconfirmed' \subseteq unconfirmed \cup {r}
        /\ faults' \in 0..MaxFaults
    BY <1>7, ConstantsAssumption DEF RequestFails, RequestsOK
  <2> QED
    BY <2>1 DEF RequestsOK, Go
<1>4. ASSUME NEW c \in Consumers, Fail(c) \/ Disconnect(c) PROVE RequestsOK'
  BY <1>4, ConstantsAssumption DEF RequestsOK, Fail, Disconnect, api
<1>5. CASE Restart
  BY <1>5, ConstantsAssumption DEF RequestsOK, Restart, Running
<1>6. CASE UNCHANGED <<request, unconfirmed, faults>>
  BY <1>6 DEF RequestsOK
<1> QED
  BY <1>1, <1>2, <1>3, <1>4, <1>5, <1>6, <1>7
  DEF Next, Serve, Consume, Deliver, Ack, ApplyRelation, InsertRow, Push, vars, api

LEMMA BrokerStep == BrokerOK /\ [Next]_vars => BrokerOK'
<1> SUFFICES ASSUME BrokerOK, [Next]_vars PROVE BrokerOK'
  OBVIOUS
<1>1. ASSUME NEW r \in Requests, Publish(r) \/ PublishUnconfirmed(r) PROVE BrokerOK'
  <2>1. /\ queue' = Routed(r) \/ queue' = queue
        /\ UNCHANGED <<consumer, dead, rows, pushed>>
    BY <1>1 DEF Publish, PublishUnconfirmed, notices
  <2> QED
    BY <2>1, RoutedTyped DEF BrokerOK
<1>2. ASSUME NEW c \in Consumers, Deliver(c) PROVE BrokerOK'
  BY <1>2 DEF BrokerOK, Deliver, Turn, notices
<1> DEFINE Places == [Consumers -> [step : {"idle", "apply", "push", "ack"},
                                    tries : 0..MaxRetries]]
           Held == \A c \in Consumers : consumer[c] # Idle => queue[c] # <<>>
<1>3. ASSUME NEW c \in Consumers, NEW step \in {"push", "ack"},
             consumer[c].step # "idle", Turn(c, step)
      PROVE  consumer' \in Places /\ (UNCHANGED queue => Held')
  <2>1. consumer' \in Places
    BY <1>3 DEF BrokerOK, Turn
  <2>2. UNCHANGED queue => Held'
    BY <1>3 DEF BrokerOK, Turn, Idle
  <2> QED
    BY <2>1, <2>2
<1>6. ASSUME NEW c \in Consumers, consumer[c] # Idle
      PROVE  Tail(queue[c]) \in Seq(Requests) /\ Head(queue[c]) \in Requests
  BY <1>6 DEF BrokerOK
<1>4. CASE ApplyRelation
  BY <1>3, <1>4 DEF ApplyRelation, Step, Consumers, BrokerOK, notices
<1>13. CASE Push
  <2>1. consumer["notification"] # Idle
    BY <1>13 DEF Push, Step, Idle
  <2>2. pushed' \subseteq Requests
    BY <1>6, <1>13, <2>1 DEF Push, BrokerOK, Consumers
  <2> QED
    BY <1>3, <1>13, <2>2 DEF Push, Step, Consumers, BrokerOK
<1>5. CASE InsertRow
  <2>1. \A n \in Nat : Stored(n) \in Nat
    BY DEF Stored
  <2>2. rows' \in [Requests -> Nat]
    BY <1>5, <2>1 DEF InsertRow, BrokerOK
  <2> QED
    BY <1>3, <1>5, <2>2 DEF InsertRow, Step, Consumers, BrokerOK
<1>7. ASSUME NEW c \in Consumers, consumer' = [consumer EXCEPT ![c] = Idle],
             \A d \in Consumers \ {c} : queue'[d] = queue[d]
      PROVE  consumer' \in Places /\ Held'
  <2>1. consumer' \in Places
    BY <1>7, ConstantsAssumption DEF BrokerOK, Idle
  <2>2. Held'
    BY <1>7 DEF BrokerOK
  <2> QED
    BY <2>1, <2>2
<1>8. ASSUME NEW c \in Consumers, consumer[c] # Idle,
             queue' = [queue EXCEPT ![c] = Tail(@)]
      PROVE  /\ queue' \in [Consumers -> Seq(Requests)]
             /\ \A d \in Consumers \ {c} : queue'[d] = queue[d]
  BY <1>6, <1>8 DEF BrokerOK
<1>9. ASSUME NEW c \in Consumers, Ack(c) PROVE BrokerOK'
  <2>1. /\ consumer[c] # Idle
        /\ queue' = [queue EXCEPT ![c] = Tail(@)]
        /\ consumer' = [consumer EXCEPT ![c] = Idle]
        /\ UNCHANGED <<dead, rows, pushed>>
    BY <1>9 DEF Ack, Step, Idle, notices
  <2> QED
    BY <1>7, <1>8, <2>1 DEF BrokerOK
<1>11. ASSUME NEW c \in Consumers, Fail(c) PROVE BrokerOK'
  <2>1. consumer[c] # Idle /\ UNCHANGED <<rows, pushed>>
    BY <1>11 DEF Fail, Idle, notices
  <2>2. CASE MayRetry(c)
    <3>1. /\ consumer' = [consumer EXCEPT ![c] = [step |-> "apply", tries |-> @.tries + 1]]
          /\ UNCHANGED <<queue, dead>>
      BY <1>11, <2>2 DEF Fail
    <3>2. consumer' \in Places
      BY <2>2, <3>1, ConstantsAssumption DEF BrokerOK, MayRetry
    <3>3. Held'
      BY <2>1, <3>1 DEF BrokerOK
    <3> QED
      BY <2>1, <3>1, <3>2, <3>3 DEF BrokerOK
  <2>3. CASE ~MayRetry(c)
    <3>1. /\ queue' = [queue EXCEPT ![c] = Tail(@)]
          /\ consumer' = [consumer EXCEPT ![c] = Idle]
          /\ dead' = [dead EXCEPT ![c] = @ \cup {Head(queue[c])}]
      BY <1>11, <2>3 DEF Fail
    <3>2. dead' \in [Consumers -> SUBSET Requests]
      BY <1>6, <2>1, <3>1 DEF BrokerOK
    <3> QED
      BY <1>7, <1>8, <2>1, <3>1, <3>2 DEF BrokerOK
  <2> QED
    BY <2>2, <2>3
<1>12. ASSUME NEW c \in Consumers, Disconnect(c) PROVE BrokerOK'
  <2>1. /\ queue' = queue
        /\ consumer' = [consumer EXCEPT ![c] = Idle]
        /\ UNCHANGED <<dead, rows, pushed>>
    BY <1>12 DEF Disconnect, Returned, BrokerOK, notices
  <2> QED
    BY <1>7, <2>1 DEF BrokerOK
<1>10. CASE UNCHANGED <<broker, notices>>
  BY <1>10 DEF BrokerOK, broker, notices
<1> QED
  BY <1>1, <1>2, <1>4, <1>5, <1>9, <1>10, <1>11, <1>12, <1>13
  DEF Next, Start, Serve, Check, Write, RequestFails, Consume, Restart, vars, broker

\* Every variable keeps its type.
THEOREM TypeCorrect == Spec => []TypeOK
<1>1. TypeOK /\ [Next]_vars => TypeOK'
  BY FlagsStep, RequestsStep, BrokerStep DEF TypeOK
<1> QED
  BY InitTypeOK, <1>1, PTL DEF Spec
-----------------------------------------------------------------------------
(* The notification of an event: what was done of it is known from where   *)
(* its delivery is, and stays done when it is delivered again.             *)

NQ == queue["notification"]
Stage == consumer["notification"].step

NInv ==
    /\ \A r \in Requests : rows[r] <= 1
    /\ Stage \in {"push", "ack"} => rows[Head(NQ)] = 1
    /\ Stage = "ack" => Head(NQ) \in pushed

\* A step that is not of the notification worker takes nothing from its queue.
LEMMA OthersAppend ==
    ASSUME TypeOK, [Next]_vars,
           ~Deliver("notification"), ~Ack("notification"), ~InsertRow, ~Push,
           ~Fail("notification"), ~Disconnect("notification")
    PROVE  /\ NQ' = NQ \/ \E r \in Requests : NQ' = Append(NQ, r)
           /\ consumer'["notification"] = consumer["notification"]
           /\ UNCHANGED <<rows, pushed>>
<1>1. queue \in [Consumers -> Seq(Requests)] /\ "notification" \in Consumers
  BY DEF TypeOK, BrokerOK, Consumers
<1>2. ASSUME NEW r \in Requests, queue' \in {queue, Routed(r)}, UNCHANGED <<consumer, notices>>
      PROVE  /\ NQ' = NQ \/ \E q \in Requests : NQ' = Append(NQ, q)
             /\ consumer'["notification"] = consumer["notification"]
             /\ UNCHANGED <<rows, pushed>>
  BY <1>1, <1>2 DEF NQ, Routed, notices
<1>3. CASE \E r \in Requests : Publish(r) \/ PublishUnconfirmed(r)
  <2> PICK r \in Requests : Publish(r) \/ PublishUnconfirmed(r)
    BY <1>3
  <2>1. queue' \in {queue, Routed(r)} /\ UNCHANGED <<consumer, notices>>
    BY DEF Publish, PublishUnconfirmed
  <2> QED
    BY <1>2, <2>1
<1>4. ASSUME NEW c \in Consumers, Deliver(c) \/ Ack(c) \/ Fail(c) \/ Disconnect(c)
      PROVE  UNCHANGED <<NQ, consumer["notification"], rows, pushed>>
  BY <1>1, <1>4 DEF Deliver, Ack, Fail, Disconnect, Turn, NQ, Consumers, notices, TypeOK, BrokerOK
<1>5. CASE ApplyRelation
  BY <1>1, <1>5 DEF ApplyRelation, Turn, NQ, Consumers, notices, TypeOK, BrokerOK
<1>6. CASE UNCHANGED <<broker, notices>>
  BY <1>6 DEF broker, notices, NQ
<1> QED
  BY <1>3, <1>4, <1>5, <1>6
  DEF Next, Start, Serve, Check, Write, Consume, RequestFails, Restart, vars

LEMMA InitNInv == Init => NInv
  BY DEF Init, NInv, Stage, Idle, Consumers

LEMMA StepNInv == TypeOK /\ NInv /\ [Next]_vars => NInv'
<1> SUFFICES ASSUME TypeOK, NInv, [Next]_vars PROVE NInv'
  OBVIOUS
<1>1. /\ NQ \in Seq(Requests) /\ "notification" \in Consumers
      /\ Stage # "idle" => NQ # <<>> /\ Head(NQ) \in Requests
      /\ consumer \in [Consumers -> [step : {"idle", "apply", "push", "ack"},
                                     tries : 0..MaxRetries]]
      /\ rows \in [Requests -> Nat]
  BY DEF TypeOK, BrokerOK, Consumers, NQ, Stage, Idle
<1>2. CASE InsertRow
  <2>1. /\ Stage = "apply" /\ rows' = [rows EXCEPT ![Head(NQ)] = Stored(@)]
        /\ NQ' = NQ /\ Stage' = "push" /\ Head(NQ) \in Requests
    BY <1>1, <1>2 DEF InsertRow, Step, Turn, Stage, NQ
  <2>2. \A n \in Nat : n <= 1 => Stored(n) = 1
    BY DEF Stored
  <2> QED
    BY <1>1, <2>1, <2>2 DEF NInv
<1>3. CASE Push
  <2>1. /\ Stage = "push" /\ pushed' = pushed \cup {Head(NQ)} /\ rows' = rows
        /\ NQ' = NQ
    BY <1>1, <1>3 DEF Push, Step, Stage, NQ
  <2> QED
    BY <2>1 DEF NInv
\* The next delivery, or the same again, starts from the beginning.
<1>4. CASE \/ Deliver("notification") \/ Ack("notification")
           \/ Fail("notification") \/ Disconnect("notification")
  <2>1. Stage' \in {"idle", "apply"} /\ rows' = rows
    BY <1>1, <1>4 DEF Deliver, Ack, Fail, Disconnect, Turn, Idle, Stage, notices
  <2> QED
    BY <2>1 DEF NInv
<1>5. CASE ~(\/ Deliver("notification") \/ Ack("notification") \/ InsertRow \/ Push
             \/ Fail("notification") \/ Disconnect("notification"))
  <2>1. /\ NQ' = NQ \/ \E r \in Requests : NQ' = Append(NQ, r)
        /\ Stage' = Stage /\ UNCHANGED <<rows, pushed>>
    BY <1>5, OthersAppend DEF Stage
  <2>2. ASSUME NEW r \in Requests, NQ' = Append(NQ, r), NQ # <<>>
        PROVE  Head(NQ') = Head(NQ)
    <3>1. NQ \in Seq(Requests) /\ Len(NQ) \in Nat \ {0} /\ Len(NQ') = Len(NQ) + 1
      BY <1>1, <2>2, EmptySeq
    <3>2. NQ'[1] = NQ[1] /\ Head(NQ') = NQ'[1] /\ Head(NQ) = NQ[1]
      BY <2>2, <3>1
    <3> QED
      BY <3>2
  <2>3. Stage # "idle" => Head(NQ') = Head(NQ)
    BY <1>1, <2>1, <2>2
  <2> QED
    BY <2>1, <2>3 DEF NInv
<1> QED
  BY <1>2, <1>3, <1>4, <1>5

\* An event leaves the notification queue with one row stored and pushed, or
\* dead-lettered; for any number of retries and redeliveries.
THEOREM OnceOrDead == Spec => NotifiedOnce
<1>1. TypeOK /\ NInv /\ [Next]_vars =>
         [\A r \in Requests : Queued(r) /\ ~Queued(r)' =>
             (rows[r] = 1 /\ r \in pushed) \/ r \in dead'["notification"]]_vars
  <2> SUFFICES ASSUME TypeOK, NInv, [Next]_vars, NEW r \in Requests, Queued(r), ~Queued(r)'
               PROVE  (rows[r] = 1 /\ r \in pushed) \/ r \in dead'["notification"]
    OBVIOUS
  <2>1. /\ NQ \in Seq(Requests) /\ "notification" \in Consumers
        /\ dead \in [Consumers -> SUBSET Requests]
        /\ queue \in [Consumers -> Seq(Requests)]
    BY DEF TypeOK, BrokerOK, Consumers, NQ
  <2> PICK i \in 1..Len(NQ) : NQ[i] = r
    BY DEF Queued, NQ
  <2>2. \A j \in 1..Len(NQ') : NQ'[j] # r
    BY DEF Queued, NQ
  <2>3. NQ' # NQ /\ \A q \in Requests : NQ' # Append(NQ, q)
    <3>1. ASSUME NEW q \in Requests, NQ' = Append(NQ, q) PROVE FALSE
      <4>1. i \in 1..Len(NQ') /\ NQ'[i] = NQ[i]
        BY <2>1, <3>1
      <4> QED
        BY <2>2, <4>1
    <3> QED
      BY <2>2, <3>1
  <2>4. ~InsertRow /\ ~Push /\ ~Deliver("notification") /\ ~Disconnect("notification")
    BY <2>1, <2>3 DEF InsertRow, Push, Deliver, Disconnect, Returned, NQ
  <2>5. Ack("notification") \/ Fail("notification")
    BY <2>3, <2>4, OthersAppend
  <2>6. NQ' = Tail(NQ)
    BY <2>1, <2>3, <2>5 DEF Ack, Fail, NQ
  <2>7. Head(NQ) = r
    <3> SUFFICES ASSUME i # 1 PROVE FALSE
      BY <2>1
    <3>1. i - 1 \in 1..Len(NQ') /\ NQ'[i - 1] = NQ[i]
      BY <2>1, <2>6
    <3> QED
      BY <2>2, <3>1
  <2>8. CASE Ack("notification")
    BY <2>7, <2>8 DEF Ack, Step, NInv, Stage
  <2>9. CASE Fail("notification")
    BY <2>1, <2>3, <2>7, <2>9 DEF Fail, NQ
  <2> QED
    BY <2>5, <2>8, <2>9
<1> QED
  BY <1>1, InitTypeOK, InitNInv, TypeCorrect, StepNInv, PTL DEF Spec, NotifiedOnce

-----------------------------------------------------------------------------
(***************************************************************************)
(* The relation converges.  What the queue will make of it is the kind of  *)
(* its last event; that is the last writer's, unless this one has not      *)
(* published yet, and with one request at a time it will do so before the  *)
(* next one writes.                                                        *)
(***************************************************************************)
Follow(r) == request[r].kind = "follow"
Publishing == \E r \in Requests : request[r].step = "publish"
Lost == unconfirmed # {} \/ dead["social"] # {}
Q == queue["social"]

\* A publisher that gave up has an unconfirmed event.
FailedIsUnconfirmed == failed => unconfirmed # {}
\* Requests do not overlap.
OneAtATime == \A r, q \in Running : r = q
\* Events in the queue are of requests that began, so their kind stays.
QueuedBegan == \A i \in 1..Len(Q) : request[Q[i]].kind # "none"
WriterIsLast == \A r \in Requests :
    request[r].step = "publish" => request[r].kind # "none" /\ Follow(r) = last
RunningBegan == \A r \in Running : request[r].kind # "none"
\* The end of the queue agrees with the last writer.
EndIsLast == ~Lost /\ ~Publishing =>
    IF Q = <<>> THEN following = last ELSE Follow(Q[Len(Q)]) = last
\* The event about to be acknowledged is what the relation is, if it is the last.
AppliedIsThere == ~Lost /\ consumer["social"].step = "ack" /\ ~Publishing /\ Len(Q) = 1 =>
    following = Follow(Q[1])

CInv == /\ FailedIsUnconfirmed /\ OneAtATime /\ QueuedBegan /\ WriterIsLast
        /\ RunningBegan /\ EndIsLast /\ AppliedIsThere

LEMMA InitCInv == Init => CInv
<1> SUFFICES ASSUME Init PROVE CInv
  OBVIOUS
<1>1. Running = {} /\ ~Publishing /\ Q = <<>> /\ Len(Q) = 0
  BY DEF Init, Running, Publishing, NotYet, Q, Consumers
<1>2. FailedIsUnconfirmed /\ OneAtATime /\ RunningBegan
  BY <1>1 DEF Init, FailedIsUnconfirmed, OneAtATime, RunningBegan
<1>3. QueuedBegan /\ WriterIsLast
  BY <1>1 DEF QueuedBegan, WriterIsLast, Publishing
<1>4. EndIsLast
  BY <1>1 DEF Init, EndIsLast
<1>5. Len(Q) # 1
  BY <1>1
<1>6. AppliedIsThere
  BY <1>5 DEF AppliedIsThere
<1> QED
  BY <1>2, <1>3, <1>4, <1>6 DEF CInv

LEMMA QueueOfRequests ==
    ASSUME BrokerOK
    PROVE  /\ Q \in Seq(Requests)
           /\ Len(Q) \in Nat
           /\ \A i \in 1..Len(Q) : Q[i] \in Requests
           /\ Q = <<>> <=> Len(Q) = 0
<1>1. Q \in Seq(Requests)
  BY DEF BrokerOK, Q, Consumers
<1> QED
  BY <1>1, EmptySeq

\* Steps that leave the requests, their outcome and the worker's queue alone.
LEMMA Aside ==
    ASSUME CInv, UNCHANGED <<request, following, last, failed, unconfirmed>>,
           Q' = Q, dead["social"] \subseteq dead'["social"],
           consumer'["social"].step = "ack" => consumer["social"].step = "ack"
    PROVE  CInv'
<1>1. Lost => Lost'
  BY DEF Lost
<1>2. Publishing' = Publishing /\ Running' = Running
  BY DEF Publishing, Running
<1>3. FailedIsUnconfirmed' /\ OneAtATime' /\ RunningBegan' /\ WriterIsLast' /\ QueuedBegan'
  BY <1>2 DEF CInv, FailedIsUnconfirmed, OneAtATime, RunningBegan, WriterIsLast, QueuedBegan, Follow
<1>4. EndIsLast' /\ AppliedIsThere'
  BY <1>1, <1>2 DEF CInv, EndIsLast, AppliedIsThere, Follow
<1> QED
  BY <1>3, <1>4 DEF CInv

\* A request that takes a step keeps its kind, and the others all they have.
LEMMA GoKeeps ==
    ASSUME RequestsOK, NEW r \in Requests, NEW step, NEW ok, request' = Go(r, step, ok)
    PROVE  /\ \A q \in Requests : request'[q].kind = request[q].kind
           /\ \A q \in Requests \ {r} : request'[q].step = request[q].step
           /\ request'[r].step = step
  BY DEF RequestsOK, Go

\* What is left of the invariant when an event is lost.
LEMMA LostSuffices ==
    ASSUME Lost', FailedIsUnconfirmed', OneAtATime', QueuedBegan', WriterIsLast', RunningBegan'
    PROVE  CInv'
  BY DEF CInv, EndIsLast, AppliedIsThere

\* Steps of a request other than a publication: kinds and queue stay.
LEMMA RequestMoves ==
    ASSUME RequestsOK, BrokerOK, CInv, NEW r \in Running, NEW ok,
           NEW step \in {"write", "publish", "done"}, request' = Go(r, step, ok),
           Q' = Q, UNCHANGED <<failed, unconfirmed>>
    PROVE  /\ FailedIsUnconfirmed' /\ OneAtATime' /\ QueuedBegan' /\ RunningBegan'
           /\ \A q \in Requests : Follow(q)' = Follow(q)
           /\ Publishing' <=> step = "publish"
           /\ \A q \in Requests : request'[q].step = "publish" => q = r
<1>1. r \in Requests /\ Running' \subseteq Running /\ Running = {r}
  BY GoKeeps DEF Running, CInv, OneAtATime
<1>2. \A q \in Requests : request'[q].kind = request[q].kind
  BY <1>1, GoKeeps
<1>3. FailedIsUnconfirmed' /\ OneAtATime'
  BY <1>1 DEF CInv, FailedIsUnconfirmed, OneAtATime
<1>4. QueuedBegan'
  BY <1>2, QueueOfRequests DEF CInv, QueuedBegan
<1>5. RunningBegan'
  BY <1>1, <1>2 DEF CInv, RunningBegan
<1>6. \A q \in Requests : request'[q].step = "publish" => q = r
  BY <1>1, GoKeeps DEF Running
<1>7. Publishing' <=> step = "publish"
  BY <1>1, <1>6, GoKeeps DEF Publishing
<1> QED
  BY <1>2, <1>3, <1>4, <1>5, <1>6, <1>7 DEF Follow

LEMMA CStart ==
    ASSUME TypeOK, CInv, MaxConcurrent = 1, NEW r \in Requests,
           NEW kind \in {"follow", "unfollow"}, Start(r, kind)
    PROVE  CInv'
<1>1. Running = {}
  <2>1. IsFiniteSet(Running)
    <3>1. IsFiniteSet(Requests)
      BY FS_Interval, ConstantsAssumption DEF Requests
    <3> QED
      BY <3>1, FS_Subset DEF Running
  <2>2. Cardinality(Running) \in Nat /\ Cardinality(Running) < 1
    BY <2>1, FS_CardinalityType DEF Start
  <2>3. Cardinality(Running) = 0
    BY <2>2
  <2> QED
    BY <2>1, <2>3, FS_EmptySet
<1>2. /\ request[r] = NotYet
      /\ \A q \in Requests \ {r} : request'[q] = request[q]
      /\ request'[r] = [kind |-> kind, step |-> "check", ok |-> FALSE]
      /\ UNCHANGED <<following, last, failed, unconfirmed, queue, consumer, dead>>
  BY DEF Start, TypeOK, RequestsOK, broker
<1>3. ~Publishing /\ ~Publishing' /\ Running' \subseteq {r}
  BY <1>1, <1>2 DEF Publishing, Running
<1>4. FailedIsUnconfirmed' /\ OneAtATime' /\ WriterIsLast' /\ RunningBegan'
  BY <1>2, <1>3 DEF CInv, FailedIsUnconfirmed, OneAtATime, WriterIsLast, RunningBegan, Publishing
<1>5. Q' = Q /\ (Lost' <=> Lost)
  BY <1>2 DEF Q, Lost
<1>6. \A i \in 1..Len(Q) : Q[i] \in Requests \ {r}
  BY <1>2, QueueOfRequests DEF CInv, QueuedBegan, TypeOK, NotYet
<1>7. QueuedBegan'
  BY <1>2, <1>5, <1>6 DEF CInv, QueuedBegan
<1>8. \A i \in 1..Len(Q) : Follow(Q[i])' = Follow(Q[i])
  BY <1>2, <1>5, <1>6 DEF Follow
<1>9. Q # <<>> => Len(Q) \in 1..Len(Q)
  BY QueueOfRequests DEF TypeOK
<1>10. EndIsLast'
  BY <1>2, <1>3, <1>5, <1>8, <1>9 DEF CInv, EndIsLast
<1>11. Len(Q) = 1 => 1 \in 1..Len(Q)
  OBVIOUS
<1>12. AppliedIsThere'
  BY <1>2, <1>3, <1>5, <1>8, <1>11 DEF CInv, AppliedIsThere
<1> QED
  BY <1>4, <1>7, <1>10, <1>12 DEF CInv

LEMMA CCheck ==
    ASSUME TypeOK, CInv, NEW r \in Requests, Check(r)
    PROVE  CInv'
<1>1. /\ r \in Running
      /\ request' = Go(r, "done", FALSE) \/ request' = Go(r, "write", FALSE)
      /\ UNCHANGED <<following, last, failed, unconfirmed, queue, consumer, dead>>
  BY DEF Check, Running, broker
<1>2. Q' = Q /\ (Lost' <=> Lost)
  BY <1>1 DEF Q, Lost
<1>3. /\ FailedIsUnconfirmed' /\ OneAtATime' /\ QueuedBegan' /\ RunningBegan'
      /\ \A q \in Requests : Follow(q)' = Follow(q)
      /\ ~Publishing'
  BY <1>1, <1>2, RequestMoves DEF TypeOK
<1>4. ~Publishing
  BY <1>1 DEF Check, CInv, OneAtATime, Publishing, Running
<1>5. WriterIsLast'
  BY <1>3 DEF WriterIsLast, Publishing
<1>6. Q # <<>> => Q[Len(Q)] \in Requests
  BY QueueOfRequests DEF TypeOK
<1>7. EndIsLast'
  BY <1>1, <1>2, <1>3, <1>4, <1>6 DEF CInv, EndIsLast
<1>8. Len(Q) = 1 => Q[1] \in Requests
  BY QueueOfRequests DEF TypeOK
<1>9. AppliedIsThere'
  BY <1>1, <1>2, <1>3, <1>4, <1>8 DEF CInv, AppliedIsThere
<1> QED
  BY <1>3, <1>5, <1>7, <1>9 DEF CInv

LEMMA CWrite ==
    ASSUME TypeOK, CInv, NEW r \in Requests, Write(r)
    PROVE  CInv'
<1>1. /\ r \in Running
      /\ request[r].step = "write"
      /\ UNCHANGED <<failed, unconfirmed, queue, consumer, dead>>
  BY DEF Write, Running, broker
<1>2. Q' = Q /\ (Lost' <=> Lost)
  BY <1>1 DEF Q, Lost
<1>3. ~Publishing
  BY <1>1 DEF CInv, OneAtATime, Publishing, Running
<1>4. CASE request' = Go(r, "publish", TRUE) /\ last' = Follow(r)
  <2>1. /\ FailedIsUnconfirmed' /\ OneAtATime' /\ QueuedBegan' /\ RunningBegan'
        /\ \A q \in Requests : Follow(q)' = Follow(q)
        /\ Publishing'
        /\ \A q \in Requests : request'[q].step = "publish" => q = r
    BY <1>1, <1>2, <1>4, RequestMoves DEF TypeOK
  <2>2. request'[r].kind # "none"
    BY <1>1, <1>4, GoKeeps DEF CInv, RunningBegan, TypeOK
  <2>3. WriterIsLast'
    BY <1>4, <2>1, <2>2 DEF WriterIsLast
  <2> QED
    BY <2>1, <2>3 DEF CInv, EndIsLast, AppliedIsThere
<1>5. CASE request' = Go(r, "done", FALSE) /\ UNCHANGED <<following, last>>
  <2>1. /\ FailedIsUnconfirmed' /\ OneAtATime' /\ QueuedBegan' /\ RunningBegan'
        /\ \A q \in Requests : Follow(q)' = Follow(q)
        /\ ~Publishing'
    BY <1>1, <1>2, <1>5, RequestMoves DEF TypeOK
  <2>2. WriterIsLast'
    BY <2>1 DEF WriterIsLast, Publishing
  <2>3. /\ Q # <<>> => Q[Len(Q)] \in Requests
        /\ Len(Q) = 1 => Q[1] \in Requests
    BY QueueOfRequests DEF TypeOK
  <2>4. EndIsLast'
    BY <1>2, <1>3, <1>5, <2>1, <2>3 DEF CInv, EndIsLast
  <2>5. AppliedIsThere'
    BY <1>1, <1>2, <1>3, <1>5, <2>1, <2>3 DEF CInv, AppliedIsThere
  <2> QED
    BY <2>1, <2>2, <2>4, <2>5 DEF CInv
<1> QED
  BY <1>4, <1>5 DEF Write, Follow

\* With the flag down the event goes to the end of the worker's queue.
LEMMA CPublish ==
    ASSUME TypeOK, CInv, NEW r \in Requests, Publish(r)
    PROVE  CInv'
<1>1. /\ r \in Running
      /\ request' = Go(r, "done", TRUE)
      /\ UNCHANGED <<following, last, failed, unconfirmed, consumer, dead>>
  BY DEF Publish, Running
<1>2. Lost' <=> Lost
  BY <1>1 DEF Lost
<1>3. CASE failed
  <2>1. Q' = Q /\ Lost
    BY <1>3 DEF Publish, Q, CInv, FailedIsUnconfirmed, Lost
  <2>2. /\ FailedIsUnconfirmed' /\ OneAtATime' /\ QueuedBegan' /\ RunningBegan'
        /\ ~Publishing'
    BY <1>1, <2>1, RequestMoves DEF TypeOK
  <2> QED
    BY <1>2, <2>1, <2>2, LostSuffices DEF WriterIsLast, Publishing
<1>4. CASE ~failed
  <2>1. request[r].kind # "none" /\ Follow(r) = last
    BY DEF Publish, CInv, WriterIsLast
  <2>2. Q' = Append(Q, r)
    <3>1. request[r].kind \in Bound("social")
      BY <2>1 DEF Bound, TypeOK, RequestsOK
    <3> QED
      BY <1>4, <3>1 DEF Publish, Routed, Q, Consumers
  <2>3. /\ Len(Q') = Len(Q) + 1
        /\ Q'[Len(Q')] = r
        /\ \A i \in 1..Len(Q) : Q'[i] = Q[i]
        /\ Q' # <<>>
        /\ \A i \in 1..Len(Q') : i \in 1..Len(Q) \/ Q'[i] = r
        /\ Len(Q) \in Nat
    BY <2>2, QueueOfRequests, AppendProperties, EmptySeq DEF TypeOK
  <2>4. /\ \A q \in Requests : request'[q].kind = request[q].kind
        /\ Running' \subseteq Running
        /\ \A q \in Requests \ {r} : request'[q].step = request[q].step
        /\ request'[r].step = "done"
    BY <1>1, GoKeeps DEF TypeOK, Running
  <2>5. ~Publishing'
    BY <1>1, <2>4 DEF Publishing, CInv, OneAtATime, Running
  <2>6. FailedIsUnconfirmed' /\ OneAtATime' /\ RunningBegan' /\ WriterIsLast'
    BY <1>1, <2>4, <2>5 DEF CInv, FailedIsUnconfirmed, OneAtATime, RunningBegan, Running,
       WriterIsLast, Publishing
  <2>7. QueuedBegan'
    <3> SUFFICES ASSUME NEW i \in 1..Len(Q') PROVE request'[Q'[i]].kind # "none"
      BY DEF QueuedBegan
    <3>1. CASE i \in 1..Len(Q)
      BY <2>3, <2>4, <3>1, QueueOfRequests DEF CInv, QueuedBegan, TypeOK
    <3>2. CASE Q'[i] = r
      BY <2>1, <2>4, <3>2
    <3> QED
      BY <2>3, <3>1, <3>2
  <2>8. EndIsLast'
    BY <1>1, <2>1, <2>3, <2>4 DEF EndIsLast, Follow
  <2>9. AppliedIsThere'
    <3>1. consumer["social"].step = "ack" => Len(Q) > 0
      BY <2>3, QueueOfRequests DEF TypeOK, BrokerOK, Consumers, Idle, Q
    <3>2. consumer'["social"].step = "ack" => Len(Q') # 1
      BY <1>1, <2>3, <3>1
    <3> QED
      BY <3>2 DEF AppliedIsThere
  <2> QED
    BY <2>6, <2>7, <2>8, <2>9 DEF CInv
<1> QED
  BY <1>3, <1>4

LEMMA CPublishUnconfirmed ==
    ASSUME TypeOK, CInv, NEW r \in Requests, PublishUnconfirmed(r)
    PROVE  CInv'
<1>1. /\ r \in Running
      /\ request' = Go(r, "done", TRUE)
      /\ queue' = Routed(r) \/ queue' = queue
      /\ unconfirmed' = unconfirmed \cup {r}
      /\ request[r].step = "publish"
  BY DEF PublishUnconfirmed, Running
<1>2. /\ \A q \in Requests : request'[q].kind = request[q].kind
      /\ Running' \subseteq Running
      /\ \A q \in Requests \ {r} : request'[q].step = request[q].step
      /\ request'[r].step = "done"
  BY <1>1, GoKeeps DEF TypeOK, Running
<1>3. Lost' /\ FailedIsUnconfirmed'
  BY <1>1 DEF Lost, FailedIsUnconfirmed
<1>4. OneAtATime' /\ RunningBegan'
  BY <1>2 DEF CInv, OneAtATime, RunningBegan, Running
<1>5. WriterIsLast'
  BY <1>1, <1>2 DEF CInv, OneAtATime, Running, WriterIsLast
<1>6. \A i \in 1..Len(Q') : (i \in 1..Len(Q) /\ Q'[i] = Q[i]) \/ Q'[i] = r
  <2>1. Q' = Q \/ Q' = Append(Q, r)
    BY <1>1 DEF Q, Routed, Consumers
  <2> QED
    BY <2>1, QueueOfRequests, AppendProperties DEF TypeOK
<1>7. QueuedBegan'
  <2> SUFFICES ASSUME NEW i \in 1..Len(Q') PROVE request'[Q'[i]].kind # "none"
    BY DEF QueuedBegan
  <2>1. CASE i \in 1..Len(Q) /\ Q'[i] = Q[i]
    BY <1>2, <2>1, QueueOfRequests DEF CInv, QueuedBegan, TypeOK
  <2>2. CASE Q'[i] = r
    BY <1>1, <1>2, <2>2 DEF CInv, RunningBegan
  <2> QED
    BY <1>6, <2>1, <2>2
<1> QED
  BY <1>3, <1>4, <1>5, <1>7, LostSuffices

\* An event that was to be published is lost; otherwise nothing was promised.
LEMMA CEnds ==
    ASSUME TypeOK, CInv, Restart \/ \E r \in Requests : RequestFails(r)
    PROVE  CInv'
<1>1. /\ \A q \in Requests : request'[q].kind = request[q].kind
      /\ Running' = {} /\ ~Publishing'
      /\ UNCHANGED <<following, last, queue, consumer, dead>>
      /\ FailedIsUnconfirmed'
      /\ Lost' \/ (~Lost /\ ~Publishing)
  <2>1. CASE Restart
    BY <2>1
    DEF Restart, TypeOK, RequestsOK, Running, Publishing, broker, FailedIsUnconfirmed, Lost
  <2>2. CASE \E r \in Requests : RequestFails(r)
    <3> PICK r \in Requests : RequestFails(r)
      BY <2>2
    <3>1. /\ request' = Go(r, "done", FALSE)
          /\ UNCHANGED <<following, last, failed, queue, consumer, dead>>
          /\ unconfirmed \subseteq unconfirmed'
          /\ request[r].step = "publish" => unconfirmed' # {}
          /\ r \in Running
      BY DEF RequestFails, broker
    <3>2. /\ \A q \in Requests : request'[q].kind = request[q].kind
          /\ \A q \in Requests \ {r} : request'[q].step = request[q].step
          /\ request'[r].step = "done"
      BY <3>1, GoKeeps DEF TypeOK
    <3>3. Running = {r}
      BY <3>1 DEF CInv, OneAtATime
    <3>4. Running' = {} /\ ~Publishing' /\ (Publishing => request[r].step = "publish")
      BY <3>2, <3>3 DEF Running, Publishing
    <3> QED
      BY <3>1, <3>2, <3>4 DEF CInv, FailedIsUnconfirmed, Lost
  <2> QED
    BY <2>1, <2>2
<1>2. FailedIsUnconfirmed' /\ OneAtATime' /\ RunningBegan' /\ WriterIsLast'
  BY <1>1 DEF FailedIsUnconfirmed, OneAtATime, RunningBegan, WriterIsLast, Publishing
<1>3. Q' = Q
  BY <1>1 DEF Q
<1>4. QueuedBegan'
  BY <1>1, <1>3, QueueOfRequests DEF CInv, QueuedBegan, TypeOK
<1>6. /\ \A q \in Requests : Follow(q)' = Follow(q)
      /\ Q # <<>> => Q[Len(Q)] \in Requests
      /\ Len(Q) = 1 => Q[1] \in Requests
  BY <1>1, QueueOfRequests DEF Follow, TypeOK
<1>7. EndIsLast'
  BY <1>1, <1>3, <1>6 DEF CInv, EndIsLast
<1>8. AppliedIsThere'
  BY <1>1, <1>3, <1>6 DEF CInv, AppliedIsThere
<1> QED
  BY <1>2, <1>4, <1>7, <1>8 DEF CInv

LEMMA CApply ==
    ASSUME TypeOK, CInv, ApplyRelation
    PROVE  CInv'
<1>1. /\ UNCHANGED <<request, failed, last, unconfirmed, queue, dead>>
      /\ following' = Follow(Head(Q))
  BY DEF ApplyRelation, api, Follow, Q
<1>2. Q # <<>>
  BY DEF ApplyRelation, Step, TypeOK, BrokerOK, Idle, Consumers, Q
<1>3. Q' = Q /\ (Lost' <=> Lost) /\ Publishing' = Publishing /\ Running' = Running
  BY <1>1 DEF Q, Lost, Publishing, Running
<1>4. FailedIsUnconfirmed' /\ OneAtATime' /\ RunningBegan' /\ WriterIsLast' /\ QueuedBegan'
  BY <1>1, <1>3 DEF CInv, FailedIsUnconfirmed, OneAtATime, RunningBegan, WriterIsLast,
     QueuedBegan, Follow
<1>5. EndIsLast'
  BY <1>1, <1>2, <1>3 DEF CInv, EndIsLast, Follow
<1>6. Head(Q) = Q[1]
  BY <1>2, QueueOfRequests DEF TypeOK
<1>7. AppliedIsThere'
  BY <1>1, <1>3, <1>6 DEF AppliedIsThere, Follow
<1> QED
  BY <1>4, <1>5, <1>7 DEF CInv

\* The head of the worker's queue goes.
LEMMA TailKeepsBegan ==
    ASSUME TypeOK, CInv, UNCHANGED request, Q # <<>>, Q' = Tail(Q)
    PROVE  /\ QueuedBegan'
           /\ Q' # <<>> => Q'[Len(Q')] = Q[Len(Q)]
           /\ Q' = <<>> => Len(Q) = 1
<1>1. /\ Len(Q') = Len(Q) - 1
      /\ \A i \in 1..Len(Q') : Q'[i] = Q[i + 1] /\ i + 1 \in 1..Len(Q)
      /\ Len(Q) \in Nat \ {0}
      /\ Q' \in Seq(Requests)
  BY QueueOfRequests DEF TypeOK
<1>2. QueuedBegan'
  BY <1>1 DEF CInv, QueuedBegan
<1>3. ASSUME Q' # <<>> PROVE Q'[Len(Q')] = Q[Len(Q)]
  <2>1. Len(Q') \in 1..Len(Q')
    BY <1>1, <1>3, EmptySeq
  <2>2. Q'[Len(Q')] = Q[Len(Q') + 1] /\ Len(Q') + 1 = Len(Q)
    BY <1>1, <2>1
  <2> QED
    BY <2>2
<1>4. ASSUME Q' = <<>> PROVE Len(Q) = 1
  <2>1. Len(Q') = Len(<<>>)
    BY <1>4
  <2>2. Len(<<>>) = 0
    BY EmptySeq
  <2> QED
    BY <1>1, <2>1, <2>2
<1> QED
  BY <1>2, <1>3, <1>4

LEMMA CAck ==
    ASSUME TypeOK, CInv, Ack("social")
    PROVE  CInv'
<1>1. /\ UNCHANGED <<request, failed, last, unconfirmed, following, dead>>
      /\ consumer["social"].step = "ack"
      /\ consumer'["social"].step # "ack"
  BY DEF Ack, api, Step, TypeOK, BrokerOK, Idle, Consumers
<1>2. Q # <<>> /\ Q' = Tail(Q)
  BY <1>1 DEF Ack, TypeOK, BrokerOK, Idle, Consumers, Q
<1>3. (Lost' <=> Lost) /\ Publishing' = Publishing /\ Running' = Running
  BY <1>1 DEF Lost, Publishing, Running
<1>4. FailedIsUnconfirmed' /\ OneAtATime' /\ RunningBegan' /\ WriterIsLast' /\ QueuedBegan'
  BY <1>1, <1>2, <1>3, TailKeepsBegan DEF CInv, FailedIsUnconfirmed, OneAtATime, RunningBegan,
     WriterIsLast, Follow
<1>5. ASSUME ~Lost, ~Publishing, Q' = <<>> PROVE following = last
  <2>1. Len(Q) = 1
    BY <1>1, <1>2, <1>5, TailKeepsBegan
  <2> QED
    BY <1>1, <1>2, <1>5, <2>1 DEF CInv, EndIsLast, AppliedIsThere
<1>6. ASSUME ~Lost, ~Publishing, Q' # <<>> PROVE Follow(Q[Len(Q)])' = last
  BY <1>1, <1>2, <1>6 DEF CInv, EndIsLast, Follow
<1>7. ASSUME ~Lost, ~Publishing, Q' # <<>> PROVE (Follow(Q[Len(Q)]) = last)'
  <2>1. Q'[Len(Q')] = Q[Len(Q)]
    BY <1>1, <1>2, <1>7, TailKeepsBegan
  <2> QED
    BY <1>1, <1>6, <1>7, <2>1 DEF Follow
<1>8. EndIsLast'
  BY <1>1, <1>3, <1>5, <1>7 DEF EndIsLast
<1> QED
  BY <1>1, <1>4, <1>8 DEF CInv, AppliedIsThere

\* Retried, or dead-lettered and lost.
LEMMA CFail ==
    ASSUME TypeOK, CInv, Fail("social")
    PROVE  CInv'
<1>1. /\ UNCHANGED <<request, failed, last, unconfirmed, following>>
      /\ consumer'["social"].step # "ack"
      /\ consumer["social"] # Idle
  BY DEF Fail, api, TypeOK, BrokerOK, Idle, Consumers
<1>2. CASE MayRetry("social")
  <2>1. Q' = Q /\ dead' = dead
    BY <1>2 DEF Fail, Q
  <2> QED
    BY <1>1, <2>1, Aside
<1>3. CASE ~MayRetry("social")
  <2>0. /\ queue' = [queue EXCEPT !["social"] = Tail(@)]
        /\ dead' = [dead EXCEPT !["social"] = @ \cup {Head(queue["social"])}]
        /\ "social" \in DOMAIN queue /\ "social" \in DOMAIN dead
        /\ queue["social"] # <<>>
    BY <1>1, <1>3 DEF Fail, TypeOK, BrokerOK, Consumers
  <2>1. Q # <<>> /\ Q' = Tail(Q) /\ Lost'
    BY <2>0 DEF Q, Lost
  <2>2. Running' = Running
    BY <1>1 DEF Running
  <2>3. FailedIsUnconfirmed' /\ OneAtATime' /\ RunningBegan' /\ WriterIsLast' /\ QueuedBegan'
    BY <1>1, <2>1, <2>2, TailKeepsBegan DEF CInv, FailedIsUnconfirmed, OneAtATime, RunningBegan,
       WriterIsLast, Follow
  <2> QED
    BY <2>1, <2>3, LostSuffices
<1> QED
  BY <1>2, <1>3

LEMMA CStep ==
    ASSUME TypeOK, CInv, MaxConcurrent = 1, [Next]_vars
    PROVE  CInv'
<1>1. CASE \E r \in Requests : \/ \E kind \in {"follow", "unfollow"} : Start(r, kind)
                              \/ Serve(r)
                              \/ PublishUnconfirmed(r)
  BY <1>1, CStart, CCheck, CWrite, CPublish, CPublishUnconfirmed DEF Serve
<1>2. ASSUME NEW c \in Consumers, Consume(c) \/ Fail(c) \/ Disconnect(c)
      PROVE  CInv'
  <2>1. CASE Deliver(c) \/ Disconnect(c)
    BY <2>1, Aside
    DEF Deliver, Disconnect, Turn, Returned, TypeOK, BrokerOK, api, Q, Consumers, Idle
  <2>2. CASE c = "social" /\ (Ack(c) \/ Fail(c))
    BY <2>2, CAck, CFail
  <2>3. CASE c = "notification" /\ (Ack(c) \/ Fail(c))
    <3>1. UNCHANGED <<request, following, last, failed, unconfirmed>>
      BY <2>3 DEF Ack, Fail, api
    <3>2. Q' = Q /\ dead'["social"] = dead["social"] /\ consumer'["social"] = consumer["social"]
      BY <2>3 DEF Ack, Fail, TypeOK, BrokerOK, Q, Consumers
    <3> QED
      BY <3>1, <3>2, Aside
  <2> QED
    BY <1>2, <2>1, <2>2, <2>3 DEF Consume, Consumers
<1>3. CASE ApplyRelation
  BY <1>3, CApply
<1>4. CASE InsertRow \/ Push
  BY <1>4, Aside DEF InsertRow, Push, Turn, TypeOK, BrokerOK, api, Q, Consumers
<1>5. CASE Restart \/ \E r \in Requests : RequestFails(r)
  BY <1>5, CEnds
<1>6. CASE UNCHANGED vars
  BY <1>6, Aside DEF vars, api, broker, Q
<1> QED
  BY <1>1, <1>2, <1>3, <1>4, <1>5, <1>6 DEF Next

\* With one request of the pair at a time, the relation is what the last one
\* made it once all events are consumed, if none was lost.
THEOREM Converges ==
    ASSUME MaxConcurrent = 1
    PROVE  Spec => []RelationConverges
<1>1. TypeOK /\ CInv /\ [Next]_vars => CInv'
  BY CStep
<1>2. CInv => RelationConverges
  BY DEF CInv, EndIsLast, RelationConverges, Quiet, Publishing, Running, Q, Lost
<1> QED
  BY InitCInv, TypeCorrect, <1>1, <1>2, PTL DEF Spec
=============================================================================
