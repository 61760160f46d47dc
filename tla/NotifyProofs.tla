---------------------------- MODULE NotifyProofs ----------------------------
(***************************************************************************)
(* The hub's lock: Push never sends on a channel that a leaving stream has *)
(* closed.  And its promise: a stream is given, will be given, or may miss *)
(* every notification that was broadcast.                                  *)
(***************************************************************************)
EXTENDS Notify, FiniteSetTheorems, SequenceTheorems, TLAPS

\* A queue of notifications, and channels of them.
Typed ==
    /\ sent \in SUBSET Notices
    /\ queue \in Seq(Notices)
    /\ chan \in [Streams -> [holds : Seq(Notices), closed : BOOLEAN]]
    /\ hand \in [Streams -> Notices \cup {None}]
    /\ handler \in [Streams -> {"off", "open", "writing", "leaving", "gone"}]
    /\ got \in [Streams -> SUBSET Notices]
    /\ excused \in [Streams -> SUBSET Notices]
    /\ \A s \in Streams : handler[s] = "writing" => hand[s] \in Notices

Pushing ==
    /\ push \in Notices \cup {None}
    /\ bridge \in {"pushing", "breaking"} <=> push # None
    /\ push = None => todo = {}

\* What Push has still to come to is in the hub, and a channel in the hub is
\* open.
Open ==
    /\ todo \subseteq clients
    /\ clients \subseteq Streams
    /\ \A s \in clients : ~ chan[s].closed /\ handler[s] \in {"open", "writing", "leaving"}
    /\ \A s \in Streams : chan[s].closed => handler[s] = "gone"

HubInv == Typed /\ Pushing /\ Open

LEMMA InitHubInv == Init => HubInv /\ NoPanic
<1> SUFFICES ASSUME Init PROVE HubInv /\ NoPanic
  OBVIOUS
<1>1. <<>> \in Seq(Notices)
  BY EmptySeq
<1>2. Typed
  BY <1>1 DEF Init, Typed
<1>3. Pushing
  BY DEF Init, Pushing
<1>4. Open /\ NoPanic
  BY DEF Init, Open, NoPanic
<1> QED
  BY <1>2, <1>3, <1>4 DEF HubInv

\* Losing what is queued keeps the type.
LEMMA LoseTyped ==
    ASSUME Typed, NEW lost \in SUBSET Notices, Lose(lost)
    PROVE  excused' \in [Streams -> SUBSET Notices]
  BY DEF Typed, Lose

LEMMA QueueInNotices ==
    ASSUME Typed
    PROVE  ToSet(queue) \in SUBSET Notices
  BY DEF Typed, ToSet

LEMMA TypedStep == HubInv /\ [Next]_vars => Typed'
<1> SUFFICES ASSUME HubInv, [Next]_vars PROVE Typed'
  OBVIOUS
<1> USE DEF HubInv
<1>0. CASE UNCHANGED vars
  BY <1>0 DEF Typed, vars, way, hub, ends, past
<1>1. ASSUME NEW n \in Notices, Broadcast(n) PROVE Typed'
  <2>0. queue \in Seq(Notices) /\ Append(queue, n) \in Seq(Notices)
    BY AppendProperties DEF Typed
  <2>1. queue' \in Seq(Notices)
    BY <1>1, <2>0 DEF Broadcast
  <2>2. excused' \in [Streams -> SUBSET Notices]
    BY <1>1, LoseTyped DEF Broadcast, Typed
  <2> QED
    BY <1>1, <2>1, <2>2 DEF Broadcast, Typed, hub, ends
<1>2. CASE BridgeUp \/ Pushed \/ Signal \/ CloseHub \/ Exit
  BY <1>2 DEF BridgeUp, Pushed, Signal, CloseHub, Exit, Typed, way, hub, ends, past
<1>3. CASE BridgeLoses \/ BridgeEnds
  <2>1. excused' \in [Streams -> SUBSET Notices] /\ queue' = <<>>
    BY <1>3, LoseTyped, QueueInNotices DEF BridgeLoses, BridgeEnds, QueueGone
  <2>2. <<>> \in Seq(Notices)
    BY EmptySeq
  <2> QED
    BY <1>3, <2>1, <2>2 DEF BridgeLoses, BridgeEnds, Typed, hub, ends
<1>4. CASE Take
  <2>1. queue' \in Seq(Notices)
    BY <1>4, HeadTailProperties DEF Take, Typed
  <2> QED
    BY <1>4, <2>1 DEF Take, Typed, ends, past
<1>5. ASSUME NEW s \in Streams, PushTo(s) PROVE Typed'
  <2>1. push \in Notices
    BY <1>5 DEF PushTo, Pushing
  <2>2. Append(chan[s].holds, push) \in Seq(Notices)
    BY <2>1, AppendProperties DEF Typed
  <2>3. CASE chan' = [chan EXCEPT ![s].holds = Append(@, push)] /\ UNCHANGED excused
    BY <1>5, <2>2, <2>3 DEF PushTo, Typed, way, ends
  <2>4. CASE UNCHANGED <<chan, excused>>
    BY <1>5, <2>4 DEF PushTo, Typed, way, ends
  <2>5. CASE UNCHANGED chan /\ excused' = [excused EXCEPT ![s] = @ \cup {push}]
    BY <1>5, <2>1, <2>5 DEF PushTo, Typed, way, ends
  <2> QED
    BY <1>5, <2>3, <2>4, <2>5 DEF PushTo, Offer
<1>6. ASSUME NEW s \in Streams, Receive(s) PROVE Typed'
  <2>1. Tail(chan[s].holds) \in Seq(Notices) /\ Head(chan[s].holds) \in Notices
    BY <1>6, HeadTailProperties DEF Receive, Typed
  <2> QED
    BY <1>6, <2>1 DEF Receive, Typed, way, past
<1>7. ASSUME NEW s \in Streams, Written(s) PROVE Typed'
  <2>2. /\ got' \in [Streams -> SUBSET Notices]
        /\ hand' \in [Streams -> Notices \cup {None}]
        /\ handler' \in [Streams -> {"off", "open", "writing", "leaving", "gone"}]
    BY <1>7 DEF Written, Typed
  <2> QED
    BY <1>7, <2>2 DEF Written, Typed, way, hub
<1>8. ASSUME NEW s \in Streams, Unsubscribe(s) PROVE Typed'
  <2>1. [holds |-> <<>>, closed |-> TRUE] \in [holds : Seq(Notices), closed : BOOLEAN]
    BY EmptySeq
  <2> DEFINE c == [holds |-> <<>>, closed |-> TRUE]
  <2> HIDE DEF c
  <2>2. [chan EXCEPT ![s] = c] \in [Streams -> [holds : Seq(Notices), closed : BOOLEAN]]
    BY <2>1 DEF Typed, c
  <2>3. chan' \in [Streams -> [holds : Seq(Notices), closed : BOOLEAN]]
    BY <1>8, <2>2 DEF Unsubscribe, c
  <2> QED
    BY <1>8, <2>3 DEF Unsubscribe, Typed, way
<1>9. ASSUME NEW s \in Streams, Subscribe(s) \/ Cut(s) \/ Leave(s) PROVE Typed'
  <2>1. sent \in SUBSET Notices
    BY DEF Typed
  <2>2. CASE Subscribe(s)
    BY <2>1, <2>2 DEF Subscribe, Typed, way
  <2>3. CASE Cut(s)
    BY <2>3 DEF Cut, Typed, way, hub
  <2>4. CASE Leave(s)
    BY <2>4 DEF Leave, Typed, way, hub, past
  <2> QED
    BY <1>9, <2>2, <2>3, <2>4
<1>10. CASE Shutdown
  BY <1>10 DEF Shutdown, Typed, way, hub
<1> QED
  BY <1>0, <1>1, <1>2, <1>3, <1>4, <1>5, <1>6, <1>7, <1>8, <1>9, <1>10 DEF Next, Process

LEMMA PushingStep == HubInv /\ [Next]_vars => Pushing'
<1> SUFFICES ASSUME HubInv, [Next]_vars PROVE Pushing'
  OBVIOUS
<1> USE DEF HubInv, Pushing
<1>1. CASE Take
  <2>1. Head(queue) \in Notices
    BY <1>1, HeadTailProperties DEF Take, Typed
  <2> QED
    BY <1>1, <2>1, NoneAssumption DEF Take
<1>2. CASE Pushed \/ BridgeUp \/ BridgeLoses \/ BridgeEnds
  BY <1>2 DEF Pushed, BridgeUp, BridgeLoses, BridgeEnds, hub
<1>3. ASSUME NEW s \in Streams, PushTo(s) \/ Subscribe(s) \/ Unsubscribe(s) PROVE Pushing'
  BY <1>3 DEF PushTo, Subscribe, Unsubscribe, way
<1>4. CASE UNCHANGED <<bridge, push, todo>>
  BY <1>4
<1> QED
  BY <1>1, <1>2, <1>3, <1>4
  DEF Next, Process, Broadcast, Signal, Cut, Written, Receive, Leave, CloseHub, Shutdown, Exit,
      vars, way, hub

LEMMA OpenStep == HubInv /\ [Next]_vars => Open'
<1> SUFFICES ASSUME HubInv, [Next]_vars PROVE Open'
  OBVIOUS
<1> USE DEF HubInv, Open
<1>1. CASE Take
  BY <1>1 DEF Take, ends
<1>2. ASSUME NEW s \in Streams, PushTo(s) PROVE Open'
  BY <1>2 DEF PushTo, Offer, Typed, ends
<1>3. ASSUME NEW s \in Streams, Subscribe(s) PROVE Open'
  BY <1>3 DEF Subscribe, Typed
<1>4. ASSUME NEW s \in Streams, Receive(s) PROVE Open'
  BY <1>4 DEF Receive, Typed
<1>5. ASSUME NEW s \in Streams, Written(s) \/ Leave(s) PROVE Open'
  BY <1>5 DEF Written, Leave, Typed, hub
<1>6. ASSUME NEW s \in Streams, Unsubscribe(s) PROVE Open'
  BY <1>6 DEF Unsubscribe, Typed, Pushing, Locked
<1>7. CASE UNCHANGED <<hub, handler>>
  BY <1>7 DEF hub
<1> QED
  BY <1>1, <1>2, <1>3, <1>4, <1>5, <1>6, <1>7
  DEF Next, Process, Broadcast, BridgeUp, BridgeLoses, Pushed, BridgeEnds, Signal, Cut, CloseHub,
      Shutdown, Exit, vars, ends

LEMMA NoPanicStep == HubInv /\ NoPanic /\ [Next]_vars => NoPanic'
<1> SUFFICES ASSUME HubInv, NoPanic, [Next]_vars PROVE NoPanic'
  OBVIOUS
<1>1. ASSUME NEW s \in Streams, PushTo(s) PROVE NoPanic'
  BY <1>1 DEF PushTo, HubInv, Open, NoPanic
<1>2. CASE Signal \/ Shutdown \/ Exit
  BY <1>2 DEF Signal, Shutdown, Exit, NoPanic
<1>3. CASE UNCHANGED server
  BY <1>3 DEF NoPanic
<1> QED
  BY <1>1, <1>2, <1>3
  DEF Next, Process, Broadcast, BridgeUp, BridgeLoses, Take, Pushed, BridgeEnds, Subscribe, Cut,
      Receive, Written, Leave, Unsubscribe, CloseHub, vars, life


-----------------------------------------------------------------------------
\* What a stream holds of a notification, and that it may miss it.
InChannel(s, n) == n \in ToSet(chan[s].holds)
Holds(s, n) == InChannel(s, n) \/ hand[s] = n \/ n \in got[s]
Settled(s, n) == Holds(s, n) \/ n \in excused[s]

\* The streams that are owed something.
Owed == clients \ cut

\* A handler holds a notification while it writes it, and a stream begins empty.
Handlers ==
    \A s \in Streams :
        /\ handler[s] # "writing" => hand[s] = None
        /\ handler[s] = "off" => chan[s].holds = <<>> /\ hand[s] = None /\ got[s] = {}

\* What is under way or remembered was broadcast.
Broadcasted ==
    /\ seen \subseteq sent
    /\ ToSet(queue) \subseteq sent
    /\ push # None => push \in sent

\* What the bridge remembers, and what Push is done with, is settled.
Remembered ==
    \A s \in Owed :
        /\ \A n \in seen : Settled(s, n)
        /\ push # None /\ s \notin todo => Settled(s, push)

\* All else waits in the queue or is in Push.
Due(s, n) == n \in ToSet(queue) \/ (n = push /\ s \in todo)
NoneForgotten == \A s \in Owed, n \in sent : Settled(s, n) \/ Due(s, n)

\* A stream holds a notification once, and not before its Push came to it.
Once(s, n) ==
    /\ \A i, j \in DOMAIN chan[s].holds : chan[s].holds[i] = n /\ chan[s].holds[j] = n => i = j
    /\ InChannel(s, n) => hand[s] # n /\ n \notin got[s]
    /\ hand[s] = n => n \notin got[s]
    /\ n \notin seen /\ (n # push \/ s \in todo) => ~ Holds(s, n)

NoneTwice ==
    /\ push # None /\ push \notin again => push \notin seen
    /\ \A s \in Owed, n \in Notices \ again : Once(s, n)

Give == Handlers /\ Broadcasted /\ Remembered /\ NoneForgotten /\ NoneTwice
GiveInv == HubInv /\ Give

\* What one end of a queue does to what is in it.
LEMMA ToSetAppend ==
    ASSUME NEW S, NEW q \in Seq(S), NEW e \in S
    PROVE  /\ ToSet(Append(q, e)) = ToSet(q) \cup {e}
           /\ \A i \in DOMAIN Append(q, e) :
                 Append(q, e)[i] = IF i = Len(q) + 1 THEN e ELSE q[i]
           /\ \A i \in DOMAIN Append(q, e) : i = Len(q) + 1 \/ i \in DOMAIN q
<1>1. DOMAIN q = 1..Len(q) /\ Len(q) \in Nat /\ DOMAIN Append(q, e) = 1..(Len(q) + 1)
  OBVIOUS
<1>2. \A i \in DOMAIN Append(q, e) : Append(q, e)[i] = IF i = Len(q) + 1 THEN e ELSE q[i]
  OBVIOUS
<1>3. ToSet(Append(q, e)) \subseteq ToSet(q) \cup {e}
  BY <1>1, <1>2 DEF ToSet
<1>4. \A i \in DOMAIN q : q[i] = Append(q, e)[i] /\ i \in DOMAIN Append(q, e)
  BY <1>1, <1>2
<1>5. ToSet(q) \subseteq ToSet(Append(q, e))
  BY <1>4 DEF ToSet
<1>6. Len(q) + 1 \in DOMAIN Append(q, e) /\ Append(q, e)[Len(q) + 1] = e
  BY <1>1, <1>2
<1>7. e \in ToSet(Append(q, e))
  BY <1>6 DEF ToSet
<1> QED
  BY <1>1, <1>2, <1>3, <1>5, <1>7

LEMMA ToSetTail ==
    ASSUME NEW S, NEW q \in Seq(S), q # <<>>
    PROVE  /\ ToSet(q) = ToSet(Tail(q)) \cup {Head(q)}
           /\ \A i \in DOMAIN Tail(q) : i + 1 \in DOMAIN q /\ Tail(q)[i] = q[i + 1] /\ i \in Nat
           /\ 1 \in DOMAIN q /\ q[1] = Head(q)
<1>1. \A i \in DOMAIN q : i = 1 \/ (i - 1 \in DOMAIN Tail(q) /\ Tail(q)[i - 1] = q[i])
  OBVIOUS
<1>2. \A i \in DOMAIN Tail(q) : i + 1 \in DOMAIN q /\ Tail(q)[i] = q[i + 1] /\ i \in Nat
  OBVIOUS
<1>3. 1 \in DOMAIN q /\ q[1] = Head(q)
  OBVIOUS
<1>4. ToSet(q) \subseteq ToSet(Tail(q)) \cup {Head(q)}
  BY <1>1, <1>3 DEF ToSet
<1>5. ToSet(Tail(q)) \subseteq ToSet(q)
  BY <1>2 DEF ToSet
<1>6. Head(q) \in ToSet(q)
  BY <1>3 DEF ToSet
<1> QED
  BY <1>2, <1>3, <1>4, <1>5, <1>6

LEMMA ToSetEmpty == ToSet(<<>>) = {}
  BY DEF ToSet

\* What is lost is excused for all who are owed it.
LEMMA LoseExcuses ==
    ASSUME Typed, Open, NEW lost \in SUBSET Notices, Lose(lost)
    PROVE  \A s \in Owed : excused[s] \subseteq excused'[s] /\ lost \subseteq excused'[s]
  BY DEF Typed, Open, Lose, Owed

\* A step before which nobody new is owed anything, and after which a stream
\* holds what it held, or may miss it.
LEMMA SettledStays ==
    ASSUME NEW s, UNCHANGED <<chan, hand, got>>, excused[s] \subseteq excused'[s]
    PROVE  \A n : Settled(s, n) => Settled(s, n)'
  BY DEF Settled, Holds, InChannel

\* Once only looks at the stream, the bridge's memory and Push.
LEMMA OnceStays ==
    ASSUME NEW s, NEW n, Once(s, n), UNCHANGED <<chan, hand, got>>,
           n \notin seen' /\ (n # push' \/ s \in todo') => n \notin seen /\ (n # push \/ s \in todo)
    PROVE  Once(s, n)'
  BY DEF Once, Holds, InChannel

LEMMA GiveBroadcast ==
    ASSUME GiveInv, NEW n \in Notices, Broadcast(n)
    PROVE  Give'
<1> USE DEF GiveInv, HubInv, Give
<1>0. /\ UNCHANGED <<chan, hand, got, seen, push, todo, clients, cut, handler, again>>
      /\ sent' = sent \cup {n} /\ n \in sent'
  BY DEF Broadcast, hub, ends
<1>1. Handlers'
  BY <1>0 DEF Handlers
<1>2. CASE bridge \in {"up", "pushing"}
  <2>0. queue \in Seq(Notices)
    BY DEF Typed
  <2>1. UNCHANGED excused /\ ToSet(queue') = ToSet(queue) \cup {n}
    <3>1. UNCHANGED excused /\ queue' = Append(queue, n)
      BY <1>2 DEF Broadcast
    <3> QED
      BY <2>0, <3>1, ToSetAppend
  <2>2. Broadcasted'
    BY <1>0, <2>1 DEF Broadcasted
  <2>3. Remembered'
    BY <1>0, <2>1, SettledStays DEF Remembered, Owed
  <2>4. NoneForgotten'
    BY <1>0, <2>1, SettledStays DEF NoneForgotten, Owed, Due
  <2> QED
    BY <1>0, <1>1, <2>2, <2>3, <2>4, OnceStays DEF NoneTwice, Owed
<1>3. CASE bridge \notin {"up", "pushing"}
  <2>1. UNCHANGED queue /\ \A s \in Owed : excused[s] \subseteq excused'[s] /\ n \in excused'[s]
    BY <1>3, LoseExcuses DEF Broadcast
  <2>2. Broadcasted'
    BY <1>0, <2>1 DEF Broadcasted
  <2>3. Remembered'
    BY <1>0, <2>1, SettledStays DEF Remembered, Owed
  <2>4. NoneForgotten'
    BY <1>0, <2>1, SettledStays DEF NoneForgotten, Owed, Due, Settled
  <2> QED
    BY <1>0, <1>1, <2>2, <2>3, <2>4, OnceStays DEF NoneTwice, Owed
<1> QED
  BY <1>2, <1>3

LEMMA GiveBridgeUp ==
    ASSUME GiveInv, BridgeUp
    PROVE  Give'
<1> USE DEF GiveInv, HubInv, Give
<1>0. /\ UNCHANGED <<chan, hand, got, queue, push, todo, clients, cut, handler, sent, excused>>
      /\ seen' = {} /\ again' = again \cup seen /\ push = None
  BY DEF BridgeUp, hub, ends, past, Pushing
<1>1. Handlers' /\ Broadcasted'
  BY <1>0 DEF Handlers, Broadcasted
<1>2. Remembered' /\ NoneForgotten'
  BY <1>0, SettledStays DEF Remembered, NoneForgotten, Owed, Due
<1>3. NoneTwice'
  BY <1>0, OnceStays DEF NoneTwice, Owed
<1> QED
  BY <1>1, <1>2, <1>3

\* The queue goes; nothing else that matters here changes.
LEMMA GiveLoses ==
    ASSUME GiveInv, BridgeLoses \/ BridgeEnds
    PROVE  Give'
<1> USE DEF GiveInv, HubInv, Give
<1>0. /\ UNCHANGED <<chan, hand, got, seen, push, todo, clients, cut, handler, sent, again>>
      /\ ToSet(queue') = {}
      /\ \A s \in Owed : excused[s] \subseteq excused'[s] /\ ToSet(queue) \subseteq excused'[s]
  BY LoseExcuses, QueueInNotices, ToSetEmpty DEF BridgeLoses, BridgeEnds, QueueGone, hub, ends
<1>1. Handlers' /\ Broadcasted'
  BY <1>0 DEF Handlers, Broadcasted
<1>2. Remembered'
  BY <1>0, SettledStays DEF Remembered, Owed
<1>3. NoneForgotten'
  BY <1>0, SettledStays DEF NoneForgotten, Owed, Due, Settled
<1>4. NoneTwice'
  BY <1>0, OnceStays DEF NoneTwice, Owed
<1> QED
  BY <1>1, <1>2, <1>3, <1>4

LEMMA GiveTake ==
    ASSUME GiveInv, Take
    PROVE  Give'
<1> USE DEF GiveInv, HubInv, Give
<1> DEFINE n == Head(queue)
<1>0. /\ UNCHANGED <<chan, hand, got, seen, clients, cut, handler, sent, excused>>
      /\ push = None /\ todo = {}
      /\ ToSet(queue) = ToSet(queue') \cup {n} /\ n \in Notices /\ n # None
  <2>1. queue \in Seq(Notices) /\ queue # <<>> /\ queue' = Tail(queue)
    BY DEF Take, Typed
  <2>2. n \in Notices /\ n # None
    BY <2>1, HeadTailProperties, NoneAssumption
  <2> QED
    BY <2>1, <2>2, ToSetTail DEF Take, ends, past, Pushing
<1> HIDE DEF n
<1>1. Handlers'
  BY <1>0 DEF Handlers
<1>2. CASE n \in seen /\ UNCHANGED <<push, todo, again>>
  <2>1. Broadcasted'
    BY <1>0, <1>2 DEF Broadcasted
  <2>2. Remembered' /\ NoneForgotten'
    BY <1>0, <1>2, SettledStays DEF Remembered, NoneForgotten, Owed, Due
  <2>3. NoneTwice'
    BY <1>0, <1>2, OnceStays DEF NoneTwice, Owed
  <2> QED
    BY <1>1, <2>1, <2>2, <2>3
<1>3. CASE push' = n /\ todo' = clients /\ again' = IF n \in seen THEN again \cup {n} ELSE again
  <2>1. Broadcasted'
    BY <1>0, <1>3 DEF Broadcasted
  <2>2. Remembered' /\ NoneForgotten'
    BY <1>0, <1>3, SettledStays DEF Remembered, NoneForgotten, Owed, Due
  <2>3. NoneTwice'
    BY <1>0, <1>3, OnceStays, NoneAssumption DEF NoneTwice, Owed
  <2> QED
    BY <1>1, <2>1, <2>2, <2>3
<1> QED
  BY <1>2, <1>3 DEF Take, Known, n

LEMMA GivePushed ==
    ASSUME GiveInv, Pushed
    PROVE  Give'
<1> USE DEF GiveInv, HubInv, Give
<1>0. /\ UNCHANGED <<chan, hand, got, clients, cut, handler, sent, excused, queue, todo, again>>
      /\ seen' = seen \cup {push} /\ push' = None /\ push # None /\ todo = {}
  BY DEF Pushed, hub, ends, past, Pushing
<1>1. Handlers' /\ Broadcasted'
  BY <1>0 DEF Handlers, Broadcasted
<1>2. Remembered' /\ NoneForgotten'
  BY <1>0, SettledStays DEF Remembered, NoneForgotten, Owed, Due
<1>3. NoneTwice'
  BY <1>0, OnceStays DEF NoneTwice, Owed
<1> QED
  BY <1>1, <1>2, <1>3

\* Steps after which the same streams are owed what they were, but for those
\* that are owed nothing any more.
LEMMA GiveElsewhere ==
    ASSUME GiveInv, Handlers', UNCHANGED <<sent, queue, push, seen, again, todo>>,
           \A s \in Owed' : /\ s \in Owed
                            /\ chan'[s] = chan[s] /\ hand'[s] = hand[s] /\ got'[s] = got[s]
                            /\ excused'[s] = excused[s]
    PROVE  Give'
<1> USE DEF GiveInv, HubInv, Give
<1>1. \A s \in Owed' : \A n : /\ Settled(s, n)' = Settled(s, n)
                              /\ Due(s, n)' = Due(s, n)
                              /\ Once(s, n) => Once(s, n)'
  BY DEF Settled, Due, Once, Holds, InChannel
<1>2. Broadcasted'
  BY DEF Broadcasted
<1>3. Remembered' /\ NoneForgotten'
  BY <1>1 DEF Remembered, NoneForgotten
<1>4. NoneTwice'
  BY <1>1 DEF NoneTwice
<1> QED
  BY <1>2, <1>3, <1>4

LEMMA GivePushTo ==
    ASSUME GiveInv, NEW x \in Streams, PushTo(x)
    PROVE  Give'
<1> USE DEF GiveInv, HubInv, Give
<1>0. /\ UNCHANGED <<hand, got, clients, cut, handler, sent, queue, push, seen, again>>
      /\ x \in todo /\ todo' = todo \ {x} /\ x \in clients
      /\ push \in Notices /\ push # None
      /\ handler[x] \in {"open", "writing", "leaving"} /\ ~ chan[x].closed
  BY DEF PushTo, way, ends, Pushing, Open
<1>1. Broadcasted'
  BY <1>0 DEF Broadcasted
<1>2. \A s \in Streams \ {x} : chan'[s] = chan[s] /\ excused'[s] = excused[s]
  BY <1>0 DEF PushTo, Offer, Typed
<1>3. Handlers'
  BY <1>0, <1>2 DEF Handlers
<1>4. \A s \in Owed \ {x} : \A n : /\ Settled(s, n)' = Settled(s, n)
                                   /\ Once(s, n) => Once(s, n)'
  BY <1>0, <1>2 DEF Settled, Once, Holds, InChannel, Owed, Open
<1>7. ASSUME x \in Owed => \A n : Settled(x, n)' = (Settled(x, n) \/ n = push)
      PROVE  Remembered' /\ NoneForgotten'
  <2>1. Owed' = Owed
    BY <1>0 DEF Owed
  <2>2. ASSUME NEW s \in Owed, NEW n, Settled(s, n) PROVE Settled(s, n)'
    BY <1>4, <1>7, <2>2
  <2>3. x \in Owed => \A n : n = push => Settled(x, n)'
    BY <1>7
  <2>4. Remembered'
    <3>1. ASSUME NEW s \in Owed, s \notin todo', NEW n, n = push PROVE Settled(s, n)'
      BY <1>0, <2>2, <2>3, <3>1 DEF Remembered
    <3>2. ASSUME NEW s \in Owed, s \notin todo' PROVE Settled(s, push)'
      BY <1>0, <3>1, <3>2 DEF Settled, Holds, InChannel
    <3> QED
      BY <1>0, <2>1, <2>2, <3>2 DEF Remembered
  <2>5. ASSUME NEW s \in Owed, NEW n \in sent PROVE Settled(s, n)' \/ Due(s, n)'
    <3>1. Settled(s, n) \/ Due(s, n)
      BY DEF NoneForgotten
    <3>2. CASE s = x /\ n = push
      BY <2>3, <3>2
    <3>3. CASE (s # x \/ n # push) /\ Due(s, n)
      BY <1>0, <3>3 DEF Due
    <3>4. CASE Settled(s, n)
      BY <2>2, <3>4
    <3> QED
      BY <3>1, <3>2, <3>3, <3>4
  <2>6. NoneForgotten'
    BY <1>0, <2>1, <2>5 DEF NoneForgotten
  <2> QED
    BY <2>4, <2>6
<1>5. CASE chan' = [chan EXCEPT ![x].holds = Append(@, push)] /\ UNCHANGED excused
  <2>1. chan[x].holds \in Seq(Notices) /\ chan'[x].holds = Append(chan[x].holds, push)
    BY <1>5 DEF Typed
  <2>2. /\ ToSet(chan'[x].holds) = ToSet(chan[x].holds) \cup {push}
        /\ \A i \in DOMAIN chan'[x].holds :
              chan'[x].holds[i] = IF i = Len(chan[x].holds) + 1 THEN push ELSE chan[x].holds[i]
        /\ \A i \in DOMAIN chan'[x].holds : i = Len(chan[x].holds) + 1 \/ i \in DOMAIN chan[x].holds
    BY <1>0, <2>1, ToSetAppend
  <2>3. \A n : Settled(x, n)' = (Settled(x, n) \/ n = push)
    BY <1>0, <1>5, <2>2 DEF Settled, Holds, InChannel
  <2>4. Remembered' /\ NoneForgotten'
    BY <1>7, <2>3
  <2>5. ASSUME x \in Owed, NEW n \in Notices \ again PROVE Once(x, n)'
    <3>1. Once(x, n)
      BY <2>5 DEF NoneTwice
    <3>2. CASE n = push
      <4>1. ~ Holds(x, n)
        BY <1>0, <3>1, <3>2 DEF Once, NoneTwice
      <4>2. \A i \in DOMAIN chan[x].holds : chan[x].holds[i] # n
        BY <4>1 DEF Holds, InChannel, ToSet
      <4> QED
        BY <1>0, <3>2, <4>1, <4>2, <2>2 DEF Once, Holds, InChannel
    <3>3. CASE n # push
      BY <1>0, <2>2, <3>1, <3>3 DEF Once, Holds, InChannel
    <3> QED
      BY <3>2, <3>3
  <2>6. NoneTwice'
    BY <1>0, <1>4, <2>5 DEF NoneTwice, Owed
  <2> QED
    BY <1>1, <1>3, <2>4, <2>6
<1>6. CASE UNCHANGED chan /\ excused' = IF x \in cut THEN excused
                                        ELSE [excused EXCEPT ![x] = @ \cup {push}]
  <2>1. x \in Owed => \A n : Settled(x, n)' = (Settled(x, n) \/ n = push)
    BY <1>0, <1>6 DEF Settled, Holds, InChannel, Owed, Typed
  <2>2. Remembered' /\ NoneForgotten'
    BY <1>7, <2>1
  <2>3. \A n : Once(x, n) => Once(x, n)'
    BY <1>0, <1>6 DEF Once, Holds, InChannel
  <2>4. NoneTwice'
    BY <1>0, <1>4, <2>3 DEF NoneTwice, Owed
  <2> QED
    BY <1>1, <1>3, <2>2, <2>4
<1> QED
  BY <1>0, <1>5, <1>6 DEF PushTo, Offer

LEMMA GiveSubscribe ==
    ASSUME GiveInv, NEW x \in Streams, Subscribe(x)
    PROVE  Give'
<1> USE DEF GiveInv, HubInv, Give
<1>0. /\ UNCHANGED <<chan, hand, got, cut, sent, queue, push, seen, again, todo>>
      /\ handler[x] = "off" /\ clients' = clients \cup {x} /\ push = None /\ todo = {}
      /\ handler' = [handler EXCEPT ![x] = "open"] /\ excused'[x] = sent
      /\ \A s \in Streams \ {x} : excused'[s] = excused[s]
  BY DEF Subscribe, way, Locked, Pushing, Typed
<1>1. chan[x].holds = <<>> /\ hand[x] = None /\ got[x] = {} /\ x \notin clients
  BY <1>0 DEF Handlers, Open
<1>2. Handlers' /\ Broadcasted'
  BY <1>0, <1>1 DEF Handlers, Broadcasted, Typed
<1>3. \A s \in Owed : \A n : /\ Settled(s, n)' = Settled(s, n)
                             /\ Once(s, n) => Once(s, n)'
  BY <1>0, <1>1 DEF Settled, Once, Holds, InChannel, Owed, Open
<1>4. \A n \in sent : Settled(x, n)'
  BY <1>0 DEF Settled
<1>5. \A n \in Notices : ~ Holds(x, n) /\ DOMAIN chan[x].holds = {}
  BY <1>1, NoneAssumption, ToSetEmpty DEF Holds, InChannel
<1>6. \A n \in Notices : Once(x, n)'
  BY <1>0, <1>5 DEF Once, Holds, InChannel
<1>7. Remembered' /\ NoneForgotten'
  BY <1>0, <1>3, <1>4 DEF Remembered, NoneForgotten, Owed, Due, Broadcasted
<1>8. NoneTwice'
  BY <1>0, <1>3, <1>6 DEF NoneTwice, Owed
<1> QED
  BY <1>2, <1>7, <1>8

LEMMA GiveReceive ==
    ASSUME GiveInv, NEW x \in Streams, Receive(x)
    PROVE  Give'
<1> USE DEF GiveInv, HubInv, Give
<1> DEFINE q == chan[x].holds
<1>0. /\ UNCHANGED <<got, cut, sent, queue, push, seen, again, todo, clients, excused>>
      /\ q \in Seq(Notices) /\ q # <<>> /\ chan'[x].holds = Tail(q)
      /\ hand[x] = None /\ hand'[x] = Head(q) /\ handler'[x] = "writing" /\ Head(q) \in Notices
      /\ \A s \in Streams \ {x} :
            hand'[s] = hand[s] /\ chan'[s] = chan[s] /\ handler'[s] = handler[s]
  <2>1. q \in Seq(Notices) /\ q # <<>>
    BY DEF Receive, Typed
  <2>2. Head(q) \in Notices
    BY <2>1, HeadTailProperties
  <2> QED
    BY <2>1, <2>2 DEF Receive, way, past, Typed, Handlers
<1>1. /\ ToSet(q) = ToSet(Tail(q)) \cup {Head(q)}
      /\ \A i \in DOMAIN Tail(q) : i + 1 \in DOMAIN q /\ Tail(q)[i] = q[i + 1] /\ i \in Nat /\ i + 1 # 1
      /\ 1 \in DOMAIN q /\ q[1] = Head(q) /\ DOMAIN q \subseteq Nat
  <2>1. DOMAIN Tail(q) \subseteq Nat \ {0} /\ DOMAIN q \subseteq Nat
    BY <1>0
  <2> QED
    BY <1>0, <2>1, ToSetTail
<1>2. InChannel(x, Head(q))
  BY <1>1 DEF InChannel
<1>3. \A n \in Notices : /\ InChannel(x, n)' = (n \in ToSet(Tail(q)))
                         /\ Holds(x, n)' = Holds(x, n) /\ Settled(x, n)' = Settled(x, n)
  BY <1>0, <1>1, NoneAssumption DEF InChannel, Holds, Settled
<1> HIDE DEF q
<1>4. ASSUME NEW n \in Notices, Once(x, n) PROVE Once(x, n)'
  <2>1. \A i, j \in DOMAIN q : q[i] = n /\ q[j] = n => i = j
    BY <1>4 DEF Once, q
  <2>2. \A i, j \in DOMAIN chan'[x].holds : chan'[x].holds[i] = n /\ chan'[x].holds[j] = n => i = j
    BY <1>0, <1>1, <2>1
  <2>3. n = Head(q) => ~ n \in ToSet(Tail(q))
    BY <1>1, <2>1 DEF ToSet
  <2>4. /\ InChannel(x, n)' => hand'[x] # n /\ n \notin got'[x]
        /\ hand'[x] = n => n \notin got'[x]
    BY <1>0, <1>1, <1>2, <1>3, <1>4, <2>3 DEF Once, InChannel, q
  <2>5. n \notin seen' /\ (n # push' \/ x \in todo') => ~ Holds(x, n)'
    BY <1>0, <1>3, <1>4 DEF Once
  <2> QED
    BY <2>2, <2>4, <2>5 DEF Once
<1>5. \A s \in Owed \ {x} : \A n : /\ Settled(s, n)' = Settled(s, n)
                                   /\ Once(s, n) => Once(s, n)'
  BY <1>0 DEF Settled, Once, Holds, InChannel, Owed, Open
<1>6. Handlers' /\ Broadcasted'
  BY <1>0 DEF Handlers, Broadcasted
<1>7. sent \subseteq Notices /\ (push # None => push \in Notices)
  BY DEF Typed, Pushing
<1>8. Remembered' /\ NoneForgotten'
  BY <1>0, <1>3, <1>5, <1>7 DEF Remembered, NoneForgotten, Owed, Due, Broadcasted
<1>9. NoneTwice'
  BY <1>0, <1>4, <1>5 DEF NoneTwice, Owed
<1> QED
  BY <1>6, <1>8, <1>9

LEMMA GiveWritten ==
    ASSUME GiveInv, NEW x \in Streams, Written(x)
    PROVE  Give'
<1> USE DEF GiveInv, HubInv, Give
<1>0. /\ UNCHANGED <<chan, cut, sent, queue, push, seen, again, todo, clients, excused>>
      /\ hand[x] \in Notices /\ hand'[x] = None /\ handler'[x] = "open" /\ handler[x] = "writing"
      /\ \A s \in Streams \ {x} : hand'[s] = hand[s] /\ got'[s] = got[s] /\ handler'[s] = handler[s]
      /\ x \notin cut => got'[x] = got[x] \cup {hand[x]}
  BY DEF Written, way, hub, Typed
<1>1. x \notin cut => \A n \in Notices : /\ Holds(x, n)' = Holds(x, n)
                                         /\ Settled(x, n)' = Settled(x, n)
                                         /\ Once(x, n) => Once(x, n)'
  BY <1>0, NoneAssumption DEF Settled, Once, Holds, InChannel
<1>2. \A s \in Owed \ {x} : \A n : /\ Settled(s, n)' = Settled(s, n)
                                   /\ Once(s, n) => Once(s, n)'
  BY <1>0 DEF Settled, Once, Holds, InChannel, Owed, Open
<1>3. Handlers' /\ Broadcasted'
  BY <1>0 DEF Handlers, Broadcasted
<1>4. sent \subseteq Notices /\ (push # None => push \in Notices)
  BY DEF Typed, Pushing
<1>5. Remembered' /\ NoneForgotten'
  BY <1>0, <1>1, <1>2, <1>4 DEF Remembered, NoneForgotten, Owed, Due, Broadcasted
<1>6. NoneTwice'
  BY <1>0, <1>1, <1>2 DEF NoneTwice, Owed
<1> QED
  BY <1>3, <1>5, <1>6

LEMMA GiveStep == GiveInv /\ [Next]_vars => Give'
<1> SUFFICES ASSUME GiveInv, [Next]_vars PROVE Give'
  OBVIOUS
<1> USE DEF GiveInv, HubInv, Give
<1>1. CASE UNCHANGED <<way, hub, ends, past>>
  <2>1. Handlers'
    BY <1>1 DEF Handlers, hub, ends, past
  <2> QED
    BY <1>1, <2>1, GiveElsewhere DEF way, hub, ends, past, Owed
<1>2. ASSUME NEW x \in Streams, Leave(x) PROVE Give'
  <2>1. Handlers'
    BY <1>2 DEF Leave, Handlers, hub, past, Typed
  <2> QED
    BY <1>2, <2>1, GiveElsewhere DEF Leave, way, hub, past, Owed
<1>3. ASSUME NEW x \in Streams, Cut(x) PROVE Give'
  <2>1. Handlers'
    BY <1>3 DEF Cut, Handlers, hub, Typed
  <2>2. \A s \in Owed' : s \in Owed /\ got'[s] = got[s] /\ excused'[s] = excused[s]
    BY <1>3 DEF Cut, hub, Owed, Open, Typed
  <2> QED
    BY <1>3, <2>1, <2>2, GiveElsewhere DEF Cut, way, hub
<1>4. ASSUME NEW x \in Streams, Unsubscribe(x) PROVE Give'
  <2>1. Handlers'
    BY <1>4 DEF Unsubscribe, Handlers, Typed
  <2>2. \A s \in Owed' : /\ s \in Owed
                         /\ chan'[s] = chan[s] /\ got'[s] = got[s] /\ excused'[s] = excused[s]
    BY <1>4 DEF Unsubscribe, Owed, Open, Typed
  <2> QED
    BY <1>4, <2>1, <2>2, GiveElsewhere DEF Unsubscribe, way
<1>5. CASE Shutdown
  <2>1. Handlers'
    BY <1>5 DEF Shutdown, Handlers, hub
  <2>2. Owed' = {}
    BY <1>5 DEF Shutdown, Owed, Open, hub
  <2> QED
    BY <1>5, <2>1, <2>2, GiveElsewhere DEF Shutdown, way, hub
<1>6. CASE BridgeUp \/ BridgeLoses \/ BridgeEnds \/ Take \/ Pushed
  BY <1>6, GiveBridgeUp, GiveLoses, GiveTake, GivePushed
<1>7. ASSUME NEW x \in Streams, Subscribe(x) \/ Receive(x) \/ Written(x) \/ PushTo(x) PROVE Give'
  BY <1>7, GiveSubscribe, GiveReceive, GiveWritten, GivePushTo
<1>8. ASSUME NEW n \in Notices, Broadcast(n) PROVE Give'
  BY <1>8, GiveBroadcast
<1> QED
  BY <1>1, <1>2, <1>3, <1>4, <1>5, <1>6, <1>7, <1>8
  DEF Next, Process, Signal, CloseHub, Exit, vars

\* What is held once has a number of places that is one at most.
LEMMA GiveMeansEachOnce == GiveInv => EachOnce
<1> SUFFICES ASSUME GiveInv, NEW s \in Owed, NEW n \in sent
             PROVE  LET places == {i \in DOMAIN chan[s].holds : chan[s].holds[i] = n}
                        held == Cardinality(places)
                                + (IF hand[s] = n THEN 1 ELSE 0) + (IF n \in got[s] THEN 1 ELSE 0)
                    IN  /\ held > 0 \/ Due(s, n) \/ n \in excused[s]
                        /\ held <= 1 \/ n \in again
  BY DEF EachOnce, Owed, Due
<1> DEFINE places == {i \in DOMAIN chan[s].holds : chan[s].holds[i] = n}
<1>0. n \in Notices /\ s \in Streams /\ chan[s].holds \in Seq(Notices)
  BY DEF GiveInv, HubInv, Typed, Owed, Open
<1>1. IsFiniteSet(places) /\ Cardinality(places) \in Nat
  <2>1. IsFiniteSet(1..Len(chan[s].holds)) /\ places \subseteq 1..Len(chan[s].holds)
    BY <1>0, FS_Interval
  <2> QED
    BY <2>1, FS_Subset, FS_CardinalityType
<1>2. Cardinality(places) = 0 <=> ~ InChannel(s, n)
  BY <1>1, FS_EmptySet DEF InChannel, ToSet
<1>3. ASSUME Once(s, n) PROVE Cardinality(places) <= 1
  <2>1. places = {} \/ \E i \in places : places = {i}
    BY <1>3 DEF Once
  <2>2. CASE places = {}
    BY <2>2, FS_EmptySet
  <2>3. CASE \E i \in places : places = {i}
    <3>1. PICK i \in places : places = {i}
      BY <2>3
    <3>2. Cardinality({i}) = 1
      BY FS_Singleton
    <3> QED
      BY <3>1, <3>2
  <2> QED
    BY <2>1, <2>2, <2>3
<1> HIDE DEF places
<1>4. Settled(s, n) \/ Due(s, n)
  BY DEF GiveInv, Give, NoneForgotten
<1>5. n \notin again => Once(s, n)
  BY <1>0 DEF GiveInv, Give, NoneTwice
<1>6. n \in again \/ (/\ Cardinality(places) <= 1
                      /\ InChannel(s, n) => hand[s] # n /\ n \notin got[s]
                      /\ hand[s] = n => n \notin got[s])
  BY <1>3, <1>5 DEF Once
<1> DEFINE held == Cardinality(places)
                   + (IF hand[s] = n THEN 1 ELSE 0) + (IF n \in got[s] THEN 1 ELSE 0)
<1>7. held > 0 \/ Due(s, n) \/ n \in excused[s]
  BY <1>1, <1>2, <1>4 DEF Settled, Holds
<1>8. held <= 1 \/ n \in again
  BY <1>1, <1>2, <1>6
<1> QED
  BY <1>7, <1>8 DEF places

LEMMA InitGive == Init => Give
<1> SUFFICES ASSUME Init PROVE Give
  OBVIOUS
<1> QED
  BY ToSetEmpty DEF Init, Give, Handlers, Broadcasted, Remembered, NoneForgotten, NoneTwice, Owed

-----------------------------------------------------------------------------
\* For any number of streams, notifications, places and failures, Push meets no
\* channel that a leaving stream has closed.
THEOREM HubIsSafe == Spec => []NoPanic
<1>1. HubInv /\ NoPanic /\ [Next]_vars => (HubInv /\ NoPanic)'
  BY TypedStep, PushingStep, OpenStep, NoPanicStep DEF HubInv
<1> QED
  BY <1>1, InitHubInv, PTL DEF Spec

\* And each stream is given, will be given or may miss every notification
\* broadcast since it subscribed, and is given none twice unless the bridge had
\* to forget it.
THEOREM GivenOnce == Spec => []EachOnce
<1>1. GiveInv /\ [Next]_vars => GiveInv'
  BY TypedStep, PushingStep, OpenStep, GiveStep DEF GiveInv, HubInv
<1>2. Init => GiveInv
  BY InitHubInv, InitGive DEF GiveInv
<1> QED
  BY <1>1, <1>2, GiveMeansEachOnce, PTL DEF Spec
=============================================================================
