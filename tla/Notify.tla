------------------------------- MODULE Notify -------------------------------
(***************************************************************************)
(* Notifications on their way to the streams of one account's clients: the *)
(* worker stores a notification and broadcasts it, the bridge of an API    *)
(* process takes it from its own short-lived queue and calls SSEHub.Push,  *)
(* which offers it to the channel of every stream, and each SSEHandler     *)
(* writes what it receives.  Streams come and go meanwhile, and the        *)
(* process shuts down: main's tasks, ServeUntilShutdown and Tasks.Stop.    *)
(*                                                                         *)
(* Push holds the hub's read lock from its first channel to its last;      *)
(* Subscribe and Unsubscribe need the write lock.                          *)
(***************************************************************************)
EXTENDS Integers, FiniteSets, SequencesExt

CONSTANTS
    Streams,       \* connections to /notification/stream
    MaxNotice,     \* BOUND: notifications
    Buffer,        \* places in a channel (20)
    MaxFaults,     \* BOUND: what goes wrong before or during the broadcast
    None

ASSUME NoticeAssumption == MaxNotice \in Nat /\ MaxFaults \in Nat
ASSUME BufferAssumption == Buffer \in Nat \ {0}

Notices == 1..MaxNotice

ASSUME NoneAssumption == None \notin Notices

VARIABLES
    sent,       \* notifications broadcast; their rows are in the table
    queue,      \* the bridge's queue
    bridge,     \* down | up | pushing | breaking (its Push goes on) | ended
    push,       \* notification in Push
    seen,       \* notifications the bridge remembers for a minute
    todo,       \* channels Push has still to come to
    clients,    \* channels in the hub
    chan,       \* stream -> its channel: what it holds, and whether it is closed
    handler,    \* stream -> its handler: off | open | writing | leaving | gone
    hand,       \* stream -> notification it is writing
    cut,        \* streams whose connection is over
    done,       \* hub.done is closed
    server,     \* up | draining | drained | exited, or panicked
    got,        \* history: stream -> notifications written to it
    excused,    \* history: stream -> those it may miss: broadcast before it
                \* subscribed or while the bridge was down, or refused by its
                \* full channel
    again,      \* history: notifications pushed again after they were forgotten
    faults      \* history: failures so far

way  == <<sent, queue, bridge, push, seen, again>>
hub  == <<todo, clients, chan>>
ends == <<handler, hand, cut>>
life == <<done, server>>
past == <<got, excused>>
vars == <<way, hub, ends, life, past, faults>>

Init ==
    /\ sent = {} /\ queue = <<>> /\ bridge = "down" /\ push = None /\ seen = {}
    /\ todo = {} /\ clients = {}
    /\ chan = [s \in Streams |-> [holds |-> <<>>, closed |-> FALSE]]
    /\ handler = [s \in Streams |-> "off"] /\ hand = [s \in Streams |-> None]
    /\ cut = {} /\ done = FALSE /\ server = "up"
    /\ got = [s \in Streams |-> {}] /\ excused = [s \in Streams |-> {}]
    /\ again = {} /\ faults = 0

Fault == faults < MaxFaults /\ faults' = faults + 1
Alive == server \notin {"exited", "panicked"}

-----------------------------------------------------------------------------
\* Whoever is connected goes without.
Lose(notices) == excused' = [s \in Streams |->
                               IF s \in clients \ cut THEN excused[s] \cup notices ELSE excused[s]]

\* NotificationWorker.process has the row in the table and publishes to the
\* fanout exchange; no queue there is no error.  A confirm or acknowledgement
\* that is lost makes it publish again.  BOUND: none after the signal.
Broadcast(n) ==
    /\ server = "up"
    /\ n \in sent \/ n = 1 \/ n - 1 \in sent
    /\ IF n \in sent THEN Fault ELSE UNCHANGED faults
    /\ sent' = sent \cup {n}
    /\ IF bridge \in {"up", "pushing"}
       THEN queue' = Append(queue, n) /\ UNCHANGED excused
       ELSE Lose({n}) /\ UNCHANGED queue
    /\ UNCHANGED <<bridge, push, seen, again, hub, ends, life, got>>

\* WithChannel connects and RunNotificationBridge declares its queue.
BridgeUp ==
    /\ bridge = "down" /\ server = "up"
    /\ bridge' = "up" /\ seen' = {} /\ again' = again \cup seen
    /\ UNCHANGED <<sent, queue, push, hub, ends, life, past, faults>>

\* Its queue goes with it.
QueueGone == queue' = <<>> /\ Lose(ToSet(queue))

\* The connection breaks; or what is queued grows older than a minute.
BridgeLoses ==
    /\ bridge \in {"up", "pushing"}
    /\ Fault
    /\ QueueGone
    /\ bridge' \in {bridge, IF bridge = "up" THEN "down" ELSE "breaking"}
    /\ UNCHANGED <<sent, push, seen, again, hub, ends, life, got>>

\* Mutation: what has been pushed is not remembered.
Known_Never(n) == FALSE

Known(n) == n \in seen

\* A delivery that is not known, or no longer after a minute, is pushed: the
\* read lock is taken, with the list of channels under it.
Take ==
    /\ bridge = "up" /\ queue # <<>>
    /\ queue' = Tail(queue)
    /\ LET n == Head(queue) IN
       \/ Known(n) /\ UNCHANGED <<bridge, push, todo, again>>
       \/ /\ bridge' = "pushing" /\ push' = n /\ todo' = clients
          /\ again' = IF Known(n) THEN again \cup {n} ELSE again
    /\ UNCHANGED <<sent, seen, clients, chan, ends, life, past, faults>>

\* Mutation: a full channel is waited for.
Offer_Waits(s) ==
    /\ Len(chan[s].holds) < Buffer
    /\ chan' = [chan EXCEPT ![s].holds = Append(@, push)]
    /\ UNCHANGED excused

\* A channel with no place refuses.
Offer(s) ==
    IF Len(chan[s].holds) < Buffer
    THEN chan' = [chan EXCEPT ![s].holds = Append(@, push)] /\ UNCHANGED excused
    ELSE UNCHANGED chan /\ excused' = IF s \in cut THEN excused
                                       ELSE [excused EXCEPT ![s] = @ \cup {push}]

\* Push goes on to another channel.  To send on a closed one is a panic.
PushTo(s) ==
    /\ Alive /\ s \in todo
    /\ todo' = todo \ {s}
    /\ IF chan[s].closed THEN server' = "panicked" /\ UNCHANGED <<chan, excused>>
                         ELSE Offer(s) /\ UNCHANGED server
    /\ UNCHANGED <<way, clients, ends, done, got, faults>>

\* Push has returned; the delivery is acknowledged.
Pushed ==
    /\ Alive /\ bridge \in {"pushing", "breaking"} /\ todo = {}
    /\ bridge' = IF bridge = "pushing" THEN "up" ELSE "down"
    /\ push' = None /\ seen' = seen \cup {push}
    /\ UNCHANGED <<sent, queue, again, hub, ends, life, past, faults>>

-----------------------------------------------------------------------------
\* Mutation: the list of channels is used after the lock is given back.
Locked_Early == FALSE

\* The write lock waits for Push to return.
Locked == push # None

\* SSEHandler: its channel is in the hub before the first event is written.
Subscribe(s) ==
    /\ handler[s] = "off" /\ server = "up" /\ ~ Locked
    /\ handler' = [handler EXCEPT ![s] = "open"]
    /\ clients' = clients \cup {s}
    /\ excused' = [excused EXCEPT ![s] = sent]
    /\ UNCHANGED <<way, todo, chan, hand, cut, got, life, faults>>

\* The client goes away, and is owed nothing more.
Cut(s) ==
    /\ handler[s] \in {"open", "writing"} /\ s \notin cut
    /\ server # "exited"
    /\ cut' = cut \cup {s}
    /\ got' = [got EXCEPT ![s] = {}] /\ excused' = [excused EXCEPT ![s] = {}]
    /\ UNCHANGED <<way, hub, handler, hand, life, faults>>

\* The select takes a notification, ...
Receive(s) ==
    /\ Alive /\ handler[s] = "open" /\ chan[s].holds # <<>>
    /\ handler' = [handler EXCEPT ![s] = "writing"]
    /\ hand' = [hand EXCEPT ![s] = Head(chan[s].holds)]
    /\ chan' = [chan EXCEPT ![s].holds = Tail(@)]
    /\ UNCHANGED <<way, todo, clients, cut, life, past, faults>>

\* ... writes it, which takes as long as the client does, ...
Written(s) ==
    /\ Alive /\ handler[s] = "writing"
    /\ handler' = [handler EXCEPT ![s] = "open"]
    /\ hand' = [hand EXCEPT ![s] = None]
    /\ got' = IF s \in cut THEN got ELSE [got EXCEPT ![s] = @ \cup {hand[s]}]
    /\ UNCHANGED <<way, hub, cut, life, excused, faults>>

\* ... or the end of the connection or of the hub.
Leave(s) ==
    /\ Alive /\ handler[s] = "open" /\ (done \/ s \in cut)
    /\ handler' = [handler EXCEPT ![s] = "leaving"]
    /\ UNCHANGED <<way, hub, hand, cut, life, past, faults>>

\* The deferred Unsubscribe removes the channel and closes it.
Unsubscribe(s) ==
    /\ Alive /\ handler[s] = "leaving" /\ ~ Locked
    /\ handler' = [handler EXCEPT ![s] = "gone"]
    /\ clients' = clients \ {s}
    /\ chan' = [chan EXCEPT ![s] = [holds |-> <<>>, closed |-> TRUE]]
    /\ got' = [got EXCEPT ![s] = {}] /\ excused' = [excused EXCEPT ![s] = {}]
    /\ cut' = cut \cup {s}
    /\ UNCHANGED <<way, todo, hand, life, faults>>

-----------------------------------------------------------------------------
\* The signal: Shutdown accepts no more, and the tasks' context is over.
Signal ==
    /\ server = "up"
    /\ server' = "draining"
    /\ UNCHANGED <<way, hub, ends, done, past, faults>>

\* The "SSE lifecycle" task.
CloseHub ==
    /\ server \in {"draining", "drained"} /\ ~ done
    /\ done' = TRUE
    /\ UNCHANGED <<way, hub, ends, server, past, faults>>

\* Every request has returned; or five seconds have passed and the connections
\* are closed.
Shutdown ==
    /\ server = "draining"
    /\ \/ \A s \in Streams : handler[s] \in {"off", "gone"} /\ UNCHANGED cut
       \/ cut' = Streams
    /\ server' = "drained"
    /\ got' = [s \in Streams |-> {}] /\ excused' = got'
    /\ UNCHANGED <<way, hub, handler, hand, done, faults>>

\* Its context over and its connection closed, the bridge returns for good.
BridgeEnds ==
    /\ server \in {"draining", "drained"} /\ bridge \in {"up", "down"}
    /\ bridge' = "ended" /\ QueueGone
    /\ UNCHANGED <<sent, push, seen, again, hub, ends, life, got, faults>>

\* Tasks.Stop waits for both tasks, and main returns.
Exit ==
    /\ server = "drained" /\ done /\ bridge = "ended"
    /\ server' = "exited"
    /\ UNCHANGED <<way, hub, ends, done, past, faults>>

-----------------------------------------------------------------------------
Process ==
    \/ Take \/ Pushed \/ \E s \in Streams : PushTo(s) \/ Receive(s) \/ Leave(s) \/ Unsubscribe(s)
    \/ CloseHub \/ Shutdown \/ BridgeEnds \/ Exit

Next ==
    \/ BridgeUp \/ BridgeLoses \/ Signal
    \/ \E n \in Notices : Broadcast(n)
    \/ \E s \in Streams : Subscribe(s) \/ Cut(s) \/ Written(s)
    \/ Process

Spec == Init /\ [][Next]_vars

\* The process goes on with what it can do; a client need not read, and RabbitMQ
\* need not be there.
FairSpec == Spec /\ WF_vars(Process)

-----------------------------------------------------------------------------
\* A stream is given every notification broadcast after it subscribed, whatever
\* the other streams do, unless its own channel was full or the broadcast did
\* not come; and none twice, unless the bridge had to forget it.
EachOnce ==
    \A s \in clients \ cut, n \in sent :
        LET held == Cardinality({i \in DOMAIN chan[s].holds : chan[s].holds[i] = n})
                    + (IF hand[s] = n THEN 1 ELSE 0) + (IF n \in got[s] THEN 1 ELSE 0)
            due  == n \in ToSet(queue) \/ (n = push /\ s \in todo)
        IN  /\ held > 0 \/ due \/ n \in excused[s]
            /\ held <= 1 \/ n \in again

\* Push never meets a channel that a leaving stream has closed.
NoPanic == server # "panicked"

\* Whoever is connected, slow or stuck, the process ends after the signal.
ShutdownEnds == server = "draining" ~> server = "exited"
=============================================================================
