------------------------------ MODULE HotRank ------------------------------
(***************************************************************************)
(* The hot list in Redis: one sorted set for each minute, written by the   *)
(* popularity script, and the snapshot of the last minutes that the pages  *)
(* of one request sequence (one as_of) share.                              *)
(*                                                                         *)
(* Heat events arrive any number of times and arbitrarily late, from any   *)
(* number of consumers.  Time counts whole minutes: a bucket and a marker  *)
(* are given a deadline that is a whole minute.  A key that has expired is *)
(* gone; a sorted set without members does not exist.                      *)
(***************************************************************************)
EXTENDS Integers, FiniteSets, FiniteSetsExt

CONSTANTS
    Events,       \* heat events
    Videos,
    Readers,      \* requests for pages of the hot list
    Life,         \* minutes a bucket and its markers live (120 in the code)
    Window,       \* minutes a snapshot adds up (60 in the code)
    LastMinute,   \* BOUND: time stops here
    None

ASSUME TimesAssumption ==
    /\ Life \in Nat /\ Window \in Nat /\ LastMinute \in Nat
    /\ 0 < Window /\ Window <= Life
    /\ IsFiniteSet(Events)

Minutes == 0..LastMinute
Heat    == [minute : Minutes, video : Videos, change : {-1, 1}]

ASSUME NoneAssumption == None \notin Heat

VARIABLES
    now,        \* the minute on the clock
    event,      \* event -> the heat it carries once its transaction committed
    marked,     \* events with a live hot:processed marker
    bucket,     \* minute -> sorted set hot:video:1m:<minute>, video -> score
    snapshot,   \* minute -> sorted set hot:video:merge:1m:<as_of>
    timed,      \* snapshots with an expiry
    asked,      \* reader -> the as_of of its request
    command,    \* reader -> its next Redis command
    counted     \* history: event -> times its heat was added to a bucket

written == <<now, event>>
hot     == <<marked, bucket, counted>>
pages   == <<snapshot, timed, asked, command>>
hotVars == <<written, hot, pages>>

Empty == [v \in {} |-> 0]

IsZSet(z) == DOMAIN z \subseteq Videos /\ \A v \in DOMAIN z : z[v] \in Int

HotTypeOK ==
    /\ now \in Minutes
    /\ event \in [Events -> Heat \cup {None}]
    /\ marked \subseteq Events
    /\ DOMAIN bucket = Minutes /\ \A m \in Minutes : IsZSet(bucket[m])
    /\ DOMAIN snapshot = Minutes /\ \A m \in Minutes : IsZSet(snapshot[m])
    /\ timed \subseteq {m \in Minutes : snapshot[m] # Empty}
    /\ asked \in [Readers -> Minutes]
    /\ command \in [Readers -> {"exists", "union", "expire", "read"}]
    /\ counted \in [Events -> Nat]

HotInit ==
    /\ now = 0
    /\ event = [e \in Events |-> None]
    /\ marked = {}
    /\ bucket = [m \in Minutes |-> Empty]
    /\ snapshot = [m \in Minutes |-> Empty]
    /\ timed = {}
    /\ asked = [r \in Readers |-> 0]
    /\ command = [r \in Readers |-> "exists"]
    /\ counted = [e \in Events |-> 0]

Score(z, v) == IF v \in DOMAIN z THEN z[v] ELSE 0

\* A sum of +1 and -1 changes.
Sum(S) == Cardinality({e \in S : event[e].change = 1})
          - Cardinality({e \in S : event[e].change = -1})

-----------------------------------------------------------------------------
\* The request carried the time; the consumers commit the event with it at once
\* or after any delay.
Write(e, h) ==
    /\ event[e] = None
    /\ h.minute <= now
    /\ event' = [event EXCEPT ![e] = h]
    /\ UNCHANGED <<now, hot, pages>>

\* Mutation: the marker is kept for one minute less than the bucket.
MarkerLives_TooShort(e, t) == event[e].minute + Life > t + 1

MarkerLives(e, t) == event[e].minute + Life > t

\* Mutation: a bucket lives only as long as the window.
BucketLives_TooShort(m, t) == m + Window > t + 1

BucketLives(m, t) == m + Life > t

ZIncrBy(z, v, change) ==
    [x \in DOMAIN z \cup {v} |-> Score(z, x) + (IF x = v THEN change ELSE 0)]

\* Mutation: an old event is counted, without a marker.
AddHeat_Expired(e) ==
    /\ event[e] # None
    /\ e \notin marked
    /\ bucket' = [bucket EXCEPT ![event[e].minute] =
                     ZIncrBy(@, event[e].video, event[e].change)]
    /\ marked' = marked \cup {x \in {e} : MarkerLives(x, now)}
    /\ counted' = [counted EXCEPT ![e] = @ + 1]
    /\ UNCHANGED <<written, pages>>

\* The script, for an event with no marker whose deadline is ahead.  In its
\* other cases it leaves the hot list alone (and drops cached videos, which
\* VideoCache models).
AddHeat(e) ==
    /\ event[e] # None
    /\ e \notin marked
    /\ event[e].minute + Life > now
    /\ bucket' = [bucket EXCEPT ![event[e].minute] =
                     ZIncrBy(@, event[e].video, event[e].change)]
    /\ marked' = marked \cup {e}
    /\ counted' = [counted EXCEPT ![e] = @ + 1]
    /\ UNCHANGED <<written, pages>>

\* A minute passes and Redis drops what has expired.
Tick ==
    /\ now < LastMinute
    /\ now' = now + 1
    /\ marked' = {e \in marked : MarkerLives(e, now + 1)}
    /\ bucket' = [m \in Minutes |-> IF BucketLives(m, now + 1) THEN bucket[m] ELSE Empty]
    /\ UNCHANGED <<event, counted, pages>>

-----------------------------------------------------------------------------
(***************************************************************************)
(* ListByPopularity.  Every Redis error is ignored: a failed EXISTS counts *)
(* as "no snapshot", a failed ZUNIONSTORE or EXPIRE leaves the key alone.  *)
(***************************************************************************)
\* as_of is the present minute or, for a further page, what the client brings.
Exists(r, m) ==
    /\ command[r] = "exists"
    /\ asked' = [asked EXCEPT ![r] = m]
    /\ \/ snapshot[m] # Empty /\ command' = [command EXCEPT ![r] = "read"]
       \/ command' = [command EXCEPT ![r] = "union"]
    /\ UNCHANGED <<written, hot, snapshot, timed>>

\* The minutes asOf, asOf-1, ... of which there are Window.
Covers(asOf, m) == m \in (asOf - Window + 1)..asOf

Total(v, ms) == MapThenSumSet(LAMBDA m : Score(bucket[m], v), ms)

Merged(asOf) ==
    LET ms == {m \in Minutes : Covers(asOf, m)}
    IN  [v \in UNION {DOMAIN bucket[m] : m \in ms} |-> Total(v, ms)]

\* Mutation: an expiry outlives the key it belonged to.
Union_KeepsExpiry(r) ==
    /\ command[r] = "union"
    /\ \/ snapshot' = [snapshot EXCEPT ![asked[r]] = Merged(asked[r])]
       \/ UNCHANGED snapshot
    /\ command' = [command EXCEPT ![r] = "expire"]
    /\ UNCHANGED <<written, hot, timed, asked>>

\* ZUNIONSTORE replaces the key and with it its expiry; of nothing it makes no key.
Union(r) ==
    /\ command[r] = "union"
    /\ \/ /\ snapshot' = [snapshot EXCEPT ![asked[r]] = Merged(asked[r])]
          /\ timed' = timed \ {asked[r]}
       \/ UNCHANGED <<snapshot, timed>>
    /\ command' = [command EXCEPT ![r] = "expire"]
    /\ UNCHANGED <<written, hot, asked>>

Expire(r) ==
    /\ command[r] = "expire"
    /\ \/ snapshot[asked[r]] # Empty /\ timed' = timed \cup {asked[r]}
       \/ UNCHANGED timed
    /\ command' = [command EXCEPT ![r] = "read"]
    /\ UNCHANGED <<written, hot, snapshot, asked>>

\* ZREVRANGE; without members the handler asks MySQL or ends the list.
Read(r) ==
    /\ command[r] = "read"
    /\ command' = [command EXCEPT ![r] = "exists"]
    /\ UNCHANGED <<written, hot, snapshot, timed, asked>>

\* The two minutes a snapshot with an expiry lives are over.
Forget(m) ==
    /\ m \in timed
    /\ snapshot' = [snapshot EXCEPT ![m] = Empty]
    /\ timed' = timed \ {m}
    /\ UNCHANGED <<written, hot, asked, command>>

HotNext ==
    \/ \E e \in Events : AddHeat(e) \/ \E h \in Heat : Write(e, h)
    \/ Tick
    \/ \E r \in Readers : \/ \E m \in Minutes : Exists(r, m)
                          \/ Union(r) \/ Expire(r) \/ Read(r)
    \/ \E m \in Minutes : Forget(m)

HotSpec == HotInit /\ [][HotNext]_hotVars

-----------------------------------------------------------------------------
\* An event is counted once at most, however late and however often it is
\* delivered: the marker of a live bucket is there, and without a live bucket
\* nothing is counted.
CountedOnce == \A e \in Events : counted[e] <= 1

\* A bucket and the markers of its events go together: the score of a video in
\* a bucket is the sum of the events marked for it.
BucketsMatchMarkers ==
    \A m \in Minutes, v \in Videos :
        Score(bucket[m], v) =
            Sum({e \in marked : event[e].minute = m /\ event[e].video = v})

\* A snapshot of the present minute adds up every event counted in the window,
\* each once, and none from before it: no bucket of the window has expired.
InWindow(v) ==
    {e \in Events : counted[e] > 0 /\ event[e].video = v /\ event[e].minute > now - Window}

SnapshotIsTheWindow ==
    [][\A r \in Readers :
         Union(r) /\ asked[r] = now /\ snapshot'[now] # snapshot[now]
           => \A v \in Videos : Score(snapshot'[now], v) = Sum(InWindow(v))]_hotVars
=============================================================================
