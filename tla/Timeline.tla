------------------------------ MODULE Timeline ------------------------------
(***************************************************************************)
(* The latest feed: a video is stored with its announcement in one         *)
(* transaction, RunTimelineConsumer puts announced videos into the sorted  *)
(* set feed:global_timeline and keeps the newest Keep of them, and         *)
(* FeedService.ListLatest answers a page from the sorted set, from the     *)
(* database, or from one stitched to the other.  A browser tab scrolls:    *)
(* loadRecommend asks for the next page below the last one and appends it. *)
(* One tab is followed; the requests of others matter by what they share   *)
(* with it through singleflight.                                           *)
(*                                                                         *)
(* The relay of the announcement is OutboxPoller's subject: here it is a   *)
(* member of events until it is acknowledged.  Times are milliseconds, the *)
(* precision of the column and of the scores; 0 is no time.                *)
(***************************************************************************)
EXTENDS Integers, FiniteSets, SequencesExt

CONSTANTS
    MaxVideo,    \* BOUND: videos
    Old,         \* BOUND: how many of them may be there at the beginning
    MaxTime,     \* BOUND: the clock stops here
    Keep,        \* entries the consumer leaves in the sorted set (1000)
    Limit,       \* videos on a page
    MaxFaults,   \* BOUND: failed calls and lost data
    Nothing

ASSUME KeepAssumption == Keep \in Nat \ {0}
ASSUME LimitAssumption == Limit \in Nat \ {0}
ASSUME VideoBoundAssumption == MaxVideo \in Nat /\ Old \in 0..MaxVideo
ASSUME TimeBoundAssumption == MaxTime \in Nat \ {0}
ASSUME FaultBoundAssumption == MaxFaults \in Nat

Videos == 1..MaxVideo    \* ids; the sorted set orders equal scores by id

ASSUME NothingAssumption == Nothing \notin Videos

VARIABLES
    now,
    created,     \* video -> create_time, 0 before its publication
    stored,      \* videos whose transaction has committed
    events,      \* of those, announced but not acknowledged
    adding,      \* video the consumer has added and not yet trimmed after
    zset,        \* members of feed:global_timeline
    flight,      \* the rebuild under singleflight: rows read, and from what
    tab,         \* the tab's scroll and its request
    gone,        \* history: announced videos that lost data took from zset
    faults       \* history: failures so far

latestVars == <<now, created, stored, events, adding, zset, flight, tab, gone, faults>>

Stages == {"idle", "tail", "rebuild", "cold", "hot", "stitch", "db", "reply", "end"}

Tab ==
    [stage : Stages, cursor : 0..MaxTime, shown : Seq(Videos),
     page : Seq(Videos),                   \* found in the sorted set
     bound : 0..MaxTime, got : Seq(Videos),   \* its query, and the rows of it
     owed : SUBSET Videos]                 \* history: what the scroll should show

FreshTab ==
    [stage |-> "idle", cursor |-> 0, shown |-> <<>>, page |-> <<>>,
     bound |-> 0, got |-> <<>>, owed |-> {}]

LatestTypeOK ==
    /\ now \in 1..MaxTime
    /\ created \in [Videos -> 0..MaxTime]
    /\ stored \subseteq {v \in Videos : created[v] # 0}
    /\ events \subseteq stored
    /\ adding \in events \cup {Nothing}
    /\ zset \subseteq stored
    /\ flight \in {Nothing} \cup [rows : SUBSET stored, asOf : SUBSET stored]
    /\ tab \in Tab
    /\ gone \subseteq stored \ zset
    /\ faults \in 0..MaxFaults

-----------------------------------------------------------------------------
\* The order of ZREVRANGEBYSCORE.
Newer(u, v) == created[u] > created[v] \/ (created[u] = created[v] /\ u > v)

\* The first n members of S in that order, and the members of S in it.
FirstOf(S, n) == {v \in S : Cardinality({u \in S : Newer(u, v)}) < n}

InOrder(S) ==
    CHOOSE s \in [1..Cardinality(S) -> S] : \A i, j \in DOMAIN s : i < j => Newer(s[i], s[j])

\* What is left of S when ZREMRANGEBYRANK has kept the newest Keep.
Trimmed(S) == FirstOf(S, Keep)

\* The sets ORDER BY create_time DESC LIMIT n may return of S: equal times
\* have no order.
TopSets(S, n) ==
    {R \in SUBSET S :
        /\ Cardinality(R) = IF Cardinality(S) < n THEN Cardinality(S) ELSE n
        /\ \A u \in R, v \in S \ R : created[u] >= created[v]}

Descending(s) == \A i, j \in DOMAIN s : i < j => created[s[i]] >= created[s[j]]

\* FeedRepository.ListLatest, when the table holds S.
Rows(table, before, n) ==
    LET S == {v \in table : before = 0 \/ created[v] < before} IN
    UNION {{s \in SetToSeqs(R) : Descending(s)} : R \in TopSets(S, n)}

\* Older than the oldest entry is the database's part; what is missing above
\* it no reader of the sorted set finds.
Hole == {v \in stored \ zset : \E u \in zset : created[u] < created[v]}

\* Holes that are not for want of an announcement.
Damage == {v \in Hole : v \in gone \/ Cardinality(zset) > Keep}

-----------------------------------------------------------------------------
\* The first videos are there already, announced, of any times; the sorted set
\* holds the newest, or was lost with Redis.
LatestInit ==
    /\ now \in 1..MaxTime
    /\ stored \in {1..n : n \in 0..Old}
    /\ created \in [Videos -> 0..now]
    /\ \A v \in Videos : created[v] = 0 <=> v \notin stored
    /\ events = {}
    /\ adding = Nothing
    /\ zset \in {Trimmed(stored), {}}
    /\ flight = Nothing
    /\ tab = FreshTab
    /\ gone = stored \ zset
    /\ faults = 0

Fault == faults < MaxFaults /\ faults' = faults + 1
NoFault == UNCHANGED faults

Tick ==
    /\ now < MaxTime
    /\ now' = now + 1
    /\ UNCHANGED <<created, stored, events, adding, zset, flight, tab, gone, faults>>

\* Mutation: the announcement is written before the transaction.
BeginPublish_Announces(v) ==
    /\ created[v] = 0 /\ \A u \in 1..(v - 1) : created[u] # 0
    /\ created' = [created EXCEPT ![v] = now]
    /\ events' = events \cup {v}
    /\ UNCHANGED <<now, stored, adding, zset, flight, tab, gone, faults>>

\* PublishVideo takes the time first; commits follow in any order.
BeginPublish(v) ==
    /\ created[v] = 0 /\ \A u \in 1..(v - 1) : created[u] # 0
    /\ created' = [created EXCEPT ![v] = now]
    /\ UNCHANGED <<now, stored, events, adding, zset, flight, tab, gone, faults>>

\* The transaction of VideoService.Publish commits: row, announcement, tags.
Publish(v) ==
    /\ created[v] # 0 /\ v \notin stored
    /\ stored' = stored \cup {v}
    /\ events' = events \cup {v}
    /\ UNCHANGED <<now, created, adding, zset, flight, tab, gone, faults>>

\* RunTimelineConsumer: ZADD.
Add(v) ==
    /\ v \in events /\ adding = Nothing
    /\ adding' = v
    /\ zset' = zset \cup {v}
    /\ gone' = gone \ {v}
    /\ UNCHANGED <<now, created, stored, events, flight, tab, faults>>

\* Then it trims, and acknowledges.
TrimAndAck ==
    /\ adding # Nothing
    /\ zset' = Trimmed(zset)
    /\ adding' = Nothing
    /\ events' = events \ {adding}
    /\ UNCHANGED <<now, created, stored, flight, tab, gone, faults>>

\* The trim fails, or the acknowledgement is lost after it: delivered again.
ConsumerFails ==
    /\ adding # Nothing
    /\ Fault
    /\ zset' \in {zset, Trimmed(zset)}
    /\ adding' = Nothing
    /\ UNCHANGED <<now, created, stored, events, flight, tab, gone>>

\* Redis restarts without the last second of its append-only file, or without
\* the file.
LoseData ==
    /\ Fault
    /\ \E kept \in SUBSET zset :
           /\ kept # zset
           /\ zset' = kept
           /\ gone' = stored \ (kept \cup (events \ (zset \cup {adding})))
    /\ UNCHANGED <<now, created, stored, events, adding, flight, tab>>

-----------------------------------------------------------------------------
Rest == <<now, created, stored, events, adding>>    \* the publishers' side

\* The tab asks for its next page; with its first it begins to be owed what
\* has been announced.
AskPage ==
    /\ tab.stage = "idle"
    /\ tab' = [tab EXCEPT !.stage = "tail",
                          !.owed = IF tab.cursor = 0 THEN stored \ events ELSE @]
    /\ UNCHANGED <<Rest, zset, flight, gone, faults>>

\* An error is answered: the tab keeps what it shows and may ask again.
Refused == [tab EXCEPT !.stage = "idle", !.page = <<>>]

\* Mutation: the rebuild reads no further than the page that asks for it.
Lead_FromCursor ==
    /\ zset = {} /\ flight = Nothing
    /\ \E rows \in TopSets({v \in stored : tab.cursor = 0 \/ created[v] < tab.cursor}, Keep) :
           flight' = [rows |-> rows, asOf |-> stored]

\* The first request to find the sorted set empty reads the newest rows.
Lead ==
    /\ zset = {} /\ flight = Nothing
    /\ \E rows \in TopSets(stored, Keep) : flight' = [rows |-> rows, asOf |-> stored]

\* ZRANGE 0 0, the watermark.  Without Redis the page is the database's; with
\* an empty set a rebuild is begun or joined.
ReadTail ==
    /\ tab.stage = "tail"
    /\ \/ /\ Fault
          /\ tab' = [tab EXCEPT !.stage = "db", !.bound = tab.cursor]
          /\ UNCHANGED flight
       \/ /\ zset = {} /\ NoFault
          /\ tab' = [tab EXCEPT !.stage = "rebuild"]
          /\ Lead \/ (flight # Nothing /\ UNCHANGED flight)
       \/ /\ zset # {} /\ NoFault
          /\ LET asked == IF tab.cursor = 0 THEN now ELSE tab.cursor IN
             IF \E u \in zset : created[u] < asked
             THEN tab' = [tab EXCEPT !.stage = "hot"]
             ELSE tab' = [tab EXCEPT !.stage = "cold", !.bound = tab.cursor]
          /\ UNCHANGED flight
    /\ UNCHANGED <<Rest, zset, gone>>

\* Mutation: an empty table is not told from a rebuild that succeeded.
NothingStored_Unmarked(rows) == FALSE

\* "EMPTY_DB".
NothingStored(rows) == rows = {}

\* The rebuild is over: its ZADD may have failed unseen, its query with an
\* error for all that wait.  Who waited looks again, or is told there are no
\* videos.
Land(outcome) ==
    /\ flight # Nothing
    /\ flight' = Nothing
    /\ IF outcome = "added" THEN NoFault ELSE Fault
    /\ IF outcome = "added"
       THEN zset' = zset \cup flight.rows /\ gone' = gone \ flight.asOf
       ELSE UNCHANGED <<zset, gone>>
    /\ tab' = IF tab.stage # "rebuild" THEN tab
              ELSE IF outcome = "error" THEN Refused
              ELSE IF NothingStored(flight.rows)
              THEN [tab EXCEPT !.stage = "end", !.owed = @ \ gone]
              ELSE [tab EXCEPT !.stage = "tail"]
    /\ UNCHANGED Rest

\* What goes on below a time no longer finds the others of that millisecond.
Passed(owed, time, page) == {v \in owed : created[v] # time \/ v \in ToSet(page)}

\* Mutation: the rest of the page is asked for below the page's own cursor.
ColdCursor_OfRequest(found) == tab.cursor

\* Where the sorted set's part of the page ends.
ColdCursor(found) == IF found = <<>> THEN tab.cursor ELSE created[found[Len(found)]]

\* ZREVRANGEBYSCORE below the cursor, then GetVideoByIDs, which leaves out a
\* video whose row could not be read.  What the page lacks is asked of the
\* database, below the last video found.
ReadIds ==
    /\ tab.stage = "hot"
    /\ LET ids == FirstOf({v \in zset : tab.cursor = 0 \/ created[v] < tab.cursor}, Limit)
       IN  \E unread \in SUBSET ids :
              LET found == InOrder(ids \ unread)
                  below == ColdCursor(found)
                  more  == Limit - Len(found)
              IN  /\ IF unread = {} THEN NoFault ELSE Fault
                  /\ tab' = [tab EXCEPT
                                !.stage = IF more = 0 THEN "reply" ELSE "stitch",
                                !.page = found,
                                !.bound = IF more = 0 THEN 0 ELSE below,
                                !.owed = Passed(@ \ (unread \cup Damage), below, found)]
    /\ UNCHANGED <<Rest, zset, flight, gone>>

\* FeedRepository.ListLatest for the whole page or for its rest.
Query ==
    /\ tab.stage \in {"cold", "db", "stitch"}
    /\ \E rows \in Rows(stored, tab.bound, Limit - Len(tab.page)) :
           tab' = [tab EXCEPT !.stage = "reply", !.bound = 0, !.got = rows]
    /\ UNCHANGED <<Rest, zset, flight, gone, faults>>

\* Another request's query under the same singleflight key is under way: it
\* may have begun before a video was stored.  BOUND: one video.
Share ==
    /\ tab.stage \in {"cold", "stitch"}
    /\ \E v \in stored : \E rows \in Rows(stored \ {v}, tab.bound, Limit - Len(tab.page)) :
           tab' = [tab EXCEPT !.stage = "reply", !.bound = 0, !.got = rows, !.owed = @ \ {v}]
    /\ UNCHANGED <<Rest, zset, flight, gone, faults>>

\* The key of a first page is the present time as if it were a cursor, so that
\* a cold first page and a page below this very millisecond may be given each
\* other's rows.  Such a scroll is not followed further.
ShareOtherPage ==
    /\ tab.stage = "cold"
    /\ tab.cursor \in {0, now}
    /\ tab' = [FreshTab EXCEPT !.stage = "end"]
    /\ UNCHANGED <<Rest, zset, flight, gone, faults>>

\* The sorted set or the database refuses.  Of a page begun in the sorted set
\* what was found is answered.
ReadFails ==
    /\ tab.stage \in {"hot", "cold", "db", "stitch"}
    /\ Fault
    /\ tab' = IF tab.stage # "stitch" THEN Refused
              ELSE [tab EXCEPT !.stage = "reply", !.bound = 0, !.owed = {}]
    /\ UNCHANGED <<Rest, zset, flight, gone>>

\* next_time is the last video's time, has_more that the page is full.  The
\* next page begins below that time, whoever shares it.
Reply ==
    /\ tab.stage = "reply"
    /\ LET page == tab.page \o tab.got
           end  == IF page = <<>> THEN tab.cursor ELSE created[page[Len(page)]]
           full == Len(page) = Limit
       IN  tab' = [FreshTab EXCEPT
                      !.stage = IF full THEN "idle" ELSE "end",
                      !.cursor = end, !.shown = tab.shown \o page,
                      !.owed = IF full THEN Passed(tab.owed, end, page) ELSE tab.owed]
    /\ UNCHANGED <<Rest, zset, flight, gone, faults>>

-----------------------------------------------------------------------------
\* Another request leads the rebuild.
OthersLead == Lead /\ UNCHANGED <<Rest, zset, tab, gone, faults>>

Step == ReadTail \/ ReadIds \/ Query \/ Share \/ ShareOtherPage \/ ReadFails \/ Reply

LatestNext ==
    \/ Tick
    \/ \E v \in Videos : BeginPublish(v) \/ Publish(v) \/ Add(v)
    \/ TrimAndAck \/ ConsumerFails \/ LoseData
    \/ \E outcome \in {"added", "notAdded", "error"} : Land(outcome)
    \/ AskPage \/ Step
    \/ OthersLead

LatestSpec == LatestInit /\ [][LatestNext]_latestVars

\* The server goes on with every request it has begun.
LatestFairSpec == LatestSpec /\ WF_latestVars(Land("added")) /\ WF_latestVars(Step)

-----------------------------------------------------------------------------
\* Readers of the sorted set go to the database only below its oldest entry,
\* so every announced video above that must be in it, but for what Redis has
\* lost, and but for the time between ZADD and ZREMRANGEBYRANK or a rebuild
\* and the next trim, when there are too many entries.
TimelineHasNoHole == Hole \subseteq events \cup Damage

\* A tab that scrolls shows newest first and nothing twice, and everything it
\* passes that was announced when the scroll began: except videos of the same
\* millisecond as a page's last, and what lost data, a failed read or the
\* untrimmed set have hidden.  Its end is the end.
ScrollIsComplete ==
    /\ IsInjective(tab.shown) /\ Descending(tab.shown)
    /\ \A v \in tab.owed :
           tab.stage = "end" \/ (tab.cursor # 0 /\ created[v] > tab.cursor)
               => v \in ToSet(tab.shown)

\* As long as writes to Redis do not fail for ever, every request is answered,
\* though a rebuild may not have stored anything and the request calls itself
\* again.
RequestEnds == tab.stage = "tail" ~> tab.stage \in {"idle", "end"}
=============================================================================
