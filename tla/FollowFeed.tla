----------------------------- MODULE FollowFeed -----------------------------
(***************************************************************************)
(* The following feed of one viewer: RunFollowingConsumer pushes a         *)
(* published video to its author's index and, unless the author has too    *)
(* many followers, to the inboxes of the followers; Service.Read merges    *)
(* the inbox with the indexes of the celebrities followed, each of them    *)
(* trusted only while its ready marker carries the signature of the        *)
(* authors it was rebuilt for, and otherwise reads the database.           *)
(*                                                                         *)
(* A video is its place in the order (create_time, id), which the members  *)
(* of the sorted sets, the queries and the cursors all use; videos are     *)
(* committed in any order.  The announcement is queued with the commit.    *)
(* Redis may lose all it holds; that it may lose the last second only is   *)
(* not modelled.                                                           *)
(***************************************************************************)
EXTENDS Integers, FiniteSets, SequencesExt

CONSTANTS
    MaxVideo,        \* BOUND: videos
    Authors,
    AuthorOf,        \* video -> author
    Inbox,           \* feed:inbox of the viewer
    Capacity,        \* entries an index keeps (1000)
    Limit,           \* videos on a page; one more is read
    MaxPullSources,  \* celebrities read one by one (32)
    MaxUpsets,       \* BOUND: failed calls, lost data, changes of relations
                     \* and of follower counts
    MaxRebuilds,     \* BOUND: rebuilds under way together
    None

Videos == 1..MaxVideo
Keys == Authors \cup {Inbox}

ASSUME VideoAssumption == MaxVideo \in Nat /\ AuthorOf \in [Videos -> Authors]
ASSUME KeyAssumption == Inbox \notin Authors
ASSUME CapacityAssumption == Capacity \in Nat
ASSUME LimitAssumption == Limit \in Nat \ {0} /\ MaxPullSources \in Nat
ASSUME FeedBoundAssumption == MaxUpsets \in Nat /\ MaxRebuilds \in Nat

VARIABLES
    stored,      \* videos committed
    queue,       \* videos whose announcement is not acknowledged
    fan,         \* the consumer: the video it fans out and its next step
    follows,     \* authors the viewer follows
    big,         \* authors with CelebrityThreshold followers or more
    index,       \* key -> members of its sorted set
    marker,      \* key -> authors its ready marker is for, none if expired
    rebuilds,    \* rebuilds under way: for whom, and what the query found
    page,        \* the viewer's request
    missed,      \* history: key -> videos not put into it, or lost with Redis,
                 \* and not read by a rebuild since
    changes, faults

vars == <<stored, queue, fan, follows, big, index, marker, rebuilds, page, missed,
          changes, faults>>

Page ==
    [pc : {"idle", "classify", "read", "rebuild", "query"}, cursor : 0..MaxVideo,
     authors : SUBSET Authors,             \* followed, when the request began
     normal : SUBSET Authors,              \* those read through the inbox
     todo : SUBSET Keys,                   \* sources still to read
     rows : Seq(Seq(Videos)),              \* what each source read has given
     owed : SUBSET Videos,                 \* history: what it must find, and
     unseen : SUBSET Videos]               \* what the answer should have shown

NoPage ==
    [pc |-> "idle", cursor |-> 0, authors |-> {}, normal |-> {}, todo |-> {},
     rows |-> <<>>, owed |-> {}, unseen |-> {}]

TypeOK ==
    /\ stored \subseteq Videos /\ queue \subseteq stored
    /\ fan \in {None} \cup [video : queue, step : {"count", "batch", "append"}]
    /\ follows \subseteq Authors /\ big \subseteq Authors
    /\ index \in [Keys -> SUBSET stored]
    /\ \A k \in Keys : Cardinality(index[k]) <= Capacity
    /\ marker \in [Keys -> SUBSET Authors]
    /\ rebuilds \subseteq [key : Keys, authors : SUBSET Authors, found : SUBSET stored]
    /\ page \in Page
    /\ missed \in [Keys -> SUBSET stored]
    /\ changes \in Nat /\ faults \in Nat /\ changes + faults <= MaxUpsets

-----------------------------------------------------------------------------
\* The newest n members of S: what trimming keeps and what LIMIT returns.
Newest(S, n) == {v \in S : Cardinality({u \in S : u > v}) < n}

Descending(s) == \A i, j \in DOMAIN s : i < j => s[i] > s[j]

InOrder(S) == CHOOSE s \in [1..Cardinality(S) -> S] : Descending(s)

VideosOf(authors) == {v \in stored : AuthorOf[v] \in authors}

Below(S, cursor) == {v \in S : cursor = 0 \/ v < cursor}

\* The sources are merged by a heap of their first entries, each video once: the
\* source whose next entry is newest gives it, until n have been taken.
MergeStep(sources, n, m) ==
    LET live == {i \in DOMAIN sources : m.pos[i] <= Len(sources[i])} IN
    IF live = {} \/ Len(m.out) = n THEN m
    ELSE LET top == CHOOSE i \in live :
                        \A j \in live : sources[i][m.pos[i]] >= sources[j][m.pos[j]]
             v   == sources[top][m.pos[top]]
         IN [pos |-> [m.pos EXCEPT ![top] = @ + 1],
             out |-> IF v \in ToSet(m.out) THEN m.out ELSE Append(m.out, v)]

\* No source is longer than n.
Merge(sources, n) ==
    LET last == Len(sources) * n
        merged[k \in 0..last] ==
            IF k = 0 THEN [pos |-> [i \in DOMAIN sources |-> 1], out |-> <<>>]
            ELSE MergeStep(sources, n, merged[k - 1])
    IN  merged[last].out

-----------------------------------------------------------------------------
\* Some videos are there from long ago; the viewer follows everybody.
Init ==
    /\ stored \in {1..n : n \in 0..MaxVideo}
    /\ queue = {} /\ fan = None
    /\ follows = Authors /\ big \in SUBSET Authors
    /\ index = [k \in Keys |-> {}] /\ marker = [k \in Keys |-> {}]
    /\ rebuilds = {}
    /\ page = NoPage
    /\ missed = [k \in Keys |-> {}]
    /\ changes = 0 /\ faults = 0

Fault == changes + faults < MaxUpsets /\ faults' = faults + 1

\* A video and its announcement are committed.
Commit(v) ==
    /\ v \notin stored
    /\ stored' = stored \cup {v} /\ queue' = queue \cup {v}
    /\ UNCHANGED <<fan, follows, big, index, marker, rebuilds, page, missed, changes, faults>>

\* The viewer follows or unfollows; others do, and an author's count crosses
\* the threshold.
Change(a) ==
    /\ changes + faults < MaxUpsets /\ changes' = changes + 1
    /\ \/ follows' = (follows \ {a}) \cup ({a} \ follows) /\ UNCHANGED big
       \/ big' = (big \ {a}) \cup ({a} \ big) /\ UNCHANGED follows
    /\ UNCHANGED <<stored, queue, fan, index, marker, rebuilds, page, missed, faults>>

-----------------------------------------------------------------------------
\* AppendFollowing with no signature, for one member.
Push(k, v) ==
    /\ index' = [index EXCEPT ![k] = Newest(@ \cup {v}, Capacity)]
    /\ missed' = [missed EXCEPT ![k] = @ \ {v}]
    /\ UNCHANGED marker

\* Service.Publish: the author's own index first.
TakeEvent(v) ==
    /\ fan = None /\ v \in queue
    /\ Push(AuthorOf[v], v)
    /\ fan' = [video |-> v, step |-> "count"]
    /\ UNCHANGED <<stored, queue, follows, big, rebuilds, page, changes, faults>>

\* The consumer is done with the event and acknowledges it.
Acknowledge == fan' = None /\ queue' = queue \ {fan.video}

\* A celebrity's video goes no further, nor does one nobody follows: the
\* viewer's batch of followers stands for all.
Proceed(step, goesOn) ==
    /\ fan # None /\ fan.step = step
    /\ IF goesOn
       THEN /\ fan' = [fan EXCEPT !.step = IF step = "count" THEN "batch" ELSE "append"]
            /\ UNCHANGED <<queue, missed>>
       ELSE /\ Acknowledge
            /\ missed' = [missed EXCEPT ![Inbox] = @ \cup ({fan.video} \ index[Inbox])]
    /\ UNCHANGED <<stored, follows, big, index, marker, rebuilds, page, changes, faults>>

CountFollowers == Proceed("count", AuthorOf[fan.video] \notin big)

ReadBatch == Proceed("batch", AuthorOf[fan.video] \in follows)

AppendBatch ==
    /\ fan # None /\ fan.step = "append"
    /\ Push(Inbox, fan.video)
    /\ Acknowledge
    /\ UNCHANGED <<stored, follows, big, rebuilds, page, changes, faults>>

\* A call fails, the process stops or the acknowledgement is lost: the event
\* is delivered again and fanned out from the beginning.
FanoutFails ==
    /\ fan # None
    /\ Fault
    /\ fan' = None
    /\ \/ UNCHANGED <<index, marker, missed>>
       \/ fan.step = "append" /\ Push(Inbox, fan.video)
    /\ UNCHANGED <<stored, queue, follows, big, rebuilds, page, changes>>

-----------------------------------------------------------------------------
\* A marker lives 60 seconds.  The sorted set lives a day from its last append;
\* an index as old as that is as it was at the beginning.
Expire(k) ==
    /\ marker[k] # {}
    /\ marker' = [marker EXCEPT ![k] = {}]
    /\ UNCHANGED <<stored, queue, fan, follows, big, index, rebuilds, page, missed, changes,
                   faults>>

\* Redis comes back empty.
LoseData ==
    /\ Fault
    /\ index' = [k \in Keys |-> {}] /\ marker' = [k \in Keys |-> {}]
    /\ LET waiting == IF fan = None THEN queue ELSE queue \ {fan.video}
       IN  missed' = [k \in Keys |-> (IF k = Inbox THEN stored ELSE VideosOf({k})) \ waiting]
    /\ UNCHANGED <<stored, queue, fan, follows, big, rebuilds, page, changes>>

\* A rebuild reads what the authors have published; overlapping requests of
\* one signature share it.
Rebuild(k, authors) ==
    IF \E r \in rebuilds : r.key = k /\ r.authors = authors THEN UNCHANGED rebuilds
    ELSE /\ Cardinality(rebuilds) < MaxRebuilds
         /\ rebuilds' = rebuilds \cup {[key |-> k, authors |-> authors, found |-> VideosOf(authors)]}

\* Mutation: the rebuild replaces what was pushed meanwhile.
Rebuilt_Replaces(r) == Newest(r.found, Capacity)

\* Mutation: the set is not trimmed after the rows are added.
Rebuilt_Untrimmed(r) == index[r.key] \cup Newest(r.found, Capacity)

\* The newest rows are added to what is there.
Rebuilt(r) == Newest(index[r.key] \cup Newest(r.found, Capacity), Capacity)

\* AppendFollowing with the signature; its error is dropped.  Who waits for
\* the rebuild goes on to the database.
Land(r) ==
    /\ rebuilds' = rebuilds \ {r}
    /\ \/ /\ index' = [index EXCEPT ![r.key] = Rebuilt(r)]
          /\ marker' = [marker EXCEPT ![r.key] = r.authors]
          /\ missed' = [missed EXCEPT ![r.key] = @ \ r.found]
          /\ UNCHANGED faults
       \/ Fault /\ UNCHANGED <<index, marker, missed>>
    /\ UNCHANGED <<stored, queue, fan, follows, big, page, changes>>

\* Whose videos an index is read for by now.
ReadFor(k) == IF k = Inbox THEN follows \ big ELSE {k}

\* Another reader of a celebrity's index.
OthersRead(k) ==
    /\ marker[k] = {} /\ Rebuild(k, {k})
    /\ UNCHANGED <<stored, queue, fan, follows, big, index, marker, page, missed, changes, faults>>

-----------------------------------------------------------------------------
Others == <<stored, queue, fan, follows, big, index, marker, missed, changes>>

\* The last video of a page that had more, or none.
Cursors == {0} \cup {v \in VideosOf(follows) : Below(VideosOf(follows), v) # {}}

\* ListFollowingCursor: the followed authors are read first.  Nobody followed
\* is an empty page.
Ask(cursor) ==
    /\ page.pc = "idle"
    /\ follows # {}
    /\ page' = [NoPage EXCEPT
                   !.pc = "classify", !.cursor = cursor, !.authors = follows,
                   !.owed = Below(VideosOf(follows) \ queue, cursor)]
    /\ UNCHANGED <<Others, rebuilds, faults>>

\* The first Limit of the rows are shown, newest first; one more says that
\* there is more, and then older ones may be left out.
Answer(p, rows) ==
    LET shown == SubSeq(rows, 1, IF Len(rows) < Limit THEN Len(rows) ELSE Limit)
        more  == Len(rows) > Limit
        older == {v \in Videos : more /\ v < shown[Limit]}
        wrong == {shown[j] : j \in {j \in DOMAIN shown : \E i \in 1..(j - 1) : shown[i] <= shown[j]}}
    IN  [NoPage EXCEPT !.unseen = (p.owed \ (ToSet(shown) \cup older)) \cup wrong]

\* Service.query for one page and one more.
Rows(authors) == InOrder(Newest(Below(VideosOf(authors), page.cursor), Limit + 1))

\* The counts decide how each author is read; with too many celebrities the
\* database answers, for whom the viewer follows by now.
Classify ==
    /\ page.pc = "classify"
    /\ LET stars == page.authors \cap big IN
       page' = IF Cardinality(stars) > MaxPullSources
               THEN Answer([page EXCEPT !.owed = @ \cap VideosOf(follows)], Rows(follows))
               ELSE [page EXCEPT !.pc = "read", !.normal = page.authors \ stars,
                                 !.todo = stars \cup (IF stars = page.authors THEN {} ELSE {Inbox})]
    /\ UNCHANGED <<Others, rebuilds, faults>>

\* The source that is next: the inbox, then the celebrities.
Source == IF Inbox \in page.todo THEN Inbox ELSE CHOOSE k \in page.todo : TRUE
SourceAuthors == IF Source = Inbox THEN page.normal ELSE {Source}

\* A source has given its rows; the last one's completes the page.
Gives(p, rows) ==
    LET all == Append(p.rows, rows) IN
    IF p.todo = {Source} THEN Answer(p, Merge(all, Limit + 1))
    ELSE [p EXCEPT !.pc = "read", !.todo = @ \ {Source}, !.rows = all]

\* Members that are videos of the source's authors.
Valid(members) == members \cap VideosOf(SourceAuthors)

\* Mutation: a short source is believed.
Short_Never(rows) == FALSE

\* Fewer than were asked for: older ones may not be cached.
Short(rows) == Cardinality(rows) < Limit + 1

\* ReadFollowing.  If the index is not ready for these authors it is rebuilt;
\* if Redis fails, or the members or their rows are too few, the source is the
\* database.
ReadSource ==
    /\ page.pc = "read"
    /\ LET members == Newest(Below(index[Source], page.cursor), Limit + 1)
           ready   == marker[Source] = SourceAuthors /\ index[Source] # {}
       IN  \/ /\ Fault
              /\ page' = [page EXCEPT !.pc = "query"]
              /\ UNCHANGED rebuilds
           \/ /\ ~ ready
              /\ Rebuild(Source, SourceAuthors)
              /\ page' = [page EXCEPT !.pc = "rebuild"]
              /\ UNCHANGED faults
           \/ /\ ready
              /\ page' = IF Short(Valid(members)) THEN [page EXCEPT !.pc = "query"]
                         ELSE Gives([page EXCEPT !.owed = @ \ (missed[Source] \cap VideosOf(SourceAuthors))],
                                    InOrder(Valid(members)))
              /\ UNCHANGED <<rebuilds, faults>>
    /\ UNCHANGED Others

\* Once the rebuild is over, and wherever the index will not do.
QuerySource ==
    /\ \/ page.pc = "query"
       \/ /\ page.pc = "rebuild"
          /\ \A r \in rebuilds : ~ (r.key = Source /\ r.authors = SourceAuthors)
    /\ page' = Gives(page, Rows(SourceAuthors))
    /\ UNCHANGED <<Others, rebuilds, faults>>

\* The database refuses: an error is answered.
PageFails ==
    /\ page.pc # "idle"
    /\ Fault
    /\ page' = NoPage
    /\ UNCHANGED <<Others, rebuilds>>

-----------------------------------------------------------------------------
Next ==
    \/ \E v \in Videos : Commit(v) \/ TakeEvent(v)
    \/ \E a \in Authors : Change(a)
    \/ CountFollowers \/ ReadBatch \/ AppendBatch \/ FanoutFails
    \/ \E k \in Keys : Expire(k)
    \/ \E k \in big : OthersRead(k)
    \/ LoseData
    \/ \E r \in rebuilds : Land(r)
    \/ \E cursor \in Cursors : Ask(cursor)
    \/ Classify \/ ReadSource \/ QuerySource \/ PageFails

Spec == Init /\ [][Next]_vars

-----------------------------------------------------------------------------
\* Excused from an index for up to a minute: videos passed by because the
\* relation or the threshold was changed and changed back, and those lost with
\* Redis while a rebuild was under way.
Excused(k) == IF changes > 1 \/ faults > 0 THEN missed[k] ELSE {}

\* An index that a request of now would trust holds every announced video of
\* its authors, back to where its capacity ends.
IndexIsComplete ==
    \A k \in Keys :
        LET authors == ReadFor(k) IN
        marker[k] = authors =>
            \A v \in VideosOf(authors) \ (queue \cup index[k] \cup Excused(k)) :
                Cardinality({u \in index[k] : u > v}) >= Capacity

\* A page shows newest first and nothing twice, and of the videos announced by
\* then of the authors followed none is left out but older ones, when there is
\* more, and what an index that was read lacks for a minute at most after
\* changes or a fault: ReadSource takes what the index has missed out of what is
\* owed, and IndexIsComplete says when an index may have missed anything.
PageIsComplete == page.unseen = {}
=============================================================================
