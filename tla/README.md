# Verification of the feed system's backend

TLA+ models, TLC runs and TLAPS proofs for the Go backend under `src/backend`:
an API process and worker processes around MySQL, RabbitMQ and Redis.

## 1. The system

### Parts, state, operations, correctness

| Part | State it keeps | Operations | What makes it correct |
|---|---|---|---|
| Interaction API (`video/like_service.go`, `video/comment_service.go`) | none of its own | Like, Unlike, Publish and Delete of comments: check, then insert a command into `outbox_msgs` | a command accepted is never lost |
| Transactional outbox (`worker/outboxworker.go`, `rabbitmq/publisher.go`) | `outbox_msgs` rows, row locks, publisher confirms | lock a row, publish with `mandatory` and wait for the confirm, delete, commit | at-least-once: a row leaves only after the broker has the message |
| Like and comment consumers (`worker/likeworker.go`, `worker/commentworker.go`, `video/like_repo.go`, `video/comment_repo.go`) | `likes`, `comments`, `videos` counters, `consumed_events` inbox | one transaction: inbox row, rows, counters, heat row | each command takes effect once; counters equal a recount |
| Popularity consumer (`worker/popularityworker.go`, `middleware/redis/interaction.go`) | minute buckets, `hot:processed:*` markers, cache generations | one Lua script per event | heat equals popularity up to events on the way; nothing is counted twice |
| Video detail cache (`video/video_service.go`, `middleware/redis`) | `video:detail:*`, its lock, its generation | read through, guarded fill | a stale entry is gone once the heat event is consumed |
| Global timeline, latest feed (`worker/outboxworker.go`, `feed/service.go`) | `feed:global_timeline`, local caches | consume, trim, rebuild, page | every page is newest first and complete |
| Entity cache (`feed/service.go`) | process cache, `video:entity:*` | three-level read with fills | bounded staleness |
| Following feed (`followfeed/`, `worker/fanoutworker.go`) | inbox and author timelines with ready markers | push, rebuild, k-way merge | nothing missing or twice across pages |
| Social relations (`social/`, `worker/socialworker.go`) | `socials` rows, following cache | follow, unfollow; the worker applies the event again | the relation is what the last request made it |
| Notifications and SSE (`worker/notification*.go`, `worker/ssehub.go`) | `messages` rows, client map | consume, bridge, broadcast, register, shut down | a row per event at most; no send on a closed channel |
| Accounts and sessions (`account/`, `middleware/jwt`) | token columns, two cache keys | login, refresh, logout | a revoked token is refused |
| Chunked upload (`video/chunk_handler.go`) | upload session in Redis, files | init, chunk, status, complete | the file is complete or absent |
| Task runtime (`worker/runtime.go`, `worker/bootstrap.go`) | goroutines, contexts | restart for ever, ordered shutdown | a task comes back until shutdown |
| Rate limiting, routing, configuration, frontend | counters; none | | |

### How the parts interact

A like, unlike, comment or comment deletion travels:

    API --(check, then INSERT outbox_msgs)--> MySQL
    OutboxPoller --(row lock, publish, confirm, DELETE, COMMIT)--> RabbitMQ
    RabbitMQ --> LikeWorker / CommentWorker
        one transaction: consumed_events row, likes or comments row, counters,
        and an outbox row for the heat event
    OutboxPoller --> RabbitMQ --> PopularityWorker --> one Redis script:
        marker, minute bucket, new generation of the video, cached copies dropped

Readers meet that path in two places: the pages of the hot list are made of the
minute buckets, and `GetDetail` serves a cached copy that the script drops.
Publishing a video writes an outbox row in the transaction of the video; its
message feeds the global timeline (`Timeline`) and the fan-out to followers
(`FollowFeed`).  Follow and
unfollow go to MySQL first and then, directly and unsafely, to RabbitMQ.
Notifications are written by consumers of the same exchanges and broadcast to
every API process (`Notify`).  A browser keeps a session (`Session`) that the JWT
middleware checks against Redis and MySQL on every request.

### What is hard

Any process may stop between two steps; every loop ends at its first error and
is restarted; confirms, commits, script answers and acknowledgements can be
lost after they took effect, so work is done again; messages are redelivered,
duplicated and reordered, by several consumers, several pollers and late copies
of a publish that timed out; requests check in one statement and write in
another; caches are filled by slow readers after the data changed, their locks
and entries expire; Redis keys with different deadlines must expire together.
`hazards` in `PROJECT.json` lists each at its line.

## 2. The modules

| Module | Models | Source |
|---|---|---|
| `Interaction` | the whole path above: API, outbox, pollers, queues, consumers, transactions, popularity script | `video/like_*.go`, `video/comment_*.go`, `video/interaction_events.go`, `worker/*worker.go` |
| `ExactlyOnce` | what that path promises: commands take effect at most once, counters are recounts | (abstract) |
| `OutboxPoller` | `RunOutboxPoller`, `dispatchOutbox`, `ConfirmedPublisher` in detail | `worker/outboxworker.go`, `middleware/rabbitmq/publisher.go`, `worker/runtime.go` |
| `Relay` | what the outbox promises: at least once, nothing uncommitted | (abstract) |
| `HotRank` | minute buckets, markers, snapshots, pages | `middleware/redis/interaction.go`, `feed/service.go` |
| `VideoCache` | `GetDetail`, its lock, generation and fills, against invalidation | `video/video_service.go`, `middleware/redis/redis.go`, `middleware/redis/interaction.go` |
| `ChunkUpload` | the pages, handlers, session, index and files of a chunked upload | `video/chunk_handler.go`, `video/chunk_entity.go`, `frontend/src/views/VideoView.vue` |
| `Social` | follow and unfollow, the shared publisher, both consumers of the event | `social/*.go`, `rabbitmq/publisher.go`, `worker/socialworker.go`, `worker/notificationworker.go` |
| `Timeline` | publication, the timeline consumer, the rebuild, `ListLatest` and the page that scrolls | `worker/outboxworker.go`, `feed/service.go`, `feed/repo.go`, `video/video_service.go`, `frontend/src/composables/useVideoFeed.ts` |
| `FollowFeed` | fan-out, indexes with their ready markers, rebuilds, and the page merged from them | `worker/fanoutworker.go`, `followfeed/*.go`, `middleware/redis` |
| `Notify` | the broadcast, the bridge, the hub, the streams, and the shutdown of the API process | `worker/notification*.go`, `worker/ssehub.go`, `http/server.go`, `worker/runtime.go` |
| `Session` | the tokens of an account, their copies in Redis, the middleware, and the tabs of a browser | `account/*.go`, `middleware/jwt/jwt.go`, `frontend/src/api/client.ts` |
| `MC...`, one for each module with a specification to run | instances, symmetry and bounds for TLC | |
| `InteractionProofs`, `DeliveryProofs` (of `OutboxPoller` and `HotRank`), `CacheProofs` (of `VideoCache` and `Timeline`), `FollowFeedProofs`, `SocialProofs`, `NotifyProofs`, `ChunkUploadProofs`, `SessionProofs` | theorems and proofs | |

Two components whose theorems share a module have different names for everything:
`HotRank` has `HotInit`, `HotNext`, `HotSpec`, and `Timeline` `LatestInit` and so on.

An operator whose name is another one's with a suffix (`Claim_NotHeat`,
`FillScript_Unconditional`) is a mutation of it: a bug somebody could plausibly
write there.  No specification uses it; the properties are tested against it,
one mutation for each property (`mutants` in `PROJECT.json`): put in place of the
original, the property must fail.

### Interaction

An event id stands for one command and, in another queue, for the heat event of
that command; so a message is a queue and an event id, and `body` holds what the
JSON carries.  `Like`, `Unlike`, `PublishComment`, `DeleteComment` are the
handlers' checks, `Enqueue` the insertion of the row (`EnqueueEvent`): separate
steps, as the code reads and writes in separate statements.  `Claim`, `Publish`,
`DeleteRow` are the three parts of `dispatchOutbox`'s transaction and
`Rollback` each way it can fail, a lost commit answer excepted: a commit that
took effect with its answer lost is `DeleteRow` to everybody but the poller's log.
`Deliver`, `Process`, `Ack` are a consumer's handling of a delivery, `Fail` and
`Uncertain` an attempt that ends in an error without and with its effect,
`Requeue` a shutdown, crash, lost connection or lost acknowledgement.  A
transaction is one step, since the inbox row's unique key, the `videos` row lock
and the like's unique key order conflicting ones; a Redis script is one step.

- Queues keep no order: with prefetch 50, several consumers, requeues and late
  copies, every order can happen, and the model allows all of them.
- A delivery prefetched but not yet handled is a copy still in the queue.
- The dead-letter queues have no consumer in this code: `dead` only grows.
- `VideoService.Delete` has no route at this commit, but consumers handle a
  missing video; `DeleteVideo` makes it happen at any time.
- `UpdatePopularity` and `UpdateLikesCount` have no callers outside tests and are
  left out; `ApplyLike`, used by tests, is the same effect without the inbox.
- Time is left out: the two hours during which a heat event is accepted.
  `HotRank` has the clock.
- Ids of one poller's choice (`ORDER BY id`) are left open, here any unlocked row
  may be taken: `OutboxPoller` has the order.
- Malformed messages, which the code drops or dead-letters, are not produced by
  this code and are left out, with the validation of request fields.

### OutboxPoller

Rows have ids in the order of insertion and become visible in the order of
commit.  `Start` is the restart by `Tasks.Go` with dial and declarations, `Claim`
the `SELECT ... FOR UPDATE SKIP LOCKED`, `Publish` the send, `Accept` and `Refuse`
the broker's answers, `Retire` the deletion and commit, `Abort` every other end
of the transaction, which ends the task.  A copy whose publisher gave up is an
orphan that the broker may still read (`LateCopy`).  `bound` stands for all the
queues of the exchange: that an operator removes one of two queues, so that the
broker still finds a route, is not modelled.

### HotRank

Time is counted in minutes; a bucket and its markers expire at a whole minute.
`AddHeat` is the script's branch that counts; the other branches leave the
buckets alone.  `Exists`, `Union`, `Expire`, `Read` are the Redis commands of one
`ListByPopularity`, each of which may fail silently as the code ignores every
error; `Forget` is the expiry of a snapshot, at any time after it got one.
Scores are sums; ties and page offsets are left out, they do not matter to what
the properties say.  `counted` is a history variable.

### VideoCache

Keys of different videos are independent, so one video is modelled; its row is a
version number, one more for each committed change.  `Invalidate` is the
popularity script for one change, in any order, `GiveUp` its dead-lettering.  A
reader is the control flow of `GetDetail` step by step: look, lock, look again or
wait, generation, row, fill, unlock; every Redis answer may be an error, a fill
may be executed after its caller timed out, a lock may expire under its holder,
a process may stop anywhere.  A `SETNX` whose answer is lost takes effect at once
or never.  A redelivered event past its deadline (which drops the copy once
more) and loss of Redis data are not modelled.  `known` and `lapsed` are history
variables.

### ChunkUpload

One account, one file, browser tabs.  `Publish`, `SendChunk` and `SendComplete` are
`uploadVideoChunked` in the page with its three chunks at a time.  The loop of a
chunk (`uploadOne`) belongs to its request: after an error it sends the chunk again
at once (`SentAgain`, `Again`), three times in all, also when another chunk has given
up and the publication has failed, which nobody hears of any more (`Forsaken`); then,
and after an error of init or complete, the publication fails (`TabsAfter`).  The
handlers are one action per call on Redis or the disk: `Find`, `Load`, `Refresh`,
`Rewrite`, `New`, `Point` of init, `ReadSession`, `Create`, `Write`, `Save` of a
chunk, `Check`, `Merge`, `Remove`, `Forget`, `Unpoint` of complete.  A file is
absent, a part (created and not written) or whole.

Failures: `Fails` is a failing call whose error is answered; a failing call whose error
is dropped is a choice of its action, so that a failing read of init (`Find`, `Load`)
begins a new upload beside the one there is.  `Lose` is a connection that breaks: the
browser sees an error, and the handler goes on with its context cancelled (`cut`), so
that from some Redis call on, all fail (`Cancelled`).  A request that never reaches the
server is one lost and cancelled at its first call.  `Crash` ends all requests under
way, and their chunks are sent again like after any other error; `Expire` is a session's
24 hours.

- The bytes of a chunk are left out: its MD5 is checked before the file is
  created, so a body is right or refused.
- `Merge` reads one chunk a step, in order; `whole` says whether each was there in
  full when it was read.
- A Redis call that fails has no effect.  A tab is not closed or reloaded, and does not
  publish the file again once it has its address.
- `/video/chunk/status` changes nothing and no page calls it.
- The module and its theorems are for any number of tabs; the run has one.

### Social

One follower and one author.  A request goes through `Check` (`IsFollowed`), `Write`
and `Publish` or `PublishUnconfirmed`, and `RequestFails` is a failing database
call on the way.  `failed` is the flag of the `ConfirmedPublisher` that all
requests of the API process share; only `Restart` takes it back.  `Deliver`,
`ApplyRelation`, `Ack`, `Fail`, `Disconnect` are the social worker; `InsertRow` and
`Push` what the notification worker does instead.  `last`, the kind of the last
request that wrote, `unconfirmed` and `pushed`, the events whose notification was
published for the bridge, are history variables.

- One worker process: its queue keeps the order, and what comes back from a
  consumer that stopped comes back in its place.  With several processes two
  events of a pair could be applied in the other order.
- A copy of an unconfirmed event reaches the queue at once or never.
- `DelByPattern` of `feed:listByFollowing` after each write is left out: no code at
  this commit writes those keys.
- Of the notifications only the follow's are stored here, and `Push` to the bridge
  has no effect; `Notify` goes on from there.

### Timeline

`BeginPublish` takes the time of a video and `Publish` is the commit of its
transaction, so that videos appear in another order than that of their times.
`Add` and `TrimAndAck` are the consumer's ZADD and ZREMRANGEBYRANK, between which it
may fail.  A request of the followed tab is `AskPage`, `ReadTail` (the watermark),
`Lead` and `Land` (the rebuild, shared through singleflight), `ReadIds`, `Query` and
`Reply`; `Share` is the answer of a query that another request began before a video
was stored.  `LoseData` is Redis without part of its append-only file or all of it.
`owed` is the history variable that says what a scroll should show, `gone` what lost
data took.

- Excused, because the code does it: videos of the millisecond a page ends with, or
  that ends its part from the sorted set (the cursor is a time, without the id);
  videos that the sorted set hides between a ZADD and its trim, when its oldest
  entry is older than one already trimmed, and until the next trim after a rebuild;
  and videos lost with Redis that a rebuild, led by the first event to come
  afterwards instead of an empty set, does not bring back.
- The key of the shared query of a first page is the present time, as if it were a
  cursor, and so a page below that very millisecond may share it (`ShareOtherPage`):
  such a scroll is not followed further.
- The copies of the entity cache are not modelled; a row that cannot be read is
  left out of the page, as the code does.
- Ids grow with the time of publication.  Nothing deletes a video at this commit.

### FollowFeed

One viewer; a video is its place in the order `(create_time, id)` that members,
queries and cursors use.  `TakeEvent`, `CountFollowers`, `ReadBatch`, `AppendBatch`
are the fan-out of one event, `FanoutFails` its redelivery from the beginning.  An
index is a sorted set trimmed to its capacity, trusted while its marker carries the
signature of the authors it was rebuilt for; `Rebuild` and `Land` are the rebuild
and its append.  `Ask`, `Classify`, `ReadSource`, `QuerySource` are a request of the
viewer, and `Merge` is the heap of `kWayMerge` as a recursive function.

- The repository's README promises eventual consistency here (`src/README.md:208`, `:210`): a
  marker lives 60 seconds, and what a change of relations changed back, or a loss
  of Redis in the middle of a rebuild, has hidden is shown after that.  `Excused`
  says which videos.
- Redis losing its last second only, the day after which an index itself expires,
  and the older cursor `latest_time` are not modelled.

### Notify

The streams of one account in one API process.  `Broadcast` is the worker's publish
to the fanout exchange, `BridgeUp`, `Take`, `Pushed`, `BridgeLoses`, `BridgeEnds` the
bridge with its queue and its memory of a minute, `PushTo` the hub's loop under its
read lock, `Subscribe`, `Receive`, `Written`, `Leave`, `Unsubscribe` a handler of
`/notification/stream`, `Cut` a client that goes away.  `Signal`, `CloseHub`,
`Shutdown`, `Exit` are the end of `main`.  `excused` says what a stream may miss:
broadcast before it subscribed or while no queue was bound, or refused by its own
full channel; the client reads the list for those.

- The token check of a stream, an error of the listener, the list, its unread count
  and read marks are left out.  Notices are not broadcast after the signal: `BOUND`.
- The frontend at this commit opens no stream.

### Session

Access tokens are numbered as they are issued; a refresh token has the number of
the access token it came with.  `Check`, `CheckRow`, `Fill` are the middleware, `Act`,
`Set`, `Del`, `Clear` the handlers of login, rename, logout and change of password,
`Lookup`, `Find`, `Update`, `Store` and, without the lookup key, `Scan`, `Rescan` the
refresh; `Refused`, `Again`, `NotRefreshed` are what the page does with a 401.

- `calm` is a history variable: nothing has disturbed the session.  It is disturbed by
  a failing call, by another request under way while the row's token changes, and
  by a refresh without its lookup key; a login afterwards ends the disturbance.
  What happens then is in the model and stated by no property: see section 5.
- Two access tokens issued for one name within a second are the same string; the
  model keeps them apart.
- What a password or a profile is, and registration, are left out.

## 3. The runs

| Run | Question | Bounds |
|---|---|---|
| `interaction` | do counters equal rows, does the heat keep up, do replays change nothing? does `Interaction` implement `ExactlyOnce`? | 2 users, 1 video, 3 messages in flight, 1 of them a heat event, a delivery that has failed counting twice; 2 commands of any kind, or 3 likes and unlikes of one user; any number of failures |
| `interaction_liveness` | is nothing lost, does every command and the heat of every change settle? | 1 command, any number of failures |
| `outbox` | at least once, twice only after a failure, every row in the end? does `OutboxPoller` implement `Relay`? | 2 rows, 2 pollers, failures never end |
| `hotrank` | is every event counted once and the window complete? | 2 events, 2 videos, life 3, window 2, 5 minutes |
| `detail` | does an old copy come back, is an answer fresh, who unlocks, does staleness end? | 2 readers, 2 changes, 1 late fill at a time |
| `timeline` | has the sorted set a hole, is a scroll complete and in order, is every request answered? | 3 videos, 1 of them from before, 2 moments, 2 entries kept, pages of 2, 1 fault |
| `followfeed` | is a trusted index complete, does a page leave anything out? | 2 authors, 3 videos, indexes of 2, pages of 1, 1 celebrity at most read singly, 1 change or fault, 1 rebuild at a time |
| `notify` | does each stream get each notification once, does a push meet a closed channel, does the process end? | 2 streams, 2 notifications, 1 place in a channel, 1 fault |
| `session` | does Redis answer for the row, does a good refresh token keep a tab logged in? | 2 tabs, 2 requests, 3 tokens, 1 fault |
| `upload` | is a recorded chunk on the disk until a merge used it? is a merged file whole, and does a user who tries again get it uploaded, when nothing fails? | 1 tab, 2 chunks, 2 at a time, 2 attempts, 2 uploads, 1 lost connection, 2 failing calls or crashes |
| `upload_lost_update` | does the session record what was answered with 200? (**violated**) | 1 tab, 2 chunks at a time |
| `social` | is the relation what the last request made it? does each queued event leave exactly one notification, stored and pushed, or a dead letter? | 4 requests in a row, 1 retry, 1 lost event, 2 faults |

Why these bounds show something.  Three likes and unlikes make like, unlike, like of
one user; two users are needed for a counter that differs from a flag.  A queue keeps
no order in the model, so one consumer of each sees every order, and `MaxCopies` 2
lets a message be consumed while its duplicate waits.  Failures are not counted: the
messages in flight bound `interaction`, where an outbox row and its first copy are one
message.  Three are an event left over from an earlier command, a later command, and
the heat event of one of them: so an event is delivered again after a later command was
consumed, while that one's heat is on its way or its own copy waits, and with the third
like after both.  What a dead letter holds is not told apart there (`VIEW Alive`): no
step and no property of that run reads `dead`.  One command bounds
`interaction_liveness`; the theorems are for any number of messages and commands.  `MaxRetries`
is 1 instead of 3: retry and giving up both happen.  Two rows and two pollers give a
row that commits after a newer one was taken, and a poller that skips a locked row.
With life 3, window 2 and five minutes, buckets fill, leave the window and
expire, and events arrive after their deadline.  Two readers and two changes
give a slow reader that fills with what it read before each of the two.  Three
videos, two kept and two a page, give trimming, a page from the sorted set, one
stitched to the database and one from the database, and with two moments ties; a
page of one and an index of two with three videos give the same to the following
feed, and with two celebrities and one singly read also the third way.  One place in
a channel is full after one notification.  Two tabs with two requests are the
requests of one tab that share a refresh and tabs that refresh beside each other; a
third token is the next login.  Two chunks at a time lose each
other's records; two faults are a failing read that begins a second upload and a crash, or
a crash in each attempt of a chunk.  Four requests give follow, unfollow, follow, unfollow with the
events of all of them queued behind a slow worker.  The passing runs take two
seconds to about two minutes.

Deadlock checking is off: event ids, rows, versions and minutes run out, and the
system may then rest.

### Fairness

`Interaction`: weak fairness of pollers and consumers, and failures end
eventually (`<>[][~Fault]_vars`).  `Tasks.Go` restarts a loop for ever, one second
after it ended; a loop takes whatever row or delivery there is; that the
infrastructure does not fail for ever is an assumption on MySQL, RabbitMQ and
Redis.  Nothing is assumed of clients: a request that passed its check may never
be enqueued.

`OutboxPoller` drops that last assumption: failures go on for ever, and strong
fairness of `Claim`, `Publish`, `Accept` and `Retire` says they do not hit every
attempt.  `Abort` is weakly fair because `Publish` waits three seconds at most.  The
queue is not removed for ever again (`<>[][~Unbind]_vars`): a restart declares it.

`VideoCache` assumes only the clock that ends the copy's five minutes.

`Timeline` assumes that the server goes on with the requests it began and that the
rebuild's ZADD does not fail for ever; nothing of the consumer.  With the run's one fault
`RequestEnds` is about a request that meets one failing write.  `Notify` assumes
that the process goes on with what it can do: a client need not read, and RabbitMQ
need not be there.  `FollowFeed` and `Session` have no liveness property.

`ChunkUpload` assumes that a handler goes on and that a tab goes on with an upload
its user began, and begins again after an error: `UploadFinishes` is about such a
user.  `Social` assumes that requests and consumers go on; nobody need follow.

## 4. What is proved

For all values of the constants, by TLAPS:

- `InteractionProofs`: `TypeCorrect`, `LikesAreCounted`, `ReplaysAreHarmless`,
  `NothingIsLost`.  Type correctness is not inductive alone: that a handler finds
  the command of its message needs *every message anywhere names a known command of
  its queue* (`MessagesKnown`, with `TypeOK` the invariant `TInv`).  The count of
  likes is carried by *likes are rows of users* and the rules of `Cardinality` under
  adding and removing one row (`LInv`).  Why may a row be deleted, or a delivery
  acknowledged?  `NInv` adds to `NothingLost` that *a poller whose publish was
  confirmed knows the message is with the broker or done* and *a consumer about
  to acknowledge knows the work is done*; `StoredStays` shows that what the
  broker has stays there until it is done.
- `InteractionProofs`, of the counters: `PopularityIsExplained`, `HeatIsConserved`, and that
  `Interaction` implements `ExactlyOnce` (`ActsExactlyOnce`).  The two equations hold
  also for deleted videos (`PInv`, `HInv`), which an induction needs because a video is
  deleted between a message's publication and its consumption.  Three facts carry
  them: a message in the outbox, a queue or a consumer's hands tells of an accepted
  command, and a heat message of a change that was made (`MessagesReal`); only a
  consumed event has a change (`EventsOK`); a publication that was applied while
  its video is there has its point (`CommentsHavePoints`).  `FirstUseMoves` says what
  the first consumption of an event does to rows and counters, `SetsAfterMove` what
  that does to the counted sets; everything else a queue does shows nothing
  (`VisibleSteps`).
- `DeliveryProofs`, of `OutboxPoller`: `TypeCorrect`, `OneCopyWithoutFailure`, and that `OutboxPoller`
  implements `Relay` (`RelaysAtLeastOnce`).  `LocksOK` is what `FOR UPDATE SKIP
  LOCKED` gives: a claimed row is pending, and claimed once.  `ConfirmsOK`, an
  acknowledgement in hand means that the broker has the message, is why deleting the
  row is a step of `Relay`; `SentOnce`, the only copy of a row without a failed
  dispatch is acknowledged to the poller that holds it, is why nobody sends another.
- `DeliveryProofs`, of `HotRank`: `EventsCountOnce`, `BucketsAndMarkersAgree`.  A counted
  heat event is marked or past its deadline (`CountedStaysCounted`): marker and deadline
  take over from each other without a gap.  `HotTypeCorrect` and
  `SnapshotsAreTheWindow` are about a sum over buckets, a fold: it is a function
  chosen to satisfy its recursion, and so is what one shows to satisfy it once at
  most one function does (`OneTotal`).  That of the sums is the number of markers of
  the minutes summed (`MarksAddUp`), by `BucketsAndMarkersAgree`; the markers of a
  window are the events counted in it, none of them ahead of the clock
  (`CountedInTime`).
- `FollowFeedProofs`: `FeedTypeCorrect`, `IndexesAreComplete`, `PagesAreComplete`.  A video of the authors a marker or a rebuild
  under way is for is in the queue, has been missed, or is in the index or past its end
  (`MarkersOK`, `RebuildsOK`), which needs what the fan-out has in hand to be in its
  author's index (`FanOK`).  Without faults nothing is missed of authors that the index
  is read for (`MissedOK`), up to the first change of the relation, since no marker or
  rebuild is for the new authors yet (`Steady`).  The page (`PageInv`) owes announced
  videos only, each of the authors of a source still to read or *reached* by some rows
  it was given: they have it, or are as many as were asked for and all newer.  An
  index that gives enough reaches what it should because it is never longer than its
  capacity (`IndexReaches`, `SizesOK`), the database always (`RowsReach`), and the merge
  what one of its sources does (`MergeReaches`).  The loop of `Merge` keeps what it
  took in order and above all it has yet to take (`MergeOK`), and each iteration takes
  one more entry until all are taken or the page is full (`StepMerges`).
- `CacheProofs`, of `VideoCache`: `TypeCorrect`, `NoOldCopyReturns`, `DetailIsFresh`,
  `NobodyElseUnlocks`.
  `CInv` says that the generation is the number of applied changes (`Tokens`), that a
  fill on its way whose token is still current carries all of them
  (`Fills`), what a reader may already answer with (`Answers`) and what it holds
  where (`Locals`).
- `CacheProofs`, of `Timeline`: `NoHole`, `LatestTypeCorrect`, `ScrollsAreComplete`.  A stored video that is not in the sorted set is
  to be announced, lost with Redis, or has `Keep` others no older there (`Accounted`),
  and the rows of a rebuild have `Keep` no older than any they lack (`FlightOK`).  So an
  older entry makes more than `Keep`.  That trimming keeps this is `TopIsKept`: if
  `Keep` or more are at the top of a set, trimming leaves as many of these.
  What the tab shows is above its cursor, and down to the cursor it has what it is owed
  (`ShownOK`); the page lies below, and has what it owes down to where its query begins
  (`PageOK`), or is all there is, or full (`ReplyOK`).  That the sorted set's part owes
  nothing more is `NoHole` again: what is newer than the last video found is in the set,
  and among its first `Limit` (`FoundIsAll`).  That an empty set is told from an empty
  table is *who waits for a rebuild is owed only what was lost* (`EmptySetOwesNothing`).
  The order of what was found exists because every set of videos has a last one
  (`HasOrder`, `LastOf`).
- `SocialProofs`: `TypeCorrect`, the action property `OnceOrDead` (`NotifiedOnce`), and
  `Converges` under the assumption `MaxConcurrent = 1`.  What the notification worker has
  done of an event is told by where its delivery is: past the insertion one row, before
  the acknowledgement the push (`NInv`); a retry or a redelivery begins again without
  taking either back, and no other step takes from its queue (`OthersAppend`).  Why can applying old events again do no harm?
  The end of the worker's queue agrees with the last writer unless that one has
  yet to publish (`EndIsLast`, `WriterIsLast`), requests do not overlap
  (`OneAtATime`), and the event about to leave an otherwise empty queue is what the
  relation is (`AppliedIsThere`).  That a publisher gave up says an event is
  unconfirmed (`FailedIsUnconfirmed`), so nothing was promised; `QueuedBegan` and
  `RunningBegan` keep the kind of a queued event from changing.
- `NotifyProofs`: `HubIsSafe`, `GivenOnce`.  The lock is `push`: while it is taken
  nobody leaves the hub, and so what Push has still to come to is in the hub and
  open (`Open`).  A notification is in the queue, in Push on its way to the stream,
  or settled (`NoneForgotten`); that the bridge may drop what it remembers needs
  *what is remembered is settled* (`Remembered`).  It is held once because it is not
  held at all before its Push came to the stream (`Once`), which the bridge's memory
  ensures as long as it lasts.
- `ChunkUploadProofs`: `TypeCorrect`, `RecordsAreBacked`, and, under the assumption
  that there is one tab, `LoneTabGetsTheWholeFile`.  The session is written from
  what a request read earlier, so that a recorded chunk has its file needs the
  same of every request under way: what it read, and the chunk it has opened or
  written, is stored (`FilesOK`), unless the upload was merged meanwhile.  `Sources`
  and `Records` say where a request's and the session's chunks come from, `StoredStays`
  that only the removal of the directory takes a file away; a repeated request that
  truncates a stored chunk is itself about to write it, or its failure is one.
  Requests and tabs are typed by the uploads begun so far (`RequestType`, `TabType`);
  a file loses its name only in a merged upload, and no tab waits for a lost request
  (`RequestOK`).  What an error does to the request, the others and the tabs is said
  once for each kind of it (`Refused`, `Lost`, `Stopped`): a chunk that is sent again
  begins at its first step, and the loops of a failed publication go on
  (`ForsakenGoOn`), so an error leaves nothing that the invariants do not allow.  A lone tab's merge
  finds no writer: without a failure each request does what its tab waits for
  (`Waited`), and two are under way together only for different chunks (`Apart`), so
  that when the session is complete every chunk is whole and stays so; what is
  resumed was not merged (`Unmerged`), because the index is cleared before the tab
  hears of its file.
- `SessionProofs`: `TypeCorrect`, `RedisAnswersForTheRow`, and the action property
  `NobodyIsLoggedOut`.  Two parts hold whatever disturbs the session (`RequestsOK`):
  a tab without an access token has no refresh token, and while a login is under way
  its tab has none, so that no refresh of that tab can begin.  The others are those of an
  undisturbed session (`CalmOK`): who writes Redis, now or later, writes the row's
  token, and between the two halves of a logout Redis is empty (`WritesTheRow`); a
  request that has gone out again carries the row's token, unexpired, and Redis holds
  nothing else (`RetriedHolds`), so it is not refused a second time; and a refresh asks
  with the token its tab still holds (`AsksForItsTab`), so that a refusal means the
  row has another.

The assumptions are those the modules name (`ConstantsAssumption`,
`TimesAssumption`, `NoneAssumption`, `NothingAssumption`, `BufferAssumption`, `KeepAssumption`
and the like): finite sets of users and events, a window not longer than the life of a
bucket, `None` distinct from all values, sizes that are not zero.  TLC evaluates them
in the runs.

Only model-checked, because the prover cannot do it: liveness, with fairness and
`ENABLED` (the two refinements proved have no fairness).  The library's induction
theorems take an operator as a parameter; the inductions here (`MinimalSet`, and with
it `Smallest`, `LoopRuns`, `LoopMerges`, `LastOf`, `HasOrder`) go by a minimal
counterexample instead.  Every other property of a passing run has its theorem.

## 5. What the runs found

`upload_lost_update`.  `chunk_handler.go:223` saves the session it read before the
chunk was written, and the page sends three chunks at a time: the second save
drops the first one's chunk.  The tab was told 200 for all, its complete
request answers that a chunk is missing, and the user publishes again.  `upload`
shows that each round gets further.

More that the models show.  The properties are stated so that they hold; what
they leave out is this.

- Upload.  The chunks are removed (`chunk_handler.go:360`) before the session is
  deleted (`:363`, error dropped, the client's context): if the client went away
  during the merge the session stays, every attempt resumes it, and completing
  fails until it expires.  `UploadFinishes` without its second disjunct shows it.
  `os.Create` (`:211`) truncates a chunk that its retry has recorded when the first
  request, its connection lost, is slower than the retry; a merge at that moment
  leaves a hole in the video, and so does a second tab: `WholeFiles` is for one tab
  and no failures.  A failing read in init (`:92`, `:95`) makes a second upload of the
  file and points the index at it; and an init that read the session before another
  tab's complete request deleted it writes it back (`:98`), merged though it is.
- Relations.  The service writes the relation and sends an event "for notifications"
  whose failure does not matter (`social/service.go:51`), but the worker applies it
  to the relation once more (`socialworker.go:100`).  Follow and unfollow; the
  unfollow's event is lost; the worker gets to the follow's event: the user
  follows again.  `RelationConverges` excepts lost events.  And one publish without a
  confirm, also when a client closed its connection, makes the process' publisher
  refuse all later ones (`publisher.go:30`, `:51`; nothing recreates it): follows go on
  without notifications until the process is restarted.
- Hot list.  Two requests that both found no snapshot of their `as_of`
  (`feed/service.go:390`) each build one, and the second replaces what the first
  has served a page of, although the comments (`:373`, `:386`) mean it to be stable;
  `SnapshotIsTheWindow` says each is right when it is built.  A deleted comment keeps
  the point it gave (`comment_repo.go:65`): `PopularityExplained` counts
  publications, not comments.  A heat event older than two hours changes MySQL but
  not the hot list (`interaction.go:45`): `HeatConserved` is about events in time.
- Latest feed.  What section 2 says of `Timeline`: ties of one millisecond at the end
  of a page are not shown, an untrimmed set hides a video for a moment, and a set
  refilled by the next event after a loss is not rebuilt, so that videos between
  its entries stay away from the feed.
- Sessions.  A request with the old token that is refused after a refresh has
  finished begins a second refresh, which revokes the token that the others' retries
  carry: they are refused again and the page forgets its tokens.  A refresh that
  found no lookup key (`account/service.go:237`) leaves the old token in Redis for up
  to a day: the new one is refused, and the tab is logged out.  A refresh that fails
  for want of Redis or MySQL logs the tab out too.  `StaysLoggedIn` excepts these.  The
  check that fills Redis after the row was read (`jwt.go:102`) can put back a token
  that a logout has just cleared.

## 6. What is not modelled, and why

- Rate limiting: one counter with an expiry, which lets requests pass when Redis
  fails; nothing depends on it.
- Routing, configuration, observability, message structs: no state of their own.
- The entity cache's copies (`GetVideoByIDs`): its fills compare the generation as
  `VideoCache`'s do; its callers' pages are `Timeline`'s, where a row may be unread.
- Deletion of videos as a request: `VideoService.Delete` has no route.
- Mentions and the notifications for likes and comments: rows stored as the
  follow's, by handlers of the same shape.
- Lists by likes, by tag and by author: one query each.
- `DelByPattern` of `feed:listByFollowing`: no code writes those keys.
- Registration, profile, avatar, whole-file uploads: one write each.
- The publisher's mutex and returns channel: abstracted in `OutboxPoller`
  (`Accept`, `Refuse`) and `Social` (`failed`).
- The order in which processes start, and the worker process' end, which is
  `Tasks.Stop` without a server.
