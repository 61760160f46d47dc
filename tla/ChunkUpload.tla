---------------------------- MODULE ChunkUpload ----------------------------
(***************************************************************************)
(* Chunked upload of one file by one account: browser tabs that run        *)
(* uploadVideoChunked (VideoView.vue), the handlers of /video/chunk/init,  *)
(* /upload and /complete they call, the session and the hash index in      *)
(* Redis, and the chunk files on the server's disk.                        *)
(*                                                                         *)
(* A handler is a request under way, and for a chunk the loop of the page  *)
(* that sends it: after an error the loop sends the chunk again at once,   *)
(* also when the publication it was for has failed.  A handler goes on     *)
(* when its connection is lost, but every Redis call it makes then fails,  *)
(* at once or later, since net/http cancels the request's context.  Chunks *)
(* have a checksum, so a body is right or refused and only its place       *)
(* matters here.                                                           *)
(* /video/chunk/status changes nothing and no page calls it.               *)
(***************************************************************************)
EXTENDS Integers, FiniteSets

CONSTANTS
    Tabs,           \* browser tabs with the same file
    N,              \* chunks of the file
    MaxConcurrent,  \* chunks a tab sends at a time (3)
    MaxAttempts,    \* requests for a chunk before a tab gives up (3)
    MaxUploads,     \* BOUND: upload ids
    MaxHandlers,    \* BOUND: requests under way
    MaxLost,        \* BOUND: lost connections
    MaxFaults,      \* BOUND: failing Redis or disk calls, and crashes
    None

ASSUME ConstantsAssumption ==
    /\ {N, MaxConcurrent, MaxAttempts, MaxUploads, MaxHandlers} \subseteq Nat \ {0}
    /\ {MaxLost, MaxFaults} \subseteq Nat
    /\ None \notin Tabs \cup Nat

Chunks == 0..(N - 1)
Uploads == 1..MaxUploads
Handlers == 1..MaxHandlers

VARIABLES
    index,    \* the upload id under the file's hash, 0 for none
    session,  \* upload -> its recorded chunks, or {None} for no session
    disk,     \* upload -> chunk -> "absent", "part" or "whole"
    removed,  \* uploads whose directory was removed after a merge
    used,     \* upload ids given out
    handler,  \* handler -> the request it works on
    tab,      \* tab -> what uploadVideoChunked knows
    told,     \* history: upload -> chunks reported to a tab as uploaded
    lost,     \* connections lost so far
    faults    \* failing calls and crashes so far

server == <<index, session, disk, removed, used>>
vars == <<server, handler, tab, told, lost, faults>>

NoSession == {None}

\* tab: the publication that waits for the answer; cut: the connection is lost.
Free == [kind |-> "free", step |-> "free", tab |-> None, cut |-> FALSE,
         upload |-> 0, chunk |-> 0, attempt |-> 0,
         bits |-> {}, linked |-> TRUE, whole |-> TRUE]

Closed == [stage |-> "idle", upload |-> 0, part |-> [c \in Chunks |-> "todo"],
           whole |-> TRUE]

Steps == {"free", "find", "load", "refresh", "rewrite", "new", "point",
          "read", "create", "write", "save",
          "check", "merge", "remove", "forget", "unpoint"}

\* Steps that call Redis, and those whose error the code drops.
RedisSteps == Steps \ {"free", "create", "write", "merge", "remove"}
Unchecked == {"find", "load", "refresh", "rewrite", "forget", "unpoint"}

TypeOK ==
    /\ index \in 0..used
    /\ session \in [Uploads -> (SUBSET Chunks) \cup {NoSession}]
    /\ disk \in [Uploads -> [Chunks -> {"absent", "part", "whole"}]]
    /\ removed \subseteq 1..used
    /\ used \in 0..MaxUploads
    /\ handler \in [Handlers ->
         [kind : {"free", "init", "chunk", "complete"}, step : Steps,
          tab : Tabs \cup {None}, cut : BOOLEAN, upload : 0..used,
          chunk : Chunks, attempt : 0..(MaxAttempts - 1),
          bits : SUBSET Chunks, linked : BOOLEAN, whole : BOOLEAN]]
    /\ tab \in [Tabs ->
         [stage : {"idle", "init", "upload", "complete", "done", "failed"},
          upload : 0..used,
          part : [Chunks -> {"todo", "sent", "have"}], whole : BOOLEAN]]
    /\ told \in [Uploads -> SUBSET Chunks]
    /\ lost \in 0..MaxLost
    /\ faults \in 0..MaxFaults

Init ==
    /\ index = 0
    /\ session = [u \in Uploads |-> NoSession]
    /\ disk = [u \in Uploads |-> [c \in Chunks |-> "absent"]]
    /\ removed = {}
    /\ used = 0
    /\ handler = [h \in Handlers |-> Free]
    /\ tab = [t \in Tabs |-> Closed]
    /\ told = [u \in Uploads |-> {}]
    /\ lost = 0
    /\ faults = 0

-----------------------------------------------------------------------------
(* The tabs.                                                               *)

FirstFree(h) == handler[h] = Free /\ \A g \in 1..(h - 1) : handler[g] # Free

Request(kind, step, t, c) ==
    \E h \in Handlers :
        /\ FirstFree(h)
        /\ handler' = [handler EXCEPT ![h] =
             [Free EXCEPT !.kind = kind, !.step = step, !.tab = t, !.chunk = c,
                          !.upload = IF kind = "init" THEN 0 ELSE tab[t].upload]]

\* The user publishes, or publishes again after an error.
Publish(t) ==
    /\ tab[t].stage \in {"idle", "failed"}
    /\ tab' = [tab EXCEPT ![t] = [Closed EXCEPT !.stage = "init"]]
    /\ Request("init", "find", t, 0)
    /\ UNCHANGED <<server, told, lost, faults>>

Active(t) == {c \in Chunks : tab[t].part[c] = "sent"}

\* Chunks start in order, a few at a time.
MaySend(t, c) ==
    /\ tab[t].part[c] = "todo"
    /\ \A d \in 0..(c - 1) : tab[t].part[d] # "todo"
    /\ Cardinality(Active(t)) < MaxConcurrent

SendChunk(t) ==
    \E c \in Chunks :
        /\ tab[t].stage = "upload"
        /\ MaySend(t, c)
        /\ tab' = [tab EXCEPT ![t].part[c] = "sent"]
        /\ Request("chunk", "read", t, c)
        /\ UNCHANGED <<server, told, lost, faults>>

\* Mutation: the list is at its end, requests may be under way.
AllSent_NotWaiting(t) == \A c \in Chunks : tab[t].part[c] # "todo"

AllSent(t) == \A c \in Chunks : tab[t].part[c] = "have"

SendComplete(t) ==
    /\ tab[t].stage = "upload"
    /\ AllSent(t)
    /\ tab' = [tab EXCEPT ![t].stage = "complete"]
    /\ Request("complete", "check", t, 0)
    /\ UNCHANGED <<server, told, lost, faults>>

\* The loop of a chunk sends it again after an error, until its last attempt.
SentAgain(q) ==
    /\ q.kind = "chunk"
    /\ ~q.cut
    /\ q.attempt + 1 < MaxAttempts

Again(q) == [Free EXCEPT !.kind = "chunk", !.step = "read", !.tab = q.tab,
                         !.upload = q.upload, !.chunk = q.chunk,
                         !.attempt = q.attempt + 1]

\* An error of anything else ends the publication that waits for it.
Fatal(q) == q.tab # None /\ ~SentAgain(q)

\* The tabs when the requests of the handlers in H have failed.
FailedTabs(H) == {handler[h].tab : h \in {g \in H : Fatal(handler[g])}}

TabsAfter(H) == [t \in Tabs |-> IF t \in FailedTabs(H)
                                THEN [tab[t] EXCEPT !.stage = "failed"] ELSE tab[t]]

\* No publication waits any more for the loops of a tab that has failed.
Forsaken(q, H) == IF q.tab \in FailedTabs(H) THEN [q EXCEPT !.tab = None] ELSE q

\* Handler h answers an error, and takes the request that is sent again.
Refuse(h) ==
    /\ tab' = TabsAfter({h})
    /\ handler' = [x \in Handlers |->
          IF x = h THEN IF SentAgain(handler[h]) THEN Again(handler[h]) ELSE Free
          ELSE Forsaken(handler[x], {h})]
    /\ UNCHANGED told

\* Handler h answers with success; Known is what a tab learns.
Reply(h, seen) ==
    LET t == handler[h].tab IN
    /\ tab' = IF t = None THEN tab ELSE [tab EXCEPT ![t] = seen]
    /\ handler' = [handler EXCEPT ![h] = Free]

ReplyInit(h, u, bits) ==
    /\ Reply(h, [tab[handler[h].tab] EXCEPT
                   !.stage = "upload", !.upload = u,
                   !.part = [c \in Chunks |-> IF c \in bits THEN "have" ELSE "todo"]])
    /\ told' = IF handler[h].cut THEN told ELSE [told EXCEPT ![u] = @ \cup bits]

ReplyChunk(h) ==
    LET q == handler[h] IN
    /\ Reply(h, [tab[q.tab] EXCEPT !.part[q.chunk] = "have"])
    /\ told' = IF q.cut THEN told
               ELSE [told EXCEPT ![q.upload] = @ \cup {q.chunk}]

ReplyFile(h) ==
    /\ Reply(h, [tab[handler[h].tab] EXCEPT !.stage = "done",
                                            !.whole = handler[h].whole])
    /\ UNCHANGED told

-----------------------------------------------------------------------------
(* The handlers, one action per access to Redis or to a file.              *)

At(h, step) == handler[h].step = step
Go(h, step) == [handler EXCEPT ![h].step = step]
OK(s) == s # NoSession

\* An unchecked call that may have failed.
Unsure(ok) == /\ ok \/ faults < MaxFaults
              /\ faults' = IF ok THEN faults ELSE faults + 1

\* InitChunkUpload: an upload of the same file by the same account?  A failing
\* read is taken for none, and a new upload is begun beside the one there is.
Find(h) ==
    \E ok \in BOOLEAN :
        /\ At(h, "find")
        /\ Unsure(ok)
        /\ handler' = IF ok /\ index # 0
                      THEN [handler EXCEPT ![h].step = "load", ![h].upload = index]
                      ELSE Go(h, "new")
        /\ UNCHANGED <<server, tab, told, lost>>

Load(h) ==
    LET s == session[handler[h].upload] IN
    \E ok \in BOOLEAN :
        /\ At(h, "load")
        /\ Unsure(ok)
        /\ handler' = IF ok /\ OK(s)
                      THEN [handler EXCEPT ![h].step = "refresh", ![h].bits = s]
                      ELSE Go(h, "new")
        /\ UNCHANGED <<server, tab, told, lost>>

Refresh(h) ==
    \E ok \in BOOLEAN :
        /\ At(h, "refresh")
        /\ Unsure(ok)
        /\ index' = IF ok THEN handler[h].upload ELSE index
        /\ handler' = Go(h, "rewrite")
        /\ UNCHANGED <<session, disk, removed, used, tab, told, lost>>

Rewrite(h) ==
    \E ok \in BOOLEAN :
        /\ At(h, "rewrite")
        /\ Unsure(ok)
        /\ session' = IF ok THEN [session EXCEPT ![handler[h].upload] = handler[h].bits]
                      ELSE session
        /\ ReplyInit(h, handler[h].upload, handler[h].bits)
        /\ UNCHANGED <<index, disk, removed, used, lost>>

New(h) ==
    /\ At(h, "new")
    /\ used < MaxUploads
    /\ used' = used + 1
    /\ session' = [session EXCEPT ![used'] = {}]
    /\ handler' = [handler EXCEPT ![h].step = "point", ![h].upload = used']
    /\ UNCHANGED <<index, disk, removed, tab, told, lost, faults>>

Point(h) ==
    /\ At(h, "point")
    /\ index' = handler[h].upload
    /\ ReplyInit(h, handler[h].upload, {})
    /\ UNCHANGED <<session, disk, removed, used, lost, faults>>

\* UploadChunk: an unknown session is refused, a recorded chunk accepted.
ReadSession(h) ==
    LET q == handler[h]
        s == session[q.upload] IN
    /\ At(h, "read")
    /\ \/ ~OK(s) /\ Refuse(h)
       \/ OK(s) /\ q.chunk \in s /\ ReplyChunk(h)
       \/ /\ OK(s) /\ q.chunk \notin s
          /\ handler' = [handler EXCEPT ![h].step = "create", ![h].bits = s]
          /\ UNCHANGED <<tab, told>>
    /\ UNCHANGED <<server, lost, faults>>

\* os.Create truncates a chunk file that is there.
Create(h) ==
    LET q == handler[h] IN
    /\ At(h, "create")
    /\ disk' = [disk EXCEPT ![q.upload][q.chunk] = "part"]
    /\ handler' = Go(h, "write")
    /\ UNCHANGED <<index, session, removed, used, tab, told, lost, faults>>

\* The bytes go to the file that was opened, removed meanwhile or not.
Write(h) ==
    LET q == handler[h] IN
    /\ At(h, "write")
    /\ disk' = IF q.linked THEN [disk EXCEPT ![q.upload][q.chunk] = "whole"] ELSE disk
    /\ handler' = Go(h, "save")
    /\ UNCHANGED <<index, session, removed, used, tab, told, lost, faults>>

\* Mutation: the session is built anew from this request.
Recorded_OnlyThis(q) == {q.chunk}

\* The session as the handler has read it, with one more chunk.
Recorded(q) == q.bits \cup {q.chunk}

Save(h) ==
    LET q == handler[h] IN
    /\ At(h, "save")
    /\ session' = [session EXCEPT ![q.upload] = Recorded(q)]
    /\ ReplyChunk(h)
    /\ UNCHANGED <<index, disk, removed, used, lost, faults>>

\* CompleteChunkUpload: the session must be complete.
IsComplete(s) == s = Chunks

Check(h) ==
    LET s == session[handler[h].upload] IN
    /\ At(h, "check")
    /\ \/ (~OK(s) \/ ~IsComplete(s)) /\ Refuse(h)
       \/ /\ OK(s) /\ IsComplete(s)
          /\ handler' = Go(h, "merge")
          /\ UNCHANGED <<tab, told>>
    /\ UNCHANGED <<server, lost, faults>>

\* The next chunk is appended; a missing one ends the request.
Merge(h) ==
    LET q == handler[h]
        found == disk[q.upload][q.chunk] IN
    /\ At(h, "merge")
    /\ \/ found = "absent" /\ Refuse(h)
       \/ /\ found # "absent"
          /\ handler' = [handler EXCEPT
                ![h].whole = @ /\ found = "whole",
                ![h].chunk = IF @ + 1 < N THEN @ + 1 ELSE @,
                ![h].step = IF q.chunk + 1 < N THEN @ ELSE "remove"]
          /\ UNCHANGED <<tab, told>>
    /\ UNCHANGED <<server, lost, faults>>

\* Mutation: the directory of all uploads is removed.
RemoveAll_EveryUpload(u) == [v \in Uploads |-> [c \in Chunks |-> "absent"]]

RemoveAll(u) == [disk EXCEPT ![u] = [c \in Chunks |-> "absent"]]

\* os.RemoveAll of the upload's directory; open files lose their names.
Remove(h) ==
    LET u == handler[h].upload IN
    /\ At(h, "remove")
    /\ disk' = RemoveAll(u)
    /\ removed' = removed \cup {u}
    /\ handler' = [x \in Handlers |->
          IF x = h THEN [handler[h] EXCEPT !.step = "forget"]
          ELSE IF handler[x].step = "write" /\ handler[x].upload = u
               THEN [handler[x] EXCEPT !.linked = FALSE]
               ELSE handler[x]]
    /\ UNCHANGED <<index, session, used, tab, told, lost, faults>>

Forget(h) ==
    \E ok \in BOOLEAN :
        /\ At(h, "forget")
        /\ Unsure(ok)
        /\ session' = IF ok THEN [session EXCEPT ![handler[h].upload] = NoSession]
                      ELSE session
        /\ handler' = Go(h, "unpoint")
        /\ UNCHANGED <<index, disk, removed, used, tab, told, lost>>

Unpoint(h) ==
    \E ok \in BOOLEAN :
        /\ At(h, "unpoint")
        /\ Unsure(ok)
        /\ index' = IF ok THEN 0 ELSE index
        /\ ReplyFile(h)
        /\ UNCHANGED <<session, disk, removed, used, lost>>

-----------------------------------------------------------------------------
(* Failures.                                                               *)

\* A checked call fails and the handler answers an error.
Fails(h) ==
    /\ faults < MaxFaults
    /\ handler[h].step \notin Unchecked \cup {"free", "remove"}
    /\ faults' = faults + 1
    /\ Refuse(h)
    /\ UNCHANGED <<server, lost>>

\* A connection is lost: the browser sees an error and the handler goes on.
Lose(h) ==
    /\ handler[h] # Free
    /\ ~handler[h].cut
    /\ lost < MaxLost
    /\ lost' = lost + 1
    /\ tab' = TabsAfter({h})
    /\ \E g \in Handlers :
          /\ IF SentAgain(handler[h]) THEN FirstFree(g) ELSE g = h
          /\ handler' = [x \in Handlers |->
                IF x = h THEN [handler[h] EXCEPT !.tab = None, !.cut = TRUE]
                ELSE IF x = g THEN Again(handler[h])
                ELSE Forsaken(handler[x], {h})]
    /\ UNCHANGED <<server, told, faults>>

\* The context of a lost request is cancelled: this Redis call fails and so
\* do those after it.  (What find and load then begin, new does not do.)
Cancelled(h) ==
    /\ handler[h].cut
    /\ handler[h].step \in RedisSteps
    /\ handler' = [handler EXCEPT ![h] = Free]
    /\ UNCHANGED <<server, tab, told, lost, faults>>

\* The server stops and starts again; every request under way fails.
Crash ==
    /\ faults < MaxFaults
    /\ faults' = faults + 1
    /\ \E h \in Handlers : handler[h] # Free
    /\ tab' = TabsAfter(Handlers)
    /\ handler' = [h \in Handlers |->
          IF SentAgain(handler[h]) THEN Forsaken(Again(handler[h]), Handlers) ELSE Free]
    /\ UNCHANGED <<server, told, lost>>

\* A day without a request: the index expires and the session with it.
Expire ==
    /\ index # 0
    /\ used < MaxUploads
    /\ \A h \in Handlers : handler[h] = Free
    /\ \A t \in Tabs : tab[t].stage \in {"idle", "done", "failed"}
    /\ index' = 0
    /\ session' = [session EXCEPT ![index] = NoSession]
    /\ UNCHANGED <<disk, removed, used, handler, tab, told, lost, faults>>

Work(h) ==
    \/ Find(h) \/ Load(h) \/ Refresh(h) \/ Rewrite(h) \/ New(h) \/ Point(h)
    \/ ReadSession(h) \/ Create(h) \/ Write(h) \/ Save(h)
    \/ Check(h) \/ Merge(h) \/ Remove(h) \/ Forget(h) \/ Unpoint(h)

Use(t) == Publish(t) \/ SendChunk(t) \/ SendComplete(t)

Next ==
    \/ \E h \in Handlers : Work(h) \/ Fails(h) \/ Lose(h) \/ Cancelled(h)
    \/ \E t \in Tabs : Use(t)
    \/ Crash
    \/ Expire

Spec == Init /\ [][Next]_vars

\* Handlers run and users keep trying; nothing need fail or expire.
FairSpec ==
    /\ Spec
    /\ \A h \in Handlers : WF_vars(Work(h))
    /\ \A t \in Tabs : WF_vars(Use(t))

-----------------------------------------------------------------------------
(* Properties.                                                             *)

Writing(u, c) ==
    \E h \in Handlers : /\ handler[h].step = "write" /\ handler[h].linked
                        /\ handler[h].upload = u /\ handler[h].chunk = c

\* A chunk recorded in the session of an upload that was not merged has its
\* file, for any interleaving of requests, retries and crashes; and as long as no
\* call fails and the server does not stop the file is whole, or a repeated
\* request is just writing it again.
RecordedIsStored ==
    \A u \in Uploads \ removed : \A c \in session[u] \cap Chunks :
        /\ disk[u][c] # "absent"
        /\ faults = 0 => disk[u][c] = "whole" \/ Writing(u, c)

\* A chunk that a tab was told is uploaded is recorded in the session, as long
\* as there is one.
ToldIsRecorded ==
    \A u \in Uploads : session[u] # NoSession => told[u] \subseteq session[u]

\* The file whose address a lone tab gets has every chunk in full, though
\* records are lost and chunks sent again, until something has failed.
WholeFiles ==
    lost + faults = 0 => \A t \in Tabs : tab[t].stage = "done" => tab[t].whole

\* A user who keeps trying gets the file uploaded, or meets a failure.
UploadFinishes == \A t \in Tabs : <>(tab[t].stage = "done" \/ lost + faults > 0)
=============================================================================
