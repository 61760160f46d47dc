----------------------------- MODULE VideoCache -----------------------------
(***************************************************************************)
(* GetDetail of one video: the cached copy, the lock that keeps most       *)
(* readers from MySQL, the generation that keeps late fills out, and the   *)
(* popularity script that drops the copy for each change of the video.     *)
(*                                                                         *)
(* Keys of different videos are different, so one video is enough.  A row  *)
(* is its version, one more for each committed change.  Redis commands     *)
(* take effect one at a time; an answer may be lost, and a fill whose      *)
(* caller gave up may still be executed afterwards.                        *)
(***************************************************************************)
EXTENDS Integers, FiniteSets

CONSTANTS
    Readers,      \* requests for the video
    MaxVersion,   \* BOUND: changes of the row
    Polls,        \* looks at the cache while another request has the lock (5)
    MaxLate,      \* BOUND: fills that outlive their callers, at a time
    None,
    Orphan        \* a lock token that no request knows any more

ASSUME ConstantsAssumption ==
    /\ {MaxVersion, MaxLate} \subseteq Nat
    /\ Polls \in Nat \ {0}
    /\ None \notin Readers \cup Nat
    /\ Orphan \notin Readers \cup {None}

Versions == 0..MaxVersion

VARIABLES
    row,          \* version of the row in MySQL
    applied,      \* changes whose heat event has run the popularity script
    dead,         \* changes whose heat event was dead-lettered
    generation,   \* what the generation key holds: 0 for no key, else a token
    entry,        \* version of the cached copy, or None
    lock,         \* whose token the lock key holds, or None
    late,         \* fills nobody waits for any more: <<generation, version>>
    pc,           \* reader -> its next step
    polls,        \* reader -> looks left while another has the lock
    held,         \* readers that took the lock and have not released it
    token,        \* reader -> the generation it has read, None after an error
    got,          \* reader -> the version it will answer with, None for an error
    known,        \* history: reader -> the changes applied when it asked
    lapsed        \* history: readers in held whose lock has expired

source  == <<row, applied, dead>>
redis   == <<generation, entry, lock, late>>
request == <<pc, polls, held, token, got, known, lapsed>>
vars    == <<source, redis, request>>

Steps == {"idle", "cached", "lock", "recheck", "wait", "generation", "row",
          "fill", "unlock", "answer"}

TypeOK ==
    /\ row \in Versions
    /\ applied \subseteq 1..row
    /\ dead \subseteq (1..row) \ applied
    /\ generation \in Versions
    /\ entry \in Versions \cup {None}
    /\ lock \in Readers \cup {None, Orphan}
    /\ late \subseteq Versions \X Versions
    /\ pc \in [Readers -> Steps]
    /\ polls \in [Readers -> 0..Polls]
    /\ held \subseteq Readers
    /\ token \in [Readers -> Versions \cup {None}]
    /\ got \in [Readers -> Versions \cup {None}]
    /\ known \in [Readers -> SUBSET applied]
    /\ lapsed \subseteq held

Init ==
    /\ row = 0
    /\ applied = {}
    /\ dead = {}
    /\ generation = 0
    /\ entry = None
    /\ lock = None
    /\ late = {}
    /\ pc = [r \in Readers |-> "idle"]
    /\ polls = [r \in Readers |-> 0]
    /\ held = {}
    /\ token = [r \in Readers |-> None]
    /\ got = [r \in Readers |-> None]
    /\ known = [r \in Readers |-> {}]
    /\ lapsed = {}

-----------------------------------------------------------------------------
\* A consumer's transaction changes the row and writes the heat event.
Change ==
    /\ row < MaxVersion
    /\ row' = row + 1
    /\ UNCHANGED <<applied, dead, redis, request>>

\* Mutation: a dead-lettered event is put back into its queue as well.
Pending_DeadToo == (1..row) \ applied

Pending == (1..row) \ (applied \cup dead)

\* Mutation: the copy is deleted, the generation stays.
Invalidate_KeepsGeneration(i) ==
    /\ i \in Pending
    /\ applied' = applied \cup {i}
    /\ entry' = None
    /\ UNCHANGED <<row, dead, generation, lock, late, request>>

\* The script, for the event of change i; events come in any order.  The new
\* token is random and was never used before.
Invalidate(i) ==
    /\ i \in Pending
    /\ applied' = applied \cup {i}
    /\ generation' = Cardinality(applied')
    /\ entry' = None
    /\ UNCHANGED <<row, dead, lock, late, request>>

\* Every try failed: for this change the copy is not invalidated.
GiveUp(i) ==
    /\ i \in Pending
    /\ dead' = dead \cup {i}
    /\ UNCHANGED <<row, applied, redis, request>>

-----------------------------------------------------------------------------
At(r, step)   == pc[r] = step
Goto(r, step) == pc' = [pc EXCEPT ![r] = step]

\* What the deferred unlock makes of the end of a request.
Done(r) == IF r \in held THEN "unlock" ELSE "answer"

Ask(r) ==
    /\ At(r, "idle")
    /\ Goto(r, "cached")
    /\ known' = [known EXCEPT ![r] = applied]
    /\ UNCHANGED <<source, redis, polls, held, token, got, lapsed>>

\* getCached.  An error or an unreadable copy counts as a miss.
GetCached(r, miss) ==
    \/ /\ entry # None
       /\ got' = [got EXCEPT ![r] = entry]
       /\ Goto(r, Done(r))
    \/ /\ Goto(r, miss)
       /\ UNCHANGED got

Cached(r) ==
    /\ At(r, "cached")
    /\ GetCached(r, "lock")
    /\ UNCHANGED <<source, redis, polls, held, token, known, lapsed>>

\* SETNX took the lock: look again, then load.
Lock(r) ==
    /\ At(r, "lock")
    /\ lock = None
    /\ lock' = r
    /\ held' = held \cup {r}
    /\ Goto(r, "recheck")
    /\ UNCHANGED <<source, generation, entry, late, polls, token, got, known, lapsed>>

\* Another request has the lock: look for what it caches.
LockTaken(r) ==
    /\ At(r, "lock")
    /\ lock # None
    /\ polls' = [polls EXCEPT ![r] = Polls]
    /\ Goto(r, "wait")
    /\ UNCHANGED <<source, redis, held, token, got, known, lapsed>>

\* No answer, the lock taken or not: load without it.
LockFails(r) ==
    /\ At(r, "lock")
    /\ lock' \in {lock, IF lock = None THEN Orphan ELSE lock}
    /\ Goto(r, "generation")
    /\ UNCHANGED <<source, generation, entry, late, polls, held, token, got, known, lapsed>>

Recheck(r) ==
    /\ At(r, "recheck")
    /\ GetCached(r, "generation")
    /\ UNCHANGED <<source, redis, polls, held, token, known, lapsed>>

Wait(r) ==
    /\ At(r, "wait")
    /\ polls' = [polls EXCEPT ![r] = @ - 1]
    /\ GetCached(r, IF polls[r] > 1 THEN "wait" ELSE "generation")
    /\ UNCHANGED <<source, redis, held, token, known, lapsed>>

-----------------------------------------------------------------------------
(***************************************************************************)
(* load, with or without the lock: generation, then row, then fill.        *)
(***************************************************************************)
ReadGeneration(r) ==
    /\ At(r, "generation")
    /\ \E g \in {generation, None} : token' = [token EXCEPT ![r] = g]
    /\ Goto(r, "row")
    /\ UNCHANGED <<source, redis, polls, held, got, known, lapsed>>

\* Without the generation there will be no fill; without the row, no answer.
ReadRow(r) ==
    /\ At(r, "row")
    /\ \/ /\ got' = [got EXCEPT ![r] = row]
          /\ Goto(r, IF token[r] = None THEN Done(r) ELSE "fill")
       \/ Goto(r, Done(r)) /\ UNCHANGED got
    /\ UNCHANGED <<source, redis, polls, held, token, known, lapsed>>

\* Mutation: a plain SET.
FillScript_Unconditional(g, version) == entry' = version

\* The fill script, when Redis runs it.
FillScript(g, version) == entry' = IF generation = g THEN version ELSE entry

\* The reader waits 50ms for the script and may give up before it runs.
Fill(r) ==
    /\ At(r, "fill")
    /\ \/ FillScript(token[r], got[r]) /\ UNCHANGED late
       \/ /\ Cardinality(late) < MaxLate
          /\ late' = late \cup {<<token[r], got[r]>>}
          /\ UNCHANGED entry
    /\ Goto(r, Done(r))
    /\ UNCHANGED <<source, generation, lock, polls, held, token, got, known, lapsed>>

\* Redis runs a fill after its caller gave up, or never sees it.
LateFill(f) ==
    /\ f \in late
    /\ late' = late \ {f}
    /\ FillScript(f[1], f[2]) \/ UNCHANGED entry
    /\ UNCHANGED <<source, generation, lock, request>>

\* Mutation: DEL, without comparing the token.
UnlockScript_Any(r) == None

\* The key is deleted only if it still holds the request's token.
UnlockScript(r) == IF lock = r THEN None ELSE lock

\* A lock whose holder has failed to release it stays until it expires.
LeftBehind(r) == IF lock = r THEN Orphan ELSE lock

Unlock(r) ==
    /\ At(r, "unlock")
    /\ lock' \in {UnlockScript(r), LeftBehind(r)}
    /\ held' = held \ {r}
    /\ lapsed' = lapsed \ {r}
    /\ Goto(r, "answer")
    /\ UNCHANGED <<source, generation, entry, late, polls, token, got, known>>

\* The request is over, its variables go out of scope.
Leave(r) ==
    /\ Goto(r, "idle")
    /\ polls' = [polls EXCEPT ![r] = 0]
    /\ held' = held \ {r}
    /\ token' = [token EXCEPT ![r] = None]
    /\ got' = [got EXCEPT ![r] = None]
    /\ known' = [known EXCEPT ![r] = {}]
    /\ lapsed' = lapsed \ {r}

Answer(r) ==
    /\ At(r, "answer")
    /\ Leave(r)
    /\ UNCHANGED <<source, redis>>

\* The process stops: a lock it has taken stays.
Crash(r) ==
    /\ pc[r] # "idle"
    /\ lock' = LeftBehind(r)
    /\ Leave(r)
    /\ UNCHANGED <<source, generation, entry, late>>

\* Mutation: the copy is stored without an expiry.
EntryExpires_Never ==
    /\ entry # None
    /\ entry' = entry
    /\ UNCHANGED <<source, generation, lock, late, request>>

\* The copy's five minutes are over.
EntryExpires ==
    /\ entry # None
    /\ entry' = None
    /\ UNCHANGED <<source, generation, lock, late, request>>

\* The lock's two seconds are over, whatever its holder is doing.
LockExpires ==
    /\ lock # None
    /\ lock' = None
    /\ lapsed' = lapsed \cup ({lock} \cap held)
    /\ UNCHANGED <<source, generation, entry, late, pc, polls, held, token, got, known>>

Reader(r) ==
    \/ Ask(r) \/ Cached(r) \/ Lock(r) \/ LockTaken(r) \/ LockFails(r)
    \/ Recheck(r) \/ Wait(r)
    \/ ReadGeneration(r) \/ ReadRow(r) \/ Fill(r)
    \/ Unlock(r) \/ Answer(r) \/ Crash(r)

Next ==
    \/ Change
    \/ \E i \in 1..MaxVersion : Invalidate(i) \/ GiveUp(i)
    \/ \E r \in Readers : Reader(r)
    \/ \E f \in late : LateFill(f)
    \/ EntryExpires
    \/ LockExpires

Spec == Init /\ [][Next]_vars

-----------------------------------------------------------------------------
\* Once the event of a change has been consumed, no copy from before the change
\* is in the cache: not even one that a slow reader put back.
NoCopyOlderThanApplied ==
    entry # None => \A i \in applied : i <= entry

\* An answer shows every change whose event was consumed before the request
\* came, whichever way the request took.
AnswersAreFresh ==
    \A r \in Readers :
        At(r, "answer") /\ got[r] # None => \A i \in known[r] : i <= got[r]

\* A request that took the lock has it until it releases it or two seconds pass:
\* no slower request releases it in its place.
LockStaysMine ==
    \A r \in held \ lapsed : lock = r

(***************************************************************************)
(* A change whose event was dead-lettered is never invalidated; the expiry *)
(* of the copy is what ends its staleness.  Only that clock is assumed.    *)
(***************************************************************************)
FairSpec == Spec /\ WF_vars(EntryExpires)

\* Changes come to an end (MaxVersion); from some time on the cache holds the
\* newest row or nothing, whatever fails.
EventuallyFresh == <>[](entry \in {None, row})
=============================================================================
