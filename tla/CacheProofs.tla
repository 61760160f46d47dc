---------------------------- MODULE CacheProofs ----------------------------
(***************************************************************************)
(* Theorems about what Redis keeps of the table of videos: the detail of   *)
(* one (VideoCache) and the newest of all (Timeline); for any number of    *)
(* readers, changes, videos and failures.                                  *)
(***************************************************************************)
EXTENDS VideoCache, Timeline, TLAPS, FiniteSetTheorems, WellFoundedInduction

\* A fill with generation g and version v is safe: Redis refuses it, or v is no
\* older than any change applied.
Safe(g, v) == g = generation => \A i \in applied : i <= v

(***************************************************************************)
(* Why no old copy comes back.  The generation counts the changes applied, *)
(* so a reader's token is never ahead of it, and a new token differs from  *)
(* every token a reader or a late fill still carries.  Every fill on its   *)
(* way is safe: it was when its row was read, and an invalidation since    *)
(* then changed the generation.                                            *)
(***************************************************************************)
Tokens ==
    /\ generation = Cardinality(applied)
    /\ \A r \in Readers : token[r] # None => token[r] <= generation
    /\ \A f \in late : f[1] <= generation

Fills ==
    /\ \A r \in Readers : At(r, "fill") => token[r] # None /\ got[r] # None /\ Safe(token[r], got[r])
    /\ \A f \in late : Safe(f[1], f[2])

Answers ==
    \A r \in Readers : got[r] # None => \A i \in known[r] : i <= got[r]

Locals ==
    \A r \in Readers : /\ At(r, "idle") => got[r] = None
                       /\ At(r, "wait") => polls[r] > 0

CInv == TypeOK /\ Tokens /\ Fills /\ Answers /\ Locals /\ NoCopyOlderThanApplied /\ LockStaysMine

LEMMA CardinalityUpTo ==
    ASSUME NEW n \in Nat, NEW S \in SUBSET (1..n)
    PROVE  IsFiniteSet(S) /\ Cardinality(S) \in Nat /\ Cardinality(S) <= n
<1>1. IsFiniteSet(1..n) /\ Cardinality(1..n) = (IF 1 > n THEN 0 ELSE n - 1 + 1)
  BY FS_Interval
<1>2. Cardinality(1..n) = n
  BY <1>1
<1>3. IsFiniteSet(S) /\ Cardinality(S) <= Cardinality(1..n)
  BY <1>1, FS_Subset
<1>4. Cardinality(S) \in Nat
  BY <1>3, FS_CardinalityType
<1> QED
  BY <1>2, <1>3, <1>4

LEMMA InitCInv == Init => CInv
<1> SUFFICES ASSUME Init PROVE CInv
  OBVIOUS
<1> USE ConstantsAssumption DEF Init
<1>1. TypeOK
  BY DEF TypeOK, Versions, Steps
<1>2. Tokens
  <2>1. Cardinality({}) = 0
    BY FS_EmptySet
  <2> QED
    BY <2>1 DEF Tokens
<1>3. Fills /\ Answers /\ Locals /\ NoCopyOlderThanApplied /\ LockStaysMine
  BY DEF Fills, Answers, Locals, NoCopyOlderThanApplied, LockStaysMine, At, Safe
<1> QED
  BY <1>1, <1>2, <1>3 DEF CInv

LEMMA StepCInv == CInv /\ [Next]_vars => CInv'
<1> SUFFICES ASSUME CInv, [Next]_vars PROVE CInv'
  OBVIOUS
<1> USE ConstantsAssumption
<1>0. TypeOK /\ Tokens /\ Fills /\ Answers /\ Locals /\ NoCopyOlderThanApplied /\ LockStaysMine
  BY DEF CInv
<1>00. /\ applied \subseteq 1..row /\ row \in Nat /\ row <= MaxVersion
       /\ None \notin Nat /\ generation \in Nat
  BY <1>0 DEF TypeOK, Versions
<1> USE DEF Versions
<1>1. CASE Change
  BY <1>1, <1>0, <1>00 DEF Change, CInv, TypeOK, Tokens, Fills, Answers, Locals, Safe, At,
     NoCopyOlderThanApplied, LockStaysMine, redis, request
<1>2. ASSUME NEW i \in 1..MaxVersion, Invalidate(i) PROVE CInv'
  <2>1. generation' = generation + 1 /\ i <= row /\ generation' <= row
    <3>1. i \in 1..row /\ i \notin applied /\ applied' = applied \cup {i}
      BY <1>2 DEF Invalidate, Pending
    <3>2. IsFiniteSet(applied)
      BY <1>00, CardinalityUpTo
    <3>3. Cardinality(applied') = Cardinality(applied) + 1
      BY <3>1, <3>2, FS_AddElement
    <3>4. Cardinality(applied') <= row
      <4>1. applied' \in SUBSET (1..row)
        BY <3>1, <1>00
      <4> QED
        BY <4>1, <1>00, CardinalityUpTo
    <3> QED
      BY <3>1, <3>3, <3>4, <1>2, <1>0, <1>00 DEF Invalidate, Tokens
  <2>2. TypeOK'
    BY <1>2, <2>1, <1>0, <1>00 DEF Invalidate, Pending, TypeOK, request
  <2>a. /\ generation' = Cardinality(applied')
        /\ UNCHANGED <<late, pc, token, got>>
    BY <1>2 DEF Invalidate, request
  <2>b. \A r \in Readers : token[r] # None => token[r] \in Nat /\ token[r] < generation'
    BY <2>1, <1>0, <1>00 DEF Tokens, TypeOK
  <2>c. \A f \in late : f[1] \in Nat /\ f[1] < generation'
    BY <2>1, <1>0, <1>00 DEF Tokens, TypeOK
  <2>3. Tokens'
    BY <2>a, <2>b, <2>c, <2>1, <1>00 DEF Tokens
  <2>4. Fills'
    BY <2>a, <2>b, <2>c, <2>1, <1>0, <1>00 DEF Fills, Safe, At
  <2>5. Answers' /\ Locals' /\ NoCopyOlderThanApplied' /\ LockStaysMine'
    BY <1>2, <1>0 DEF Invalidate, Answers, Locals, At, NoCopyOlderThanApplied, LockStaysMine, request
  <2> QED
    BY <2>2, <2>3, <2>4, <2>5 DEF CInv
<1>3. ASSUME NEW i \in 1..MaxVersion, GiveUp(i) PROVE CInv'
  BY <1>3, <1>0, <1>00 DEF GiveUp, Pending, CInv, TypeOK, Tokens, Fills, Answers, Locals, Safe, At,
     NoCopyOlderThanApplied, LockStaysMine, redis, request
<1>4. ASSUME NEW r \in Readers, Reader(r) PROVE CInv'
  <2>1. CASE Ask(r)
    <3>1. TypeOK'
      BY <2>1, <1>0 DEF Ask, Goto, TypeOK, Steps, source, redis
    <3>2. Tokens' /\ NoCopyOlderThanApplied' /\ LockStaysMine'
      BY <2>1, <1>0 DEF Ask, Tokens, NoCopyOlderThanApplied, LockStaysMine, source, redis
    <3>3. Fills'
      BY <2>1, <1>0 DEF Ask, Goto, TypeOK, Fills, Safe, At, source, redis
    <3>4. Answers' /\ Locals'
      BY <2>1, <1>0 DEF Ask, Goto, TypeOK, Answers, Locals, At
    <3> QED
      BY <3>1, <3>2, <3>3, <3>4 DEF CInv
  <2>2. CASE Cached(r)
    BY <2>2, <1>0, <1>00 DEF Cached, GetCached, Done, Goto, CInv, TypeOK, Tokens, Fills, Answers, Locals, Safe, At, Steps,
       NoCopyOlderThanApplied, LockStaysMine, redis, source
  <2>3. CASE Lock(r)
    BY <2>3, <1>0, <1>00 DEF Lock, Goto, CInv, TypeOK, Tokens, Fills, Answers, Locals, Safe, At, Steps,
       NoCopyOlderThanApplied, LockStaysMine, redis, source
  <2>4. CASE LockTaken(r)
    BY <2>4, <1>0, <1>00 DEF LockTaken, Goto, CInv, TypeOK, Tokens, Fills, Answers, Locals, Safe, At, Steps,
       NoCopyOlderThanApplied, LockStaysMine, redis, source
  <2>5. CASE LockFails(r)
    BY <2>5, <1>0, <1>00 DEF LockFails, Goto, CInv, TypeOK, Tokens, Fills, Answers, Locals, Safe, At, Steps,
       NoCopyOlderThanApplied, LockStaysMine, redis, source
  <2>6. CASE Recheck(r)
    BY <2>6, <1>0, <1>00 DEF Recheck, GetCached, Done, Goto, CInv, TypeOK, Tokens, Fills, Answers, Locals, Safe, At, Steps,
       NoCopyOlderThanApplied, LockStaysMine, redis, source
  <2>7. CASE Wait(r)
    <3>0. polls'[r] \in 0..Polls
      BY <2>7, <1>0 DEF Wait, TypeOK, Locals, At
    <3>1. TypeOK'
      BY <2>7, <3>0, <1>0 DEF Wait, GetCached, Done, Goto, TypeOK, Steps, source, redis
    <3>2. Tokens' /\ NoCopyOlderThanApplied' /\ LockStaysMine'
      BY <2>7, <1>0 DEF Wait, Tokens, NoCopyOlderThanApplied, LockStaysMine, source, redis
    <3>3. Fills'
      BY <2>7, <1>0 DEF Wait, GetCached, Done, Goto, TypeOK, Fills, Safe, At, source, redis
    <3>4. Answers' /\ Locals'
      BY <2>7, <3>0, <1>0 DEF Wait, GetCached, Done, Goto, TypeOK, Answers, Locals, At, NoCopyOlderThanApplied
    <3> QED
      BY <3>1, <3>2, <3>3, <3>4 DEF CInv
  <2>8. CASE ReadGeneration(r)
    BY <2>8, <1>0, <1>00 DEF ReadGeneration, Goto, CInv, TypeOK, Tokens, Fills, Answers, Locals, Safe, At, Steps,
       NoCopyOlderThanApplied, LockStaysMine, redis, source
  <2>9. CASE ReadRow(r)
    BY <2>9, <1>0, <1>00 DEF ReadRow, Done, Goto, CInv, TypeOK, Tokens, Fills, Answers, Locals, Safe, At, Steps,
       NoCopyOlderThanApplied, LockStaysMine, redis, source
  <2>10. CASE Fill(r)
    BY <2>10, <1>0, <1>00 DEF Fill, FillScript, Done, Goto, CInv, TypeOK, Tokens, Fills, Answers, Locals, Safe, At, Steps,
       NoCopyOlderThanApplied, LockStaysMine, source
  <2>11. CASE Unlock(r)
    BY <2>11, <1>0, <1>00 DEF Unlock, UnlockScript, LeftBehind, Goto, CInv, TypeOK, Tokens, Fills, Answers, Locals, Safe, At, Steps,
       NoCopyOlderThanApplied, LockStaysMine, source
  <2>12. CASE Answer(r)
    BY <2>12, <1>0, <1>00 DEF Answer, Leave, Goto, CInv, TypeOK, Tokens, Fills, Answers, Locals, Safe, At, Steps,
       NoCopyOlderThanApplied, LockStaysMine, redis, source
  <2>13. CASE Crash(r)
    BY <2>13, <1>0, <1>00 DEF Crash, LeftBehind, Leave, Goto, CInv, TypeOK, Tokens, Fills, Answers, Locals, Safe, At, Steps,
       NoCopyOlderThanApplied, LockStaysMine, source
  <2> QED
    BY <1>4, <2>1, <2>2, <2>3, <2>4, <2>5, <2>6, <2>7, <2>8, <2>9, <2>10, <2>11, <2>12, <2>13
       DEF Reader
<1>5. ASSUME NEW f \in late, LateFill(f) PROVE CInv'
  BY <1>5, <1>0, <1>00 DEF LateFill, FillScript, CInv, TypeOK, Tokens, Fills, Answers, Locals, Safe, At,
     NoCopyOlderThanApplied, LockStaysMine, source, request
<1>6. CASE EntryExpires
  BY <1>6, <1>0, <1>00 DEF EntryExpires, CInv, TypeOK, Tokens, Fills, Answers, Locals, Safe, At,
     NoCopyOlderThanApplied, LockStaysMine, source, request
<1>8. CASE LockExpires
  BY <1>8, <1>0, <1>00 DEF LockExpires, CInv, TypeOK, Tokens, Fills, Answers, Locals, Safe, At,
     NoCopyOlderThanApplied, LockStaysMine, source
<1>7. CASE UNCHANGED vars
  BY <1>7, <1>0, <1>00 DEF vars, CInv, TypeOK, Tokens, Fills, Answers, Locals, Safe, At,
     NoCopyOlderThanApplied, LockStaysMine, source, redis, request
<1> QED
  BY <1>1, <1>2, <1>3, <1>4, <1>5, <1>6, <1>7, <1>8 DEF Next

LEMMA AlwaysCInv == Spec => []CInv
<1>1. Init => CInv
  BY InitCInv
<1>2. CInv /\ [Next]_vars => CInv'
  BY StepCInv
<1> QED
  BY <1>1, <1>2, PTL DEF Spec

-----------------------------------------------------------------------------
\* The variables of the cache and its readers keep their types.
THEOREM TypeCorrect == Spec => []TypeOK
<1>1. CInv => TypeOK
  BY DEF CInv
<1> QED
  BY <1>1, AlwaysCInv, PTL

\* However slow a reader or late a fill, Redis never holds a copy from before a
\* change whose heat event it has processed.
THEOREM NoOldCopyReturns == Spec => []NoCopyOlderThanApplied
<1>1. CInv => NoCopyOlderThanApplied
  BY DEF CInv
<1> QED
  BY <1>1, AlwaysCInv, PTL

\* GetDetail answers with every change whose heat event was processed before it
\* was called: from the cache, under the lock or without it.
THEOREM DetailIsFresh == Spec => []AnswersAreFresh
<1>1. CInv => AnswersAreFresh
  BY DEF CInv, Answers, AnswersAreFresh
<1> QED
  BY <1>1, AlwaysCInv, PTL

\* Only its holder or its expiry ends a lock, for any number of readers.
THEOREM NobodyElseUnlocks == Spec => []LockStaysMine
<1>1. CInv => LockStaysMine
  BY DEF CInv
<1> QED
  BY <1>1, AlwaysCInv, PTL

-----------------------------------------------------------------------------

(***************************************************************************)
(* Timeline.  Sets of videos.                                              *)
(***************************************************************************)
\* A nonempty set of subsets of a finite set has a minimal member.
LEMMA MinimalSet ==
  ASSUME NEW S, IsFiniteSet(S), NEW F, F \subseteq SUBSET S, F # {}
  PROVE  \E A \in F : \A B \in F : ~ (B \subseteq A /\ B # A)
<1> DEFINE R == StrictSubsetOrdering(S)
<1>1. F \subseteq FiniteSubsetsOf(S)
  BY FS_Subset DEF FiniteSubsetsOf
<1>2. IsWellFoundedOn(R, FiniteSubsetsOf(S))
  BY FS_StrictSubsetOrderingWellFounded
<1>3. PICK A \in F : \A B \in F : ~ (<<B, A>> \in R)
  BY <1>1, <1>2, WFMin
<1>4. ASSUME NEW B \in F, B \subseteq A, B # A PROVE FALSE
  BY <1>3, <1>4 DEF StrictSubsetOrdering
<1> QED
  BY <1>4

LEMMA VideosFinite == \A S \in SUBSET Videos : IsFiniteSet(S) /\ Cardinality(S) \in Nat
<1>1. IsFiniteSet(Videos)
  BY VideoBoundAssumption, FS_Interval DEF Videos
<1> QED
  BY <1>1, FS_Subset, FS_CardinalityType

LEMMA SmallerSet ==
  ASSUME NEW S \in SUBSET Videos, NEW T \in SUBSET S
  PROVE  Cardinality(T) <= Cardinality(S) /\ (Cardinality(T) = Cardinality(S) => T = S)
BY VideosFinite, FS_Subset

-----------------------------------------------------------------------------
(***************************************************************************)
(* Trimming keeps the newest.                                              *)
(***************************************************************************)
Times == created \in [Videos -> 0..MaxTime]

Above(S, v) == {u \in S : Newer(u, v)}

LEMMA NewerOrders ==
  ASSUME Times
  PROVE  /\ \A u \in Videos : ~ Newer(u, u)
         /\ \A u, v, w \in Videos : Newer(u, v) /\ Newer(v, w) => Newer(u, w)
         /\ \A u, v \in Videos : Newer(u, v) => created[u] >= created[v]
<1>1. \A u \in Videos : created[u] \in Int /\ u \in Int
  BY TimeBoundAssumption, VideoBoundAssumption DEF Times, Videos
<1> QED
  BY <1>1 DEF Newer

\* If Keep or more of S are at the top of it, as many of these are kept.
LEMMA TopIsKept ==
  ASSUME Times, NEW S \in SUBSET Videos, NEW T \in SUBSET S,
         \A u \in T, w \in S : Newer(w, u) => w \in T,
         Cardinality(T) >= Keep
  PROVE  Cardinality(T \cap Trimmed(S)) >= Keep
<1> SUFFICES ASSUME ~ (Cardinality(T \cap Trimmed(S)) >= Keep) PROVE FALSE
  OBVIOUS
<1>1. Cardinality(T \cap Trimmed(S)) < Keep
  <2>1. T \cap Trimmed(S) \in SUBSET Videos
    OBVIOUS
  <2>2. Cardinality(T \cap Trimmed(S)) \in Nat
    BY <2>1, VideosFinite
  <2> QED
    BY <2>2, KeepAssumption
<1> DEFINE Out == T \ Trimmed(S)
           F   == {Above(S, w) : w \in Out}
<1>2. F # {}
  <2>1. Out # {}
    BY <1>1, VideosFinite, KeepAssumption
  <2> QED
    BY <2>1
<1>3. F \subseteq SUBSET S
  BY DEF Above
<1>4. PICK A \in F : \A B \in F : ~ (B \subseteq A /\ B # A)
  <2>1. IsFiniteSet(S)
    BY VideosFinite
  <2> HIDE DEF F
  <2> QED
    BY <1>2, <1>3, <2>1, MinimalSet
<1>5. PICK w \in Out : A = Above(S, w)
  OBVIOUS
<1>6. A \subseteq T \cap Trimmed(S)
  <2> SUFFICES ASSUME NEW x \in A, x \notin Trimmed(S) PROVE FALSE
    BY <1>5 DEF Above
  <2>1. x \in Out /\ Newer(x, w)
    BY <1>5 DEF Above
  <2>2. Above(S, x) \in F
    BY <2>1
  <2>3. Above(S, x) \subseteq A /\ x \notin Above(S, x)
    BY <1>5, <2>1, NewerOrders DEF Above
  <2> QED
    BY <1>4, <2>2, <2>3
<1>7. Cardinality(A) <= Cardinality(T \cap Trimmed(S))
  BY <1>6, SmallerSet
<1>8. Cardinality(A) < Keep
  BY <1>1, <1>6, <1>7, VideosFinite, KeepAssumption
<1>9. w \in Trimmed(S)
  BY <1>5, <1>8 DEF Trimmed, FirstOf, Above
<1> QED
  BY <1>5, <1>9

-----------------------------------------------------------------------------
(***************************************************************************)
(* The sorted set.  A stored video that is not in it is to be announced,   *)
(* lost, or has Keep others of its time or newer there: also the one the   *)
(* consumer has added, and those a rebuild did not read.                   *)
(***************************************************************************)
SetTypeOK ==
    /\ Times /\ now \in 1..MaxTime
    /\ stored \subseteq {v \in Videos : created[v] # 0}
    /\ events \subseteq stored
    /\ adding \in events \cup {Nothing}
    /\ zset \subseteq stored
    /\ flight \in {Nothing} \cup [rows : SUBSET stored, asOf : SUBSET stored]
    /\ gone \subseteq stored \ zset

NotOlder(S, v) == {u \in S : created[u] >= created[v]}

Enough(S, v) == Cardinality(NotOlder(S, v)) >= Keep

Accounted == \A v \in stored \ (zset \cup gone \cup (events \ {adding})) : Enough(zset, v)

FlightOK ==
    flight # Nothing =>
        /\ flight.rows \subseteq flight.asOf
        /\ \A v \in flight.asOf \ flight.rows : Enough(flight.rows, v)

LatestInv == SetTypeOK /\ Accounted /\ FlightOK

LEMMA NotOlderGrows ==
  ASSUME NEW S \in SUBSET Videos, NEW T \in SUBSET S, NEW v, Enough(T, v)
  PROVE  Enough(S, v)
<1>1. NotOlder(T, v) \subseteq NotOlder(S, v) /\ NotOlder(S, v) \subseteq Videos
  BY DEF NotOlder
<1>2. Cardinality(NotOlder(T, v)) <= Cardinality(NotOlder(S, v))
  BY <1>1, SmallerSet
<1> QED
  BY <1>1, <1>2, VideosFinite, KeepAssumption DEF Enough

LEMMA TrimAccounts ==
  ASSUME SetTypeOK, NEW v \in Videos, v \in zset \/ Enough(zset, v)
  PROVE  v \in Trimmed(zset) \/ Enough(Trimmed(zset), v)
<1> SUFFICES ASSUME v \notin Trimmed(zset) PROVE Enough(Trimmed(zset), v)
  OBVIOUS
<1>1. zset \subseteq Videos /\ Times /\ Trimmed(zset) \subseteq zset
  BY DEF SetTypeOK, Trimmed, FirstOf
<1>2. \A u \in Videos : created[u] \in Int
  BY <1>1, TimeBoundAssumption DEF Times
<1>3. CASE Enough(zset, v)
  <2> DEFINE T == NotOlder(zset, v)
  <2>1. \A u \in T, w \in zset : Newer(w, u) => w \in T
    BY <1>1, <1>2, NewerOrders DEF NotOlder
  <2>2. Cardinality(T \cap Trimmed(zset)) >= Keep
    BY <1>1, <1>3, <2>1, TopIsKept DEF NotOlder, Enough
  <2>3. T \cap Trimmed(zset) = NotOlder(Trimmed(zset), v)
    BY <1>1 DEF NotOlder
  <2> QED
    BY <2>2, <2>3 DEF Enough
<1>4. CASE v \in zset
  <2> DEFINE T == Above(zset, v)
  <2>1. Cardinality(T) >= Keep
    BY <1>1, <1>4, VideosFinite, KeepAssumption DEF Trimmed, FirstOf, Above
  <2>2. \A u \in T, w \in zset : Newer(w, u) => w \in T
    BY <1>1, NewerOrders DEF Above
  <2>3. Cardinality(T \cap Trimmed(zset)) >= Keep
    BY <1>1, <2>1, <2>2, TopIsKept DEF Above
  <2>4. T \cap Trimmed(zset) \subseteq NotOlder(Trimmed(zset), v)
    BY <1>1, NewerOrders DEF NotOlder, Above
  <2>5. Cardinality(T \cap Trimmed(zset)) <= Cardinality(NotOlder(Trimmed(zset), v))
    BY <1>1, <2>4, SmallerSet DEF NotOlder
  <2> QED
    BY <1>1, <2>3, <2>5, VideosFinite, KeepAssumption DEF Enough, NotOlder, Above
<1> QED
  BY <1>3, <1>4

LEMMA TopSetsCover ==
  ASSUME SetTypeOK, NEW R \in TopSets(stored, Keep)
  PROVE  R \subseteq stored /\ \A v \in stored \ R : Enough(R, v)
<1>1. stored \subseteq Videos /\ R \subseteq stored
  BY DEF SetTypeOK, TopSets
<1>2. CASE Cardinality(stored) < Keep
  BY <1>1, <1>2, SmallerSet DEF TopSets
<1>3. CASE ~ (Cardinality(stored) < Keep)
  <2>1. Cardinality(R) = Keep
    BY <1>3 DEF TopSets
  <2>2. \A v \in stored \ R : NotOlder(R, v) = R
    BY DEF TopSets, NotOlder
  <2> QED
    BY <1>1, <2>1, <2>2, KeepAssumption DEF Enough
<1> QED
  BY <1>2, <1>3

-----------------------------------------------------------------------------
(***************************************************************************)
(* Each step keeps it.                                                     *)
(***************************************************************************)
LEMMA InitLatestInv == LatestInit => LatestInv
<1> SUFFICES ASSUME LatestInit PROVE LatestInv
  OBVIOUS
<1>1. created \in [Videos -> 0..MaxTime]
  <2>1. 0..now \subseteq 0..MaxTime
    BY TimeBoundAssumption DEF LatestInit
  <2> QED
    BY <2>1 DEF LatestInit
<1>2. stored \subseteq Videos
  BY VideoBoundAssumption DEF LatestInit, Videos
<1>3. SetTypeOK
  BY <1>1, <1>2 DEF LatestInit, SetTypeOK, Times, Trimmed, FirstOf
<1>4. Accounted /\ FlightOK
  BY DEF LatestInit, Accounted, FlightOK
<1> QED
  BY <1>3, <1>4 DEF LatestInv

\* Times of stored videos do not change.
LEMMA SameTimes ==
  ASSUME SetTypeOK, NEW S \in SUBSET stored, NEW v \in stored,
         \A u \in stored : created'[u] = created[u], Enough(S, v)
  PROVE  Enough(S, v)'
BY DEF Enough, NotOlder

LEMMA KeptWithoutSet ==
  ASSUME LatestInv, UNCHANGED <<now, created, stored, events, adding, zset, gone>>,
         flight' \in {flight, Nothing}
  PROVE  LatestInv'
BY DEF LatestInv, SetTypeOK, Times, Accounted, FlightOK, Enough, NotOlder

LEMMA TickKeeps == LatestInv /\ Tick => LatestInv'
<1> SUFFICES ASSUME LatestInv, Tick PROVE LatestInv'
  OBVIOUS
<1>1. now' \in 1..MaxTime
  BY TimeBoundAssumption DEF LatestInv, SetTypeOK, Tick
<1> QED
  BY <1>1 DEF Tick, LatestInv, SetTypeOK, Times, Accounted, FlightOK, Enough, NotOlder

LEMMA PublishersKeep ==
  ASSUME LatestInv, NEW v \in Videos, BeginPublish(v) \/ Publish(v)
  PROVE  LatestInv'
<1>1. CASE BeginPublish(v)
  <2>1. created' \in [Videos -> 0..MaxTime]
    BY <1>1, TimeBoundAssumption DEF BeginPublish, LatestInv, SetTypeOK, Times
  <2>2. \A u \in stored : created'[u] = created[u]
    BY <1>1 DEF BeginPublish, LatestInv, SetTypeOK, Times
  <2>3. SetTypeOK'
    BY <1>1, <2>1, <2>2 DEF BeginPublish, LatestInv, SetTypeOK, Times
  <2>4. Accounted'
    BY <1>1, <2>2, SameTimes DEF BeginPublish, LatestInv, Accounted, SetTypeOK, Enough, NotOlder
  <2>5. FlightOK'
    BY <1>1, <2>2, SameTimes DEF BeginPublish, LatestInv, FlightOK, SetTypeOK, Enough, NotOlder
  <2> QED
    BY <2>3, <2>4, <2>5 DEF LatestInv
<1>2. CASE Publish(v)
  <2>1. v # adding
    BY <1>2, NothingAssumption DEF Publish, LatestInv, SetTypeOK
  <2>2. SetTypeOK'
    BY <1>2 DEF Publish, LatestInv, SetTypeOK, Times
  <2>3. Accounted'
    BY <1>2, <2>1 DEF Publish, LatestInv, Accounted, Enough, NotOlder
  <2>4. FlightOK'
    BY <1>2 DEF Publish, LatestInv, FlightOK, Enough, NotOlder
  <2> QED
    BY <2>2, <2>3, <2>4 DEF LatestInv
<1> QED
  BY <1>1, <1>2

LEMMA AddKeeps ==
  ASSUME LatestInv, NEW v \in Videos, Add(v)
  PROVE  LatestInv'
<1>1. SetTypeOK'
  BY DEF Add, LatestInv, SetTypeOK, Times
<1>2. ASSUME NEW w \in stored, w \notin zset', w \notin gone', w \notin events' \ {adding'}
      PROVE  Enough(zset', w)
  <2>1. Enough(zset, w)
    BY <1>2, NothingAssumption DEF Add, LatestInv, Accounted, SetTypeOK
  <2>2. zset' \in SUBSET Videos /\ zset \in SUBSET zset'
    BY DEF Add, LatestInv, SetTypeOK
  <2> QED
    BY <2>1, <2>2, NotOlderGrows
<1>3. Accounted'
  BY <1>2 DEF Add, Accounted, Enough, NotOlder
<1>4. FlightOK'
  BY DEF Add, LatestInv, FlightOK, Enough, NotOlder
<1> QED
  BY <1>1, <1>3, <1>4 DEF LatestInv

\* Trimming, with the announcement acknowledged or to be delivered again.
LEMMA TrimKeeps ==
  ASSUME LatestInv, adding # Nothing, zset' \in {zset, Trimmed(zset)}, adding' = Nothing,
         events' = events \/ (events' = events \ {adding} /\ zset' = Trimmed(zset)),
         UNCHANGED <<now, created, stored, flight, gone>>
  PROVE  LatestInv'
<1>1. zset' \subseteq zset
  BY DEF Trimmed, FirstOf
<1>2. SetTypeOK'
  BY <1>1 DEF LatestInv, SetTypeOK, Times
<1>3. ASSUME NEW w \in stored, w \notin zset', w \notin gone, w \notin events \ {adding}
      PROVE  Enough(zset', w)
  <2>1. w \in zset \/ Enough(zset, w)
    BY <1>3 DEF LatestInv, Accounted
  <2>2. CASE zset' = zset
    BY <1>3, <2>1, <2>2
  <2>3. CASE zset' = Trimmed(zset)
    BY <1>3, <2>1, <2>3, TrimAccounts DEF LatestInv, SetTypeOK
  <2> QED
    BY <2>2, <2>3
<1>4. \A w \in stored \ (zset' \cup gone' \cup (events' \ {adding'})) : w \notin events \ {adding}
  BY NothingAssumption DEF LatestInv, SetTypeOK
<1>5. Accounted'
  BY <1>3, <1>4 DEF Accounted, Enough, NotOlder
<1>6. FlightOK'
  BY DEF LatestInv, FlightOK, Enough, NotOlder
<1> QED
  BY <1>2, <1>5, <1>6 DEF LatestInv

LEMMA LoseDataKeeps == LatestInv /\ LoseData => LatestInv'
<1> SUFFICES ASSUME LatestInv, LoseData PROVE LatestInv'
  OBVIOUS
<1>1. PICK kept \in SUBSET zset :
         zset' = kept /\ gone' = stored \ (kept \cup (events \ (zset \cup {adding})))
  BY DEF LoseData
<1>2. SetTypeOK'
  BY <1>1 DEF LoseData, LatestInv, SetTypeOK, Times
<1>3. Accounted'
  BY <1>1 DEF LoseData, Accounted
<1>4. FlightOK'
  BY DEF LoseData, LatestInv, FlightOK, Enough, NotOlder
<1> QED
  BY <1>2, <1>3, <1>4 DEF LatestInv

LEMMA LeadKeeps ==
  ASSUME LatestInv, Lead, UNCHANGED <<now, created, stored, events, adding, zset, gone>>
  PROVE  LatestInv'
<1>1. PICK rows \in TopSets(stored, Keep) : flight' = [rows |-> rows, asOf |-> stored]
  BY DEF Lead
<1>2. rows \subseteq stored /\ \A v \in stored \ rows : Enough(rows, v)
  BY <1>1, TopSetsCover DEF LatestInv
<1>3. SetTypeOK'
  BY <1>1, <1>2 DEF LatestInv, SetTypeOK, Times
<1>4. Accounted'
  BY DEF LatestInv, Accounted, Enough, NotOlder
<1>5. FlightOK'
  BY <1>1, <1>2 DEF FlightOK, Enough, NotOlder
<1> QED
  BY <1>3, <1>4, <1>5 DEF LatestInv

LEMMA LandKeeps ==
  ASSUME LatestInv, NEW outcome \in {"added", "notAdded", "error"}, Land(outcome)
  PROVE  LatestInv'
<1>1. CASE outcome # "added"
  <2>1. UNCHANGED <<now, created, stored, events, adding, zset, gone>> /\ flight' = Nothing
    BY <1>1 DEF Land, Rest
  <2> QED
    BY <2>1, KeptWithoutSet
<1>2. CASE outcome = "added"
  <2>1. /\ flight # Nothing /\ flight' = Nothing
        /\ zset' = zset \cup flight.rows /\ gone' = gone \ flight.asOf
        /\ UNCHANGED <<now, created, stored, events, adding>>
    BY <1>2 DEF Land, Rest
  <2>2. flight.rows \subseteq stored /\ flight.asOf \subseteq stored
    BY <2>1 DEF LatestInv, SetTypeOK
  <2>3. zset' \in SUBSET Videos /\ zset \in SUBSET zset' /\ flight.rows \in SUBSET zset'
    BY <2>1, <2>2 DEF LatestInv, SetTypeOK
  <2>4. gone' \subseteq stored \ zset'
    BY <2>1, <2>2 DEF LatestInv, SetTypeOK, FlightOK
  <2>5. SetTypeOK'
    BY <2>1, <2>2, <2>4 DEF LatestInv, SetTypeOK, Times
  <2>6. ASSUME NEW v \in stored, v \notin zset', v \notin gone', v \notin events \ {adding}
        PROVE  Enough(zset', v)
    <3>1. CASE v \in gone
      <4>1. Enough(flight.rows, v)
        BY <2>1, <2>6, <3>1 DEF LatestInv, FlightOK
      <4> QED
        BY <2>3, <4>1, NotOlderGrows
    <3>2. CASE v \notin gone
      <4>1. Enough(zset, v)
        BY <2>1, <2>6, <3>2 DEF LatestInv, Accounted
      <4> QED
        BY <2>3, <4>1, NotOlderGrows
    <3> QED
      BY <3>1, <3>2
  <2>7. Accounted'
    BY <2>1, <2>6 DEF Accounted, Enough, NotOlder
  <2>8. FlightOK'
    BY <2>1 DEF FlightOK
  <2> QED
    BY <2>5, <2>7, <2>8 DEF LatestInv
<1> QED
  BY <1>1, <1>2

LEMMA TabKeeps ==
  ASSUME LatestInv, AskPage \/ Step \/ OthersLead
  PROVE  LatestInv'
<1>1. /\ UNCHANGED <<now, created, stored, events, adding, zset, gone>>
      /\ UNCHANGED flight \/ Lead
  BY DEF AskPage, Step, OthersLead, ReadTail, ReadIds, Query, Share, ShareOtherPage, ReadFails,
         Reply, Rest
<1>2. CASE Lead
  BY <1>1, <1>2, LeadKeeps
<1>3. CASE UNCHANGED flight
  BY <1>1, <1>3, KeptWithoutSet
<1> QED
  BY <1>1, <1>2, <1>3

LEMMA StepLatestInv == LatestInv /\ [LatestNext]_latestVars => LatestInv'
<1> SUFFICES ASSUME LatestInv, [LatestNext]_latestVars PROVE LatestInv'
  OBVIOUS
<1>1. CASE UNCHANGED latestVars
  BY <1>1, KeptWithoutSet DEF latestVars
<1>2. CASE TrimAndAck \/ ConsumerFails
  BY <1>2, TrimKeeps DEF TrimAndAck, ConsumerFails
<1> QED
  BY <1>1, <1>2, TickKeeps, PublishersKeep, AddKeeps, LoseDataKeeps, LandKeeps, TabKeeps
  DEF LatestNext

LEMMA HoleExplained == LatestInv => TimelineHasNoHole
<1> SUFFICES ASSUME LatestInv, NEW v \in Hole, v \notin events, v \notin gone
             PROVE  Cardinality(zset) > Keep
  BY DEF TimelineHasNoHole, Damage
<1>1. PICK u \in zset : created[u] < created[v]
  BY DEF Hole
<1>2. Enough(zset, v)
  BY DEF LatestInv, Accounted, Hole
<1>3. zset \in SUBSET Videos /\ u \notin NotOlder(zset, v) /\ NotOlder(zset, v) \subseteq zset
  <2>1. created[u] \in Int /\ created[v] \in Int
    BY TimeBoundAssumption DEF LatestInv, SetTypeOK, Times, Hole
  <2> QED
    BY <1>1, <2>1 DEF NotOlder, LatestInv, SetTypeOK
<1>4. /\ Cardinality(NotOlder(zset, v)) <= Cardinality(zset)
      /\ Cardinality(NotOlder(zset, v)) # Cardinality(zset)
  BY <1>1, <1>3, SmallerSet
<1> QED
  BY <1>2, <1>3, <1>4, VideosFinite, KeepAssumption DEF Enough

\* A reader that takes the page above the oldest entry from the sorted set
\* misses no announced video there, but for what Redis has lost and while the
\* set is longer than Keep: the consumer's additions and trims, the rebuild
\* with the rows it read before others were stored, and failures between them.
THEOREM NoHole == LatestSpec => []TimelineHasNoHole
<1>1. LatestInit => LatestInv
  BY InitLatestInv
<1>2. LatestInv /\ [LatestNext]_latestVars => LatestInv'
  BY StepLatestInv
<1>3. LatestInv => TimelineHasNoHole
  BY HoleExplained
<1> QED
  BY <1>1, <1>2, <1>3, PTL DEF LatestSpec

-----------------------------------------------------------------------------
(***************************************************************************)
(* Sets of videos in order.                                                *)
(***************************************************************************)
\* One of some videos is the last.
LEMMA LastOf ==
  ASSUME Times, NEW S \in SUBSET Videos, S # {}
  PROVE  \E w \in S : \A u \in S \ {w} : Newer(u, w)
<1> DEFINE Under1(w) == {u \in S : Newer(w, u)}
           F == {Under1(w) : w \in S}
<1>1. PICK A \in F : \A B \in F : ~ (B \subseteq A /\ B # A)
  <2>1. IsFiniteSet(S) /\ F \subseteq SUBSET S /\ F # {}
    BY VideosFinite
  <2> HIDE DEF F
  <2> QED
    BY <2>1, MinimalSet
<1>2. PICK w \in S : A = Under1(w)
  BY <1>1
<1>3. ASSUME NEW u \in S \ {w} PROVE Newer(u, w)
  <2>1. created[u] \in Int /\ created[w] \in Int /\ u \in Int /\ w \in Int
    BY TimeBoundAssumption, VideoBoundAssumption DEF Times, Videos
  <2>2. Newer(u, w) \/ Newer(w, u)
    BY <2>1 DEF Newer
  <2>3. CASE Newer(w, u)
    <3>1. Under1(u) \subseteq Under1(w) /\ u \in Under1(w) /\ u \notin Under1(u)
      BY <2>3, NewerOrders
    <3>2. Under1(u) \in F
      OBVIOUS
    <3> QED
      BY <1>1, <1>2, <3>1, <3>2
  <2> QED
    BY <2>2, <2>3
<1> QED
  BY <1>3

LEMMA FirstAreFew ==
  ASSUME Times, NEW S \in SUBSET Videos, NEW n \in Nat
  PROVE  FirstOf(S, n) \in SUBSET S /\ Cardinality(FirstOf(S, n)) <= n
<1>0. FirstOf(S, n) \in SUBSET Videos /\ FirstOf(S, n) \in SUBSET S
  BY DEF FirstOf
<1>1. CASE FirstOf(S, n) = {}
  BY <1>0, <1>1, FS_EmptySet
<1>2. CASE FirstOf(S, n) # {}
  <2>1. PICK w \in FirstOf(S, n) : \A u \in FirstOf(S, n) \ {w} : Newer(u, w)
    BY <1>0, <1>2, LastOf
  <2>2. FirstOf(S, n) \subseteq Above(S, w) \cup {w}
    BY <1>0, <2>1 DEF Above
  <2>3. Cardinality(Above(S, w)) < n /\ Above(S, w) \in SUBSET Videos
    BY <2>1 DEF FirstOf, Above
  <2>4. Cardinality(Above(S, w) \cup {w}) = Cardinality(Above(S, w)) + 1
    <3>1. w \notin Above(S, w)
      BY <1>0, NewerOrders DEF Above
    <3> QED
      BY <2>3, <3>1, VideosFinite, FS_AddElement
  <2>5. Above(S, w) \cup {w} \in SUBSET Videos
    BY <2>3, <1>0
  <2>6. Cardinality(FirstOf(S, n)) <= Cardinality(Above(S, w) \cup {w})
    BY <2>2, <2>5, SmallerSet
  <2> QED
    BY <1>0, <2>3, <2>4, <2>6, VideosFinite
<1> QED
  BY <1>1, <1>2

Falling(s) == \A i, j \in DOMAIN s : i < j => Newer(s[i], s[j])

LEMMA HasOrder ==
  ASSUME Times, NEW S \in SUBSET Videos
  PROVE  \E s \in [1..Cardinality(S) -> S] : Falling(s)
<1> DEFINE Good(T) == \E s \in [1..Cardinality(T) -> T] : Falling(s)
           F == {T \in SUBSET S : ~ Good(T)}
<1> SUFFICES ASSUME F # {} PROVE FALSE
  OBVIOUS
<1>1. PICK T \in F : \A B \in F : ~ (B \subseteq T /\ B # T)
  <2>1. F \subseteq SUBSET S /\ IsFiniteSet(S)
    BY VideosFinite
  <2> HIDE DEF F
  <2> QED
    BY <2>1, MinimalSet
<1>2. T # {}
  <2>1. Good({})
    <3>1. Cardinality({}) = 0
      BY FS_EmptySet
    <3>2. [i \in 1..0 |-> i] \in [1..0 -> {}] /\ Falling([i \in 1..0 |-> i])
      BY DEF Falling
    <3> QED
      BY <3>1, <3>2
  <2> QED
    BY <1>1, <2>1
<1>3. T \in SUBSET Videos
  BY <1>1
<1>4. PICK w \in T : \A u \in T \ {w} : Newer(u, w)
  BY <1>2, <1>3, LastOf
<1> DEFINE Q == T \ {w}
<1>5. Good(Q)
  <2>1. Q \in SUBSET S /\ Q \subseteq T /\ Q # T
    BY <1>1, <1>4
  <2> HIDE DEF Q, Good
  <2> QED
    BY <1>1, <2>1
<1>6. Cardinality(T) = Cardinality(Q) + 1 /\ Cardinality(Q) \in Nat
  <2>1. IsFiniteSet(Q) /\ w \notin Q /\ T = Q \cup {w} /\ Q \in SUBSET Videos
    BY <1>3, VideosFinite
  <2> HIDE DEF Q
  <2> QED
    BY <2>1, FS_AddElement, FS_CardinalityType
<1>7. PICK s \in [1..Cardinality(Q) -> Q] : Falling(s)
  BY <1>5
<1> DEFINE c == Cardinality(Q)
           t == [i \in 1..(c + 1) |-> IF i <= c THEN s[i] ELSE w]
<1> HIDE DEF c
<1>8. c \in Nat /\ s \in [1..c -> Q] /\ Cardinality(T) = c + 1 /\ Q \subseteq T /\ w \in T
  BY <1>4, <1>6, <1>7 DEF c
<1>9. \A u \in Q : Newer(u, w)
  BY <1>4
<1> HIDE DEF Q
<1>10. /\ DOMAIN t = 1..(c + 1)
       /\ \A i \in 1..c : t[i] = s[i] /\ s[i] \in Q
       /\ t[c + 1] = w
       /\ \A i \in 1..(c + 1) : i \in 1..c \/ i = c + 1
  <2>1. \A i \in 1..c : i \in 1..(c + 1) /\ i <= c
    BY <1>8
  <2>2. c + 1 \in 1..(c + 1) /\ ~ (c + 1 <= c)
    BY <1>8
  <2>3. \A i \in 1..(c + 1) : i \in 1..c \/ i = c + 1
    BY <1>8
  <2> QED
    BY <2>1, <2>2, <2>3, <1>8
<1> HIDE DEF t
<1>11. t \in [1..Cardinality(T) -> T]
  <2>1. t = [i \in 1..(c + 1) |-> t[i]]
    BY DEF t
  <2>2. \A i \in 1..(c + 1) : t[i] \in T
    BY <1>8, <1>10
  <2> QED
    BY <2>1, <2>2, <1>8
<1>12. Falling(t)
  <2> SUFFICES ASSUME NEW i \in 1..(c + 1), NEW j \in 1..(c + 1), i < j PROVE Newer(t[i], t[j])
    BY <1>10 DEF Falling
  <2>1. i \in 1..c
    BY <1>8
  <2>2. CASE j \in 1..c
    <3>1. Newer(s[i], s[j])
      BY <2>1, <2>2, <1>7, <1>8 DEF Falling
    <3> QED
      BY <2>1, <2>2, <3>1, <1>10
  <2>3. CASE j = c + 1
    BY <2>1, <2>3, <1>9, <1>10
  <2> QED
    BY <2>2, <2>3, <1>10
<1> QED
  BY <1>1, <1>11, <1>12

\* A sequence that repeats nothing has as many members as entries.
LEMMA Counted ==
  ASSUME NEW s \in Seq(Videos), IsInjective(s)
  PROVE  ToSet(s) \in SUBSET Videos /\ Cardinality(ToSet(s)) = Len(s) /\ Len(s) \in Nat
<1>1. Len(s) \in Nat /\ DOMAIN s = 1..Len(s) /\ s \in [1..Len(s) -> Videos]
  OBVIOUS
<1>2. ToSet(s) \in SUBSET Videos
  BY <1>1 DEF ToSet
<1>3. s \in Bijection(1..Len(s), ToSet(s))
  <2>1. s \in [1..Len(s) -> ToSet(s)] /\ \A v \in ToSet(s) : \E i \in 1..Len(s) : s[i] = v
    BY <1>1 DEF ToSet
  <2> QED
    BY <1>1, <2>1 DEF Bijection, Injection, Surjection, IsInjective
<1>4. ExistsBijection(1..Len(s), ToSet(s))
  BY <1>3 DEF ExistsBijection
<1> QED
  BY <1>1, <1>2, <1>4, FS_CountingElements

\* An order of a set has its members, each once.
LEMMA OrderOf ==
  ASSUME NEW S \in SUBSET Videos, NEW s \in [1..Cardinality(S) -> S], IsInjective(s)
  PROVE  s \in Seq(Videos) /\ Len(s) = Cardinality(S) /\ ToSet(s) = S
<1> DEFINE c == Cardinality(S)
<1>1. c \in Nat
  BY VideosFinite
<1> HIDE DEF c
<1>2. s \in [1..c -> S]
  BY DEF c
<1>3. s \in Seq(Videos) /\ Len(s) = c
  BY <1>1, <1>2
<1>4. ToSet(s) \in SUBSET S
  BY <1>2 DEF ToSet
<1>5. Cardinality(ToSet(s)) = c
  BY <1>3, Counted
<1>6. ToSet(s) = S
  BY <1>4, <1>5, SmallerSet DEF c
<1> QED
  BY <1>3, <1>6 DEF c

LEMMA FallingOnce ==
  ASSUME Times, NEW s \in Seq(Videos), Falling(s)
  PROVE  IsInjective(s) /\ Descending(s)
<1>1. \A i \in DOMAIN s : s[i] \in Videos /\ i \in Int
  OBVIOUS
<1>2. Descending(s)
  BY <1>1, NewerOrders DEF Falling, Descending
<1>3. ASSUME NEW i \in DOMAIN s, NEW j \in DOMAIN s, s[i] = s[j] PROVE i = j
  <2>1. ~ (i < j) /\ ~ (j < i)
    BY <1>1, <1>3, NewerOrders DEF Falling
  <2> QED
    BY <1>1, <2>1
<1> QED
  BY <1>2, <1>3 DEF IsInjective

LEMMA InOrderIs ==
  ASSUME Times, NEW S \in SUBSET Videos
  PROVE  /\ InOrder(S) \in Seq(Videos)
         /\ Len(InOrder(S)) = Cardinality(S) /\ ToSet(InOrder(S)) = S
         /\ Falling(InOrder(S)) /\ IsInjective(InOrder(S)) /\ Descending(InOrder(S))
<1> DEFINE s == InOrder(S)
<1>1. s \in [1..Cardinality(S) -> S] /\ Falling(s)
  BY HasOrder DEF InOrder, Falling
<1> HIDE DEF s
<1>2. s \in Seq(Videos)
  BY <1>1, VideosFinite
<1>3. IsInjective(s) /\ Descending(s)
  BY <1>1, <1>2, FallingOnce
<1>4. Len(s) = Cardinality(S) /\ ToSet(s) = S
  BY <1>1, <1>3, OrderOf
<1> QED
  BY <1>1, <1>2, <1>3, <1>4 DEF s

-----------------------------------------------------------------------------
(***************************************************************************)
(* Lists of stored videos, newest first and none twice.                    *)
(***************************************************************************)
Listed(s) == s \in Seq(Videos) /\ ToSet(s) \subseteq stored /\ IsInjective(s) /\ Descending(s)

LEMMA EmptyListed == Listed(<<>>) /\ ToSet(<<>>) = {} /\ Len(<<>>) = 0
BY DEF Listed, ToSet, IsInjective, Descending

LEMMA StaysListed ==
  ASSUME NEW s, Listed(s), stored \subseteq stored',
         \A v \in stored : created'[v] = created[v]
  PROVE  Listed(s)'
<1>1. \A i \in DOMAIN s : s[i] \in stored
  BY DEF Listed, ToSet
<1>2. Descending(s)'
  BY <1>1 DEF Listed, Descending
<1> QED
  BY <1>2 DEF Listed

\* One list below another.
LEMMA JoinedListed ==
  ASSUME NEW s, NEW t, Listed(s), Listed(t), Times, stored \subseteq Videos,
         \A u \in ToSet(s), w \in ToSet(t) : created[u] > created[w]
  PROVE  /\ Listed(s \o t)
         /\ ToSet(s \o t) = ToSet(s) \cup ToSet(t)
         /\ Len(s \o t) = Len(s) + Len(t)
<1> DEFINE j == s \o t
           m == Len(s)
           n == Len(t)
<1>1. /\ m \in Nat /\ n \in Nat /\ j \in Seq(Videos) /\ Len(j) = m + n
      /\ DOMAIN s = 1..m /\ DOMAIN t = 1..n /\ DOMAIN j = 1..(m + n)
      /\ \A i \in 1..m : j[i] = s[i] /\ i \in DOMAIN j
      /\ \A i \in 1..n : j[m + i] = t[i] /\ m + i \in DOMAIN j
  BY DEF Listed
<1>2. \A i \in DOMAIN j : i \in 1..m \/ (i - m \in 1..n /\ i = m + (i - m) /\ j[i] = t[i - m])
  BY <1>1
<1> HIDE DEF j, m, n
<1>3. /\ \A i \in 1..m : s[i] \in ToSet(s)
      /\ \A i \in 1..n : t[i] \in ToSet(t)
  BY <1>1 DEF ToSet
<1>4. ToSet(j) = ToSet(s) \cup ToSet(t)
  <2>1. ASSUME NEW x \in ToSet(j) PROVE x \in ToSet(s) \cup ToSet(t)
    <3>1. PICK i \in DOMAIN j : x = j[i]
      BY DEF ToSet
    <3> QED
      BY <1>1, <1>2, <1>3, <3>1
  <2>2. ASSUME NEW x \in ToSet(s) PROVE x \in ToSet(j)
    <3>1. PICK i \in 1..m : x = s[i]
      BY <1>1 DEF ToSet
    <3> QED
      BY <1>1, <3>1 DEF ToSet
  <2>3. ASSUME NEW x \in ToSet(t) PROVE x \in ToSet(j)
    <3>1. PICK i \in 1..n : x = t[i]
      BY <1>1 DEF ToSet
    <3> QED
      BY <1>1, <3>1 DEF ToSet
  <2> QED
    BY <2>1, <2>2, <2>3
<1>5. \A u \in stored : created[u] \in Int
  BY TimeBoundAssumption DEF Times
<1>6. ToSet(s) \subseteq stored /\ ToSet(t) \subseteq stored
  BY DEF Listed
<1>7. ASSUME NEW a \in DOMAIN j, NEW b \in DOMAIN j, a < b
      PROVE  created[j[a]] >= created[j[b]] /\ j[a] # j[b]
  <2>0. a \in Int /\ b \in Int
    BY <1>1
  <2>1. CASE a \in 1..m /\ b \in 1..m
    <3>1. created[s[a]] >= created[s[b]] /\ s[a] # s[b]
      BY <1>1, <1>7, <2>0, <2>1 DEF Listed, Descending, IsInjective
    <3> QED
      BY <1>1, <2>1, <3>1
  <2>2. CASE a \in 1..m /\ b - m \in 1..n /\ j[b] = t[b - m]
    <3>1. j[a] \in ToSet(s) /\ j[b] \in ToSet(t)
      BY <1>1, <1>3, <2>2
    <3>2. created[j[a]] > created[j[b]] /\ created[j[a]] \in Int /\ created[j[b]] \in Int
      BY <1>5, <1>6, <3>1
    <3> QED
      BY <3>2
  <2>3. CASE a - m \in 1..n /\ j[a] = t[a - m] /\ b - m \in 1..n /\ j[b] = t[b - m]
    <3>1. a - m < b - m /\ a - m # b - m
      BY <1>1, <1>7, <2>0
    <3>2. created[t[a - m]] >= created[t[b - m]] /\ t[a - m] # t[b - m]
      BY <1>1, <2>3, <3>1 DEF Listed, Descending, IsInjective
    <3> QED
      BY <2>3, <3>2
  <2>4. CASE a - m \in 1..n /\ b \in 1..m
    BY <1>1, <1>7, <2>0, <2>4
  <2> QED
    BY <1>2, <2>1, <2>2, <2>3, <2>4
<1>8. IsInjective(j) /\ Descending(j)
  <2>1. Descending(j)
    BY <1>7 DEF Descending
  <2>2. ASSUME NEW a \in DOMAIN j, NEW b \in DOMAIN j, j[a] = j[b] PROVE a = b
    <3>1. ~ (a < b) /\ ~ (b < a) /\ a \in Int /\ b \in Int
      BY <1>1, <1>7, <2>2
    <3> QED
      BY <3>1
  <2> QED
    BY <2>1, <2>2 DEF IsInjective
<1> QED
  BY <1>1, <1>4, <1>6, <1>8 DEF Listed, j, m, n

\* The last of a list is not newer than the others.
LEMMA LastIsLast ==
  ASSUME NEW s, Listed(s), Times, stored \subseteq Videos, s # <<>>
  PROVE  /\ Len(s) \in Nat \ {0} /\ s[Len(s)] \in ToSet(s) /\ s[Len(s)] \in stored
         /\ \A v \in ToSet(s) : created[v] >= created[s[Len(s)]]
<1>1. Len(s) \in Nat /\ Len(s) # 0 /\ DOMAIN s = 1..Len(s) /\ Len(s) \in DOMAIN s
  BY DEF Listed
<1>2. s[Len(s)] \in ToSet(s)
  BY <1>1 DEF ToSet
<1>3. \A v \in stored : created[v] \in Int
  BY TimeBoundAssumption DEF Times
<1>4. ASSUME NEW v \in ToSet(s) PROVE created[v] >= created[s[Len(s)]]
  <2>1. PICK i \in DOMAIN s : v = s[i]
    BY DEF ToSet
  <2>2. CASE i = Len(s)
    <3>1. created[v] \in Int
      BY <1>3 DEF Listed
    <3> QED
      BY <2>1, <2>2, <3>1
  <2>3. CASE i # Len(s)
    <3>1. i < Len(s)
      BY <1>1, <2>3
    <3> QED
      BY <1>1, <2>1, <3>1 DEF Listed, Descending
  <2> QED
    BY <2>2, <2>3
<1> QED
  BY <1>1, <1>2, <1>4 DEF Listed

Under(v, time) == time = 0 \/ created[v] < time

\* What a query of some of the stored videos gives: all there is, or as many as
\* were asked for, and none newer is left out.
LEMMA RowsAre ==
  ASSUME SetTypeOK, NEW table \in SUBSET stored, NEW before, NEW n \in Nat \ {0},
         NEW s \in Rows(table, before, n)
  PROVE  /\ Listed(s) /\ Len(s) <= n
         /\ \A v \in ToSet(s) : v \in table /\ Under(v, before)
         /\ \A v \in table : Under(v, before) =>
               v \in ToSet(s) \/ (Len(s) = n /\ created[s[n]] >= created[v])
<1> DEFINE S == {v \in table : before = 0 \/ created[v] < before}
<1>1. PICK Q \in TopSets(S, n) : s \in {r \in SetToSeqs(Q) : Descending(r)}
  BY DEF Rows
<1>2. S \in SUBSET Videos /\ S \subseteq stored /\ \A v \in table : v \in S <=> Under(v, before)
  BY DEF SetTypeOK, Under
<1> HIDE DEF S
<1>3. /\ Q \in SUBSET S /\ Q \in SUBSET Videos
      /\ Cardinality(Q) = IF Cardinality(S) < n THEN Cardinality(S) ELSE n
      /\ \A u \in Q, v \in S \ Q : created[u] >= created[v]
  BY <1>1, <1>2 DEF TopSets
<1>4. s \in [1..Cardinality(Q) -> Q] /\ IsInjective(s) /\ Descending(s)
  BY <1>1 DEF SetToSeqs, IsInjective
<1>5. s \in Seq(Videos) /\ Len(s) = Cardinality(Q) /\ ToSet(s) = Q
  BY <1>3, <1>4, OrderOf
<1>6. Listed(s)
  BY <1>2, <1>3, <1>4, <1>5 DEF Listed
<1>7. Cardinality(S) \in Nat
  BY <1>2, VideosFinite
<1>8. Len(s) <= n
  BY <1>3, <1>5, <1>7
<1>9. ASSUME NEW v \in table, Under(v, before), v \notin ToSet(s)
      PROVE  Len(s) = n /\ created[s[n]] >= created[v]
  <2>1. v \in S /\ Q # S
    BY <1>2, <1>5, <1>9
  <2>2. Cardinality(Q) # Cardinality(S)
    BY <1>2, <1>3, <2>1, SmallerSet
  <2>3. Len(s) = n /\ n \in DOMAIN s
    BY <1>3, <1>5, <2>2
  <2>4. s[n] \in Q
    BY <1>4, <1>5, <2>3 DEF ToSet
  <2> QED
    BY <1>3, <1>5, <1>9, <2>1, <2>3, <2>4
<1>10. \A v \in ToSet(s) : v \in table /\ Under(v, before)
  <2>1. S \subseteq table
    BY DEF S
  <2> QED
    BY <1>2, <1>3, <1>5, <2>1
<1> QED
  BY <1>6, <1>8, <1>9, <1>10

-----------------------------------------------------------------------------
(***************************************************************************)
(* The tab.  Down to its cursor it shows what it is owed; the page it is   *)
(* putting together lies below, and down to where its query begins, or to  *)
(* its end, has what it owes.                                              *)
(***************************************************************************)
TabTypeOK ==
    /\ tab = [stage |-> tab.stage, cursor |-> tab.cursor, shown |-> tab.shown,
              page |-> tab.page, bound |-> tab.bound, got |-> tab.got, owed |-> tab.owed]
    /\ tab.stage \in Stages /\ tab.cursor \in 0..MaxTime /\ tab.bound \in 0..MaxTime
    /\ Listed(tab.shown) /\ Listed(tab.page) /\ Listed(tab.got)
    /\ tab.owed \subseteq stored \ events

ShownOK ==
    /\ tab.cursor = 0 => tab.shown = <<>>
    /\ \A v \in ToSet(tab.shown) : created[v] >= tab.cursor
    /\ \A v \in tab.owed :
          tab.stage = "end" \/ ~ Under(v, tab.cursor) => v \in ToSet(tab.shown)

Asking == tab.stage \in {"cold", "db", "stitch"}

PageOK ==
    /\ tab.stage \notin {"stitch", "reply"} => tab.page = <<>>
    /\ tab.stage # "reply" => tab.got = <<>>
    /\ \A v \in ToSet(tab.page) \cup ToSet(tab.got) : Under(v, tab.cursor)
    /\ Asking =>
          /\ Len(tab.page) < Limit
          /\ \A v \in ToSet(tab.page) : ~ Under(v, tab.bound)
          /\ tab.cursor # 0 => tab.bound # 0 /\ tab.bound <= tab.cursor
          /\ \A v \in tab.owed : Under(v, tab.cursor) /\ ~ Under(v, tab.bound)
                                    => v \in ToSet(tab.page)
    /\ tab.stage = "rebuild" => tab.owed \subseteq gone

\* The page that is answered: all there is, or full.
Answered(page) ==
    /\ Listed(page) /\ Len(page) <= Limit
    /\ \A v \in tab.owed :
          Under(v, tab.cursor) =>
              v \in ToSet(page) \/ (Len(page) = Limit /\ created[v] <= created[page[Limit]])

ReplyOK ==
    tab.stage = "reply" =>
        /\ Answered(tab.page \o tab.got)
        /\ ToSet(tab.page \o tab.got) = ToSet(tab.page) \cup ToSet(tab.got)

TabInv == TabTypeOK /\ ShownOK /\ PageOK /\ ReplyOK

LEMMA InitTabInv == LatestInit => TabInv
<1> SUFFICES ASSUME LatestInit PROVE TabInv
  OBVIOUS
<1>1. tab = FreshTab
  BY DEF LatestInit
<1>2. TabTypeOK
  BY <1>1, EmptyListed, TimeBoundAssumption DEF TabTypeOK, FreshTab, Stages
<1>3. ShownOK /\ PageOK /\ ReplyOK
  BY <1>1, EmptyListed DEF ShownOK, PageOK, ReplyOK, FreshTab, Asking
<1> QED
  BY <1>2, <1>3 DEF TabInv

\* A step of the others: times of stored videos stay.
LEMMA OthersLeaveTab ==
  ASSUME SetTypeOK, TabInv, UNCHANGED tab,
         stored \subseteq stored', events' \cap stored \subseteq events,
         \A v \in stored : created'[v] = created[v],
         tab.stage = "rebuild" => tab.owed \cap gone \subseteq gone'
  PROVE  TabInv'
<1>1. \A v \in stored : \A t : Under(v, t)' <=> Under(v, t)
  BY DEF Under
<1>2. Listed(tab.shown)' /\ Listed(tab.page)' /\ Listed(tab.got)'
  BY StaysListed DEF TabInv, TabTypeOK
<1>3. TabTypeOK'
  BY <1>2 DEF TabInv, TabTypeOK
<1>4. /\ ToSet(tab.shown) \subseteq stored /\ ToSet(tab.page) \subseteq stored
      /\ ToSet(tab.got) \subseteq stored /\ tab.owed \subseteq stored
  BY DEF TabInv, TabTypeOK, Listed
<1>5. ShownOK'
  BY <1>1, <1>4 DEF TabInv, ShownOK
<1>6. PageOK'
  BY <1>1, <1>4 DEF TabInv, PageOK, Asking
<1>7. ReplyOK'
  <2> SUFFICES ASSUME tab.stage = "reply" PROVE ReplyOK'
    BY DEF ReplyOK
  <2>1. PICK all : all = tab.page \o tab.got
    OBVIOUS
  <2>2. Answered(all) /\ ToSet(all) = ToSet(tab.page) \cup ToSet(tab.got)
    BY <2>1 DEF TabInv, ReplyOK
  <2>3. Listed(all)' /\ \A i \in DOMAIN all : all[i] \in stored
    BY <2>2, StaysListed DEF Answered, Listed, ToSet
  <2>4. Len(all) = Limit => Limit \in DOMAIN all
    BY <2>2, LimitAssumption DEF Answered, Listed
  <2>5. Answered(all)'
    BY <1>1, <1>4, <2>2, <2>3, <2>4 DEF Answered
  <2> QED
    BY <2>1, <2>2, <2>5 DEF ReplyOK
<1> QED
  BY <1>3, <1>5, <1>6, <1>7 DEF TabInv

-----------------------------------------------------------------------------
(***************************************************************************)
(* The steps of the request.                                               *)
(***************************************************************************)
LEMMA SameLists ==
  ASSUME UNCHANGED <<created, stored>>
  PROVE  /\ \A s : Listed(s)' <=> Listed(s)
         /\ \A v, t : Under(v, t)' <=> Under(v, t)
BY DEF Listed, Descending, Under

\* Nothing is found yet.
LEMMA NothingFound ==
  ASSUME SetTypeOK, TabInv, UNCHANGED <<created, stored, events>>,
         tab.stage \notin {"reply", "end"},
         NEW at \in {"idle", "tail", "rebuild", "hot", "cold", "db"},
         NEW b \in 0..MaxTime, NEW o \in SUBSET (stored \ events),
         o = tab.owed \/ tab.cursor = 0,
         tab' = [stage |-> at, cursor |-> tab.cursor, shown |-> tab.shown, page |-> <<>>,
                 bound |-> b, got |-> <<>>, owed |-> o],
         at \in {"cold", "db"} => b = tab.cursor,
         at = "rebuild" => o \subseteq gone'
  PROVE  TabInv'
<1>1. /\ tab'.stage = at /\ tab'.cursor = tab.cursor /\ tab'.shown = tab.shown
      /\ tab'.page = <<>> /\ tab'.bound = b /\ tab'.got = <<>> /\ tab'.owed = o
  OBVIOUS
<1>2. TabTypeOK'
  <2>1. Listed(tab.shown)' /\ Listed(<<>>)'
    BY SameLists, EmptyListed DEF TabInv, TabTypeOK
  <2>2. at \in Stages /\ tab.cursor \in 0..MaxTime
    BY DEF Stages, TabInv, TabTypeOK
  <2> QED
    BY <1>1, <2>1, <2>2 DEF TabTypeOK
<1>3. ShownOK'
  <2>1. \A v \in o : ~ Under(v, tab.cursor) => v \in ToSet(tab.shown)
    BY DEF TabInv, ShownOK, Under
  <2> QED
    BY <1>1, <2>1, SameLists DEF TabInv, ShownOK
<1>4. PageOK'
  <2>1. Len(<<>>) < Limit /\ ToSet(<<>>) = {}
    BY EmptyListed, LimitAssumption
  <2>2. tab.cursor <= tab.cursor
    BY DEF TabInv, TabTypeOK
  <2> QED
    BY <1>1, <2>1, <2>2 DEF PageOK, Asking
<1>5. ReplyOK'
  BY <1>1 DEF ReplyOK
<1> QED
  BY <1>2, <1>3, <1>4, <1>5 DEF TabInv

\* What was found and what the database gives make the page.
LEMMA PageMade ==
  ASSUME SetTypeOK, TabInv, UNCHANGED <<created, stored, events>>,
         tab.stage \notin {"reply", "end"},
         NEW page, NEW rows, NEW o \in SUBSET tab.owed,
         tab' = [stage |-> "reply", cursor |-> tab.cursor, shown |-> tab.shown, page |-> page,
                 bound |-> 0, got |-> rows, owed |-> o],
         Listed(page), Listed(rows),
         \A v \in ToSet(page) \cup ToSet(rows) : Under(v, tab.cursor),
         \A u \in ToSet(page), w \in ToSet(rows) : created[u] > created[w],
         Len(page) + Len(rows) <= Limit,
         \A v \in o : Under(v, tab.cursor) =>
             \/ v \in ToSet(page) \cup ToSet(rows)
             \/ /\ Len(page \o rows) = Limit
                /\ created[v] <= created[(page \o rows)[Limit]]
  PROVE  TabInv'
<1> DEFINE all == page \o rows
<1>1. /\ tab'.stage = "reply" /\ tab'.cursor = tab.cursor /\ tab'.shown = tab.shown
      /\ tab'.page = page /\ tab'.bound = 0 /\ tab'.got = rows /\ tab'.owed = o
  OBVIOUS
<1>2. TabTypeOK'
  <2>1. Listed(tab.shown)' /\ Listed(page)' /\ Listed(rows)'
    BY SameLists DEF TabInv, TabTypeOK
  <2>2. /\ "reply" \in Stages /\ tab.cursor \in 0..MaxTime /\ 0 \in 0..MaxTime
        /\ o \subseteq stored \ events
    BY TimeBoundAssumption DEF Stages, TabInv, TabTypeOK
  <2> QED
    BY <1>1, <2>1, <2>2 DEF TabTypeOK
<1>3. ShownOK'
  BY <1>1, SameLists DEF TabInv, ShownOK
<1>4. PageOK'
  BY <1>1, SameLists DEF PageOK, Asking
<1>5. Listed(all) /\ ToSet(all) = ToSet(page) \cup ToSet(rows) /\ Len(all) <= Limit
  BY JoinedListed DEF SetTypeOK
<1> HIDE DEF all
<1>6. ReplyOK'
  <2>1. Answered(all)'
    BY <1>1, <1>5, SameLists DEF Answered, all
  <2> QED
    BY <1>1, <1>5, <2>1 DEF ReplyOK, all
<1> QED
  BY <1>2, <1>3, <1>4, <1>6 DEF TabInv

\* What the tab is owed once the sorted set is empty has been lost.
LEMMA EmptySetOwesNothing ==
  ASSUME LatestInv, TabInv, zset = {}
  PROVE  tab.owed \subseteq gone
<1> SUFFICES ASSUME NEW v \in tab.owed, v \notin gone PROVE FALSE
  OBVIOUS
<1>1. v \in stored /\ v \notin events
  BY DEF TabInv, TabTypeOK
<1>2. Cardinality(NotOlder(zset, v)) >= Keep
  BY <1>1 DEF LatestInv, Accounted, Enough
<1>3. NotOlder(zset, v) = {}
  BY DEF NotOlder
<1> QED
  BY <1>2, <1>3, FS_EmptySet, KeepAssumption

LEMMA TabTyped ==
  ASSUME TabInv, tab.stage \notin {"stitch", "reply"}
  PROVE  /\ tab = [stage |-> tab.stage, cursor |-> tab.cursor, shown |-> tab.shown,
                   page |-> tab.page, bound |-> tab.bound, got |-> tab.got, owed |-> tab.owed]
         /\ tab.page = <<>> /\ tab.got = <<>>
         /\ tab.cursor \in 0..MaxTime /\ tab.bound \in 0..MaxTime
         /\ tab.owed \in SUBSET (stored \ events)
BY DEF TabInv, TabTypeOK, PageOK

LEMMA AskTab ==
  ASSUME SetTypeOK, TabInv, AskPage
  PROVE  TabInv'
<1> DEFINE o == IF tab.cursor = 0 THEN stored \ events ELSE tab.owed
<1>1. tab.stage = "idle" /\ UNCHANGED <<created, stored, events>>
  BY DEF AskPage, Rest
<1>2. tab' = [tab EXCEPT !.stage = "tail", !.owed = o]
  BY DEF AskPage
<1>3. o \in SUBSET (stored \ events) /\ (o = tab.owed \/ tab.cursor = 0)
  BY <1>1, TabTyped
<1> HIDE DEF o
<1>4. tab' = [stage |-> "tail", cursor |-> tab.cursor, shown |-> tab.shown, page |-> <<>>,
              bound |-> tab.bound, got |-> <<>>, owed |-> o]
  BY <1>1, <1>2, TabTyped
<1> QED
  BY <1>1, <1>3, <1>4, TabTyped, NothingFound

LEMMA RefusedTab ==
  ASSUME SetTypeOK, TabInv, UNCHANGED <<created, stored, events>>,
         tab.stage \notin {"stitch", "reply", "end"}, tab' = Refused
  PROVE  TabInv'
<1>1. tab' = [stage |-> "idle", cursor |-> tab.cursor, shown |-> tab.shown, page |-> <<>>,
              bound |-> tab.bound, got |-> <<>>, owed |-> tab.owed]
  BY TabTyped DEF Refused
<1> QED
  BY <1>1, TabTyped, NothingFound

LEMMA ReadTailTab ==
  ASSUME LatestInv, TabInv, ReadTail
  PROVE  TabInv'
<1>1. /\ tab.stage = "tail" /\ UNCHANGED <<created, stored, events, zset, gone>> /\ SetTypeOK
  BY DEF ReadTail, Rest, LatestInv
<1>2. ASSUME NEW at \in {"cold", "db"},
             tab' = [tab EXCEPT !.stage = at, !.bound = tab.cursor]
      PROVE  TabInv'
  <2>1. tab' = [stage |-> at, cursor |-> tab.cursor, shown |-> tab.shown, page |-> <<>>,
                bound |-> tab.cursor, got |-> <<>>, owed |-> tab.owed]
    BY <1>1, <1>2, TabTyped
  <2> QED
    BY <1>1, <2>1, TabTyped, NothingFound
<1>3. ASSUME NEW at \in {"rebuild", "hot"}, tab' = [tab EXCEPT !.stage = at],
             at = "rebuild" => zset = {}
      PROVE  TabInv'
  <2>1. tab' = [stage |-> at, cursor |-> tab.cursor, shown |-> tab.shown, page |-> <<>>,
                bound |-> tab.bound, got |-> <<>>, owed |-> tab.owed]
    BY <1>1, <1>3, TabTyped
  <2>2. at = "rebuild" => tab.owed \subseteq gone'
    BY <1>1, <1>3, EmptySetOwesNothing
  <2> QED
    BY <1>1, <2>1, <2>2, TabTyped, NothingFound
<1>4. \/ \E at \in {"cold", "db"} : tab' = [tab EXCEPT !.stage = at, !.bound = tab.cursor]
      \/ tab' = [tab EXCEPT !.stage = "rebuild"] /\ zset = {}
      \/ tab' = [tab EXCEPT !.stage = "hot"]
  BY DEF ReadTail
<1> QED
  BY <1>2, <1>3, <1>4

LEMMA LandTab ==
  ASSUME LatestInv, TabInv, NEW outcome \in {"added", "notAdded", "error"}, Land(outcome)
  PROVE  TabInv'
<1>1. UNCHANGED <<created, stored, events>> /\ SetTypeOK
  BY DEF Land, Rest, LatestInv
<1>2. CASE tab.stage # "rebuild"
  <2>1. UNCHANGED tab
    BY <1>2 DEF Land
  <2> QED
    BY <1>1, <1>2, <2>1, OthersLeaveTab
<1>3. CASE tab.stage = "rebuild"
  <2>1. tab.owed \ gone = {}
    BY <1>3 DEF TabInv, PageOK
  <2>2. CASE tab' = Refused
    BY <1>1, <1>3, <2>2, RefusedTab
  <2>3. CASE tab' = [tab EXCEPT !.stage = "end", !.owed = @ \ gone]
    <3>1. tab' = [stage |-> "end", cursor |-> tab.cursor, shown |-> tab.shown, page |-> <<>>,
                  bound |-> tab.bound, got |-> <<>>, owed |-> {}]
      BY <1>3, <2>1, <2>3, TabTyped
    <3>2. /\ tab'.stage = "end" /\ tab'.cursor = tab.cursor /\ tab'.shown = tab.shown
          /\ tab'.page = <<>> /\ tab'.bound = tab.bound /\ tab'.got = <<>> /\ tab'.owed = {}
      BY <3>1
    <3>3. TabTypeOK'
      <4>1. Listed(tab.shown)' /\ Listed(<<>>)' /\ "end" \in Stages
        BY <1>1, <3>2, SameLists, EmptyListed DEF TabInv, TabTypeOK, Stages
      <4> QED
        BY <3>1, <3>2, <4>1 DEF TabInv, TabTypeOK
    <3>4. ShownOK'
      BY <1>1, <3>2, SameLists DEF TabInv, ShownOK
    <3>5. PageOK' /\ ReplyOK'
      BY <3>2, EmptyListed DEF PageOK, ReplyOK, Asking
    <3> QED
      BY <3>3, <3>4, <3>5 DEF TabInv
  <2>4. CASE tab' = [tab EXCEPT !.stage = "tail"]
    <3>1. tab' = [stage |-> "tail", cursor |-> tab.cursor, shown |-> tab.shown, page |-> <<>>,
                  bound |-> tab.bound, got |-> <<>>, owed |-> tab.owed]
      BY <1>3, <2>4, TabTyped
    <3> QED
      BY <1>1, <1>3, <3>1, TabTyped, NothingFound
  <2>5. \/ tab' = Refused
        \/ tab' = [tab EXCEPT !.stage = "end", !.owed = @ \ gone]
        \/ tab' = [tab EXCEPT !.stage = "tail"]
    BY <1>3 DEF Land
  <2> QED
    BY <2>2, <2>3, <2>4, <2>5
<1> QED
  BY <1>2, <1>3

\* Above the last video found, the sorted set has what the tab is owed.
LEMMA FoundIsAll ==
  ASSUME LatestInv, TabInv, NEW S, S = {v \in zset : Under(v, tab.cursor)},
         NEW unread \in SUBSET FirstOf(S, Limit),
         NEW last \in FirstOf(S, Limit),
         NEW v \in tab.owed, v \notin unread \cup Damage,
         Under(v, tab.cursor), created[v] > created[last]
  PROVE  v \in FirstOf(S, Limit) \ unread
<1>1. /\ v \in stored /\ v \notin events /\ last \in zset /\ last \in S
      /\ stored \subseteq Videos /\ zset \subseteq stored /\ Times
  BY DEF TabInv, TabTypeOK, LatestInv, SetTypeOK, FirstOf
<1>2. created[v] \in Int /\ created[last] \in Int
  BY <1>1, TimeBoundAssumption DEF Times
<1>3. v \in zset
  <2> SUFFICES ASSUME v \notin zset PROVE FALSE
    OBVIOUS
  <2>1. v \in Hole
    BY <1>1, <1>2 DEF Hole
  <2> QED
    BY <1>1, <2>1, HoleExplained DEF TimelineHasNoHole
<1>4. v \in S /\ Newer(v, last)
  BY <1>2, <1>3 DEF Newer
<1>5. S \in SUBSET Videos
  BY <1>1
<1> DEFINE above == {u \in S : Newer(u, v)}
           more  == {u \in S : Newer(u, last)}
<1>6. above \in SUBSET more /\ more \in SUBSET Videos
  BY <1>1, <1>4, <1>5, NewerOrders
<1>7. Cardinality(more) < Limit
  BY DEF FirstOf
<1> HIDE DEF above, more
<1>8. Cardinality(above) < Limit
  <2>1. Cardinality(above) \in Nat /\ Cardinality(more) \in Nat /\ above \in SUBSET Videos
    BY <1>6, VideosFinite
  <2> QED
    BY <1>6, <1>7, <2>1, SmallerSet, LimitAssumption
<1> QED
  BY <1>4, <1>8 DEF FirstOf, above

LEMMA ReadIdsTab ==
  ASSUME LatestInv, TabInv, ReadIds
  PROVE  TabInv'
<1> DEFINE S == {v \in zset : Under(v, tab.cursor)}
           ids == FirstOf(S, Limit)
<1>1. PICK unread \in SUBSET ids :
        tab' = [tab EXCEPT
                  !.stage = IF Limit - Len(InOrder(ids \ unread)) = 0 THEN "reply" ELSE "stitch",
                  !.page = InOrder(ids \ unread),
                  !.bound = IF Limit - Len(InOrder(ids \ unread)) = 0 THEN 0
                            ELSE ColdCursor(InOrder(ids \ unread)),
                  !.owed = Passed(@ \ (unread \cup Damage), ColdCursor(InOrder(ids \ unread)),
                                  InOrder(ids \ unread))]
  BY DEF ReadIds, Under
<1> DEFINE found == InOrder(ids \ unread)
           below == ColdCursor(found)
           more  == Limit - Len(found)
           o     == Passed(tab.owed \ (unread \cup Damage), below, found)
<1>2. tab.stage = "hot" /\ UNCHANGED <<created, stored, events>>
  BY DEF ReadIds, Rest
<1>3. tab' = [stage |-> IF more = 0 THEN "reply" ELSE "stitch", cursor |-> tab.cursor,
              shown |-> tab.shown, page |-> found, bound |-> IF more = 0 THEN 0 ELSE below,
              got |-> <<>>, owed |-> o]
  <2>1. tab' = [tab EXCEPT !.stage = IF more = 0 THEN "reply" ELSE "stitch", !.page = found,
                           !.bound = IF more = 0 THEN 0 ELSE below, !.owed = o]
    BY <1>1
  <2> HIDE DEF found, below, more, o
  <2> QED
    BY <1>2, <2>1, TabTyped
<1>4. /\ SetTypeOK /\ Times /\ stored \subseteq Videos /\ zset \subseteq stored
      /\ S \in SUBSET Videos /\ S \subseteq stored
      /\ \A v \in stored : created[v] \in 1..MaxTime
  BY TimeBoundAssumption DEF LatestInv, SetTypeOK, Times
<1>5. ids \in SUBSET S /\ Cardinality(ids) <= Limit
  BY <1>4, FirstAreFew, LimitAssumption
<1>6. /\ Listed(found) /\ ToSet(found) = ids \ unread
      /\ Len(found) <= Limit /\ Len(found) \in Nat
  <2> DEFINE T == ids \ unread
  <2>1. T \in SUBSET ids /\ ids \in SUBSET Videos /\ T \in SUBSET Videos /\ T \subseteq stored
    BY <1>4, <1>5
  <2>2. Cardinality(T) <= Cardinality(ids) /\ Cardinality(T) \in Nat /\ Cardinality(ids) \in Nat
    BY <2>1, SmallerSet, VideosFinite
  <2>3. found = InOrder(T)
    OBVIOUS
  <2> HIDE DEF T, found, ids
  <2>4. /\ found \in Seq(Videos) /\ Len(found) = Cardinality(T) /\ ToSet(found) = T
        /\ IsInjective(found) /\ Descending(found)
    BY <1>4, <2>1, <2>3, InOrderIs
  <2> QED
    BY <1>5, <2>1, <2>2, <2>4, LimitAssumption DEF Listed, T
<1>7. \A v \in ToSet(found) : Under(v, tab.cursor)
  BY <1>5, <1>6
<1>8. found # <<>> => /\ found[Len(found)] \in ids /\ below = created[found[Len(found)]]
                      /\ \A v \in ToSet(found) : created[v] >= below
  BY <1>4, <1>6, LastIsLast DEF ColdCursor
<1>9. found = <<>> => below = tab.cursor
  BY DEF ColdCursor
<1>10. o \in SUBSET tab.owed /\ \A v \in o : created[v] # below \/ v \in ToSet(found)
  BY DEF Passed
<1>11. \A v \in o : v \notin unread \cup Damage
  BY DEF Passed
<1>12. below \in 0..MaxTime
  BY <1>4, <1>5, <1>8, <1>9 DEF TabInv, TabTypeOK
<1>121. tab.owed \subseteq stored \ events /\ tab.cursor \in 0..MaxTime
  BY DEF TabInv, TabTypeOK
<1> HIDE DEF found, below, more, o, ids
<1>13. \A v \in o : Under(v, tab.cursor) /\ ~ Under(v, below) => v \in ToSet(found)
  <2> SUFFICES ASSUME NEW v \in o, Under(v, tab.cursor), ~ Under(v, below),
                      v \notin ToSet(found)
               PROVE  FALSE
    OBVIOUS
  <2>1. found # <<>>
    BY <1>9
  <2>2. v \in tab.owed /\ v \notin unread \cup Damage /\ created[v] # below
    BY <1>10, <1>11
  <2>3. created[v] > below
    BY <1>4, <1>12, <1>121, <2>2 DEF Under
  <2>4. v \in ids \ unread
    BY <1>8, <2>1, <2>2, <2>3, FoundIsAll DEF ids
  <2> QED
    BY <1>6, <2>4
<1>14. CASE more = 0
  <2>1. Len(found) = Limit /\ found # <<>> /\ Len(<<>>) = 0
    BY <1>6, <1>14, LimitAssumption, EmptyListed DEF more
  <2>2. found \o <<>> = found
    BY <1>6 DEF Listed
  <2>3. \A v \in o : Under(v, tab.cursor) =>
           v \in ToSet(found) \cup ToSet(<<>>)
           \/ (Len(found \o <<>>) = Limit /\ created[v] <= created[(found \o <<>>)[Limit]])
    <3> SUFFICES ASSUME NEW v \in o, Under(v, tab.cursor), v \notin ToSet(found)
                 PROVE  created[v] <= created[found[Limit]]
      BY <2>1, <2>2
    <3>1. Under(v, below)
      BY <1>13
    <3>2. below = created[found[Limit]] /\ found[Limit] \in ids
      BY <1>8, <2>1
    <3>3. below \in 1..MaxTime /\ created[v] \in 1..MaxTime
      BY <1>4, <1>5, <1>10, <1>121, <3>2
    <3> QED
      BY <3>1, <3>2, <3>3 DEF Under
  <2>4. tab' = [stage |-> "reply", cursor |-> tab.cursor, shown |-> tab.shown, page |-> found,
                bound |-> 0, got |-> <<>>, owed |-> o]
    BY <1>3, <1>14
  <2>5. Len(found) + Len(<<>>) <= Limit
    BY <1>6, <2>1, LimitAssumption
  <2> QED
    BY <1>2, <1>4, <1>6, <1>7, <1>10, <2>3, <2>4, <2>5, EmptyListed, PageMade
<1>15. CASE more # 0
  <2>1. tab' = [stage |-> "stitch", cursor |-> tab.cursor, shown |-> tab.shown, page |-> found,
                bound |-> below, got |-> <<>>, owed |-> o]
    BY <1>3, <1>15
  <2>2. /\ tab'.stage = "stitch" /\ tab'.cursor = tab.cursor /\ tab'.shown = tab.shown
        /\ tab'.page = found /\ tab'.bound = below /\ tab'.got = <<>> /\ tab'.owed = o
    BY <2>1
  <2>3. TabTypeOK'
    <3>1. Listed(tab.shown)' /\ Listed(tab.page)' /\ Listed(tab.got)' /\ "stitch" \in Stages
      BY <1>2, <1>6, <2>2, SameLists, EmptyListed DEF TabInv, TabTypeOK, Stages
    <3>2. o \subseteq stored' \ events'
      BY <1>2, <1>10, <1>121
    <3> QED
      BY <1>12, <1>121, <2>1, <2>2, <3>1, <3>2 DEF TabTypeOK
  <2>4. ShownOK'
    BY <1>2, <1>10, <2>2, SameLists DEF TabInv, ShownOK
  <2>5. PageOK'
    <3>1. Len(found) < Limit
      BY <1>6, <1>15, LimitAssumption DEF more
    <3>2. \A v \in ToSet(found) : ~ Under(v, below)
      <4> SUFFICES ASSUME NEW v \in ToSet(found) PROVE ~ Under(v, below)
        OBVIOUS
      <4>1. found # <<>>
        BY EmptyListed
      <4>2. found[Len(found)] \in stored /\ below = created[found[Len(found)]]
            /\ created[v] >= below /\ v \in stored
        BY <1>4, <1>5, <1>6, <1>8, <4>1
      <4>3. below \in 1..MaxTime /\ created[v] \in 1..MaxTime
        BY <1>4, <4>2
      <4> QED
        BY <4>2, <4>3 DEF Under
    <3>3. tab.cursor # 0 => below # 0 /\ below <= tab.cursor
      <4>1. CASE found = <<>>
        BY <1>9, <1>121, <4>1
      <4>2. CASE found # <<>>
        <5>1. found[Len(found)] \in ToSet(found) /\ found[Len(found)] \in stored
          BY <1>4, <1>6, <4>2, LastIsLast
        <5>2. Under(found[Len(found)], tab.cursor) /\ below \in 1..MaxTime
              /\ below = created[found[Len(found)]]
          BY <1>4, <1>7, <1>8, <4>2, <5>1
        <5> QED
          BY <1>121, <5>2 DEF Under
      <4> QED
        BY <4>1, <4>2
    <3>4. \A v \in ToSet(found) \cup ToSet(<<>>) : Under(v, tab.cursor)
      BY <1>7, EmptyListed
    <3> QED
      BY <1>2, <1>13, <2>2, <3>1, <3>2, <3>3, <3>4, SameLists DEF PageOK, Asking
  <2>6. ReplyOK'
    BY <2>2 DEF ReplyOK
  <2> QED
    BY <2>3, <2>4, <2>5, <2>6 DEF TabInv
<1> QED
  BY <1>14, <1>15

\* The rest of the page, or all of it, is the database's.
LEMMA RowsTab ==
  ASSUME SetTypeOK, TabInv, UNCHANGED <<created, stored, events>>, Asking,
         NEW table \in SUBSET stored, NEW o \in SUBSET tab.owed, o \subseteq table,
         NEW rows \in Rows(table, tab.bound, Limit - Len(tab.page)),
         tab' = [stage |-> "reply", cursor |-> tab.cursor, shown |-> tab.shown,
                 page |-> tab.page, bound |-> 0, got |-> rows, owed |-> o]
  PROVE  TabInv'
<1> DEFINE page == tab.page
           n    == Limit - Len(page)
           all  == page \o rows
<1>1. /\ tab.stage \notin {"reply", "end"} /\ Times /\ stored \subseteq Videos
      /\ Listed(page) /\ Len(page) < Limit /\ Len(page) \in Nat
      /\ tab.cursor \in 0..MaxTime /\ tab.bound \in 0..MaxTime
      /\ \A v \in stored : created[v] \in 1..MaxTime
      /\ tab.owed \subseteq stored
  BY TimeBoundAssumption DEF Asking, SetTypeOK, Times, TabInv, TabTypeOK, PageOK, Listed
<1>2. n \in Nat \ {0} /\ Len(page) + n = Limit
  BY <1>1, LimitAssumption
<1>3. tab' = [stage |-> "reply", cursor |-> tab.cursor, shown |-> tab.shown, page |-> page,
              bound |-> 0, got |-> rows, owed |-> o]
  OBVIOUS
<1>4. rows \in Rows(table, tab.bound, n)
  OBVIOUS
<1> HIDE DEF n
<1>5. /\ Listed(rows) /\ Len(rows) <= n
      /\ \A v \in ToSet(rows) : v \in table /\ Under(v, tab.bound)
      /\ \A v \in table : Under(v, tab.bound) =>
            v \in ToSet(rows) \/ (Len(rows) = n /\ created[rows[n]] >= created[v])
  BY <1>2, <1>4, RowsAre
<1>6. \A v \in ToSet(page) : Under(v, tab.cursor) /\ ~ Under(v, tab.bound) /\ v \in stored
  BY DEF TabInv, TabTypeOK, PageOK, Listed
<1>7. \A v \in ToSet(rows) : Under(v, tab.cursor)
  <2>1. tab.cursor # 0 => tab.bound # 0 /\ tab.bound <= tab.cursor
    BY DEF TabInv, PageOK
  <2> QED
    BY <1>1, <1>5, <2>1 DEF Under
<1>8. \A u \in ToSet(page), w \in ToSet(rows) : created[u] > created[w]
  BY <1>1, <1>5, <1>6 DEF Under
<1> HIDE DEF page
<1>9. Len(page) + Len(rows) <= Limit /\ Len(rows) \in Nat
  BY <1>1, <1>2, <1>5 DEF Listed
<1>10. Len(rows) = n => Len(all) = Limit /\ all[Limit] = rows[n]
  <2> SUFFICES ASSUME Len(rows) = n PROVE Len(all) = Limit /\ all[Limit] = rows[n]
    OBVIOUS
  <2>1. page \in Seq(Videos) /\ rows \in Seq(Videos)
    BY <1>1, <1>5 DEF Listed
  <2>2. Len(all) = Len(page) + n /\ all[Len(page) + n] = rows[n]
    BY <1>1, <1>2, <2>1
  <2> QED
    BY <1>2, <2>2
<1>11. \A v \in o : Under(v, tab.cursor) =>
          v \in ToSet(page) \cup ToSet(rows)
          \/ (Len(page \o rows) = Limit /\ created[v] <= created[(page \o rows)[Limit]])
  <2> SUFFICES ASSUME NEW v \in o, Under(v, tab.cursor), v \notin ToSet(page), v \notin ToSet(rows)
               PROVE  Len(all) = Limit /\ created[v] <= created[all[Limit]]
    OBVIOUS
  <2>1. Under(v, tab.bound)
    BY DEF TabInv, PageOK, page
  <2>2. Len(rows) = n /\ created[rows[n]] >= created[v]
    BY <1>5, <2>1
  <2>3. rows[n] \in stored /\ v \in stored
    <3>1. n \in DOMAIN rows
      BY <1>2, <1>5, <2>2 DEF Listed
    <3> QED
      BY <1>1, <1>5, <3>1 DEF ToSet
  <2>4. created[rows[n]] \in Int /\ created[v] \in Int
    BY <1>1, <2>3
  <2> QED
    BY <1>10, <2>2, <2>4
<1>12. \A v \in ToSet(page) \cup ToSet(rows) : Under(v, tab.cursor)
  BY <1>6, <1>7
<1> QED
  BY <1>1, <1>3, <1>5, <1>8, <1>9, <1>11, <1>12, PageMade

LEMMA QueryTab ==
  ASSUME SetTypeOK, TabInv, Query
  PROVE  TabInv'
<1>1. UNCHANGED <<created, stored, events>> /\ Asking
  BY DEF Query, Rest, Asking
<1>2. PICK rows \in Rows(stored, tab.bound, Limit - Len(tab.page)) :
        tab' = [tab EXCEPT !.stage = "reply", !.bound = 0, !.got = rows]
  BY DEF Query
<1>3. tab' = [stage |-> "reply", cursor |-> tab.cursor, shown |-> tab.shown,
              page |-> tab.page, bound |-> 0, got |-> rows, owed |-> tab.owed]
  BY <1>2 DEF TabInv, TabTypeOK
<1>4. tab.owed \subseteq stored
  BY DEF TabInv, TabTypeOK
<1> QED
  BY <1>1, <1>3, <1>4, RowsTab

LEMMA ShareTab ==
  ASSUME SetTypeOK, TabInv, Share
  PROVE  TabInv'
<1>1. UNCHANGED <<created, stored, events>> /\ Asking
  BY DEF Share, Rest, Asking
<1> DEFINE Gives(v, rows) ==
      tab' = [tab EXCEPT !.stage = "reply", !.bound = 0, !.got = rows, !.owed = @ \ {v}]
<1>0. PICK v \in stored :
        \E rows \in Rows(stored \ {v}, tab.bound, Limit - Len(tab.page)) : Gives(v, rows)
  BY DEF Share
<1>2. PICK rows \in Rows(stored \ {v}, tab.bound, Limit - Len(tab.page)) : Gives(v, rows)
  BY <1>0
<1>3. tab' = [stage |-> "reply", cursor |-> tab.cursor, shown |-> tab.shown,
              page |-> tab.page, bound |-> 0, got |-> rows, owed |-> tab.owed \ {v}]
  BY <1>2 DEF TabInv, TabTypeOK
<1>4. /\ tab.owed \ {v} \in SUBSET tab.owed /\ tab.owed \ {v} \subseteq stored \ {v}
      /\ stored \ {v} \in SUBSET stored
  BY DEF TabInv, TabTypeOK
<1> QED
  BY <1>1, <1>3, <1>4, RowsTab

LEMMA ShareOtherPageTab ==
  ASSUME TabInv, ShareOtherPage
  PROVE  TabInv'
<1>1. /\ tab'.stage = "end" /\ tab'.cursor = 0 /\ tab'.shown = <<>> /\ tab'.page = <<>>
      /\ tab'.bound = 0 /\ tab'.got = <<>> /\ tab'.owed = {}
      /\ tab' = [stage |-> "end", cursor |-> 0, shown |-> <<>>, page |-> <<>>,
                 bound |-> 0, got |-> <<>>, owed |-> {}]
  BY DEF ShareOtherPage, FreshTab
<1>2. UNCHANGED <<created, stored>> /\ Listed(<<>>)' /\ ToSet(<<>>) = {}
  BY SameLists, EmptyListed DEF ShareOtherPage, Rest
<1>3. TabTypeOK'
  BY <1>1, <1>2, TimeBoundAssumption DEF TabTypeOK, Stages
<1>4. ShownOK' /\ PageOK' /\ ReplyOK'
  BY <1>1, <1>2 DEF ShownOK, PageOK, ReplyOK, Asking
<1> QED
  BY <1>3, <1>4 DEF TabInv

LEMMA ReadFailsTab ==
  ASSUME SetTypeOK, TabInv, ReadFails
  PROVE  TabInv'
<1>1. UNCHANGED <<created, stored, events>> /\ tab.stage \in {"hot", "cold", "db", "stitch"}
  BY DEF ReadFails, Rest
<1>2. CASE tab.stage # "stitch"
  <2>1. tab' = Refused /\ tab.stage \notin {"stitch", "reply", "end"}
    BY <1>1, <1>2 DEF ReadFails
  <2> QED
    BY <1>1, <2>1, RefusedTab
<1>3. CASE tab.stage = "stitch"
  <2>1. tab' = [tab EXCEPT !.stage = "reply", !.bound = 0, !.owed = {}]
    BY <1>3 DEF ReadFails
  <2>2. tab.got = <<>> /\ Listed(tab.page) /\ Len(tab.page) < Limit /\ Len(tab.page) \in Nat
    BY <1>3 DEF TabInv, TabTypeOK, PageOK, Asking, Listed
  <2>3. tab' = [stage |-> "reply", cursor |-> tab.cursor, shown |-> tab.shown,
                page |-> tab.page, bound |-> 0, got |-> tab.got, owed |-> {}]
    BY <2>1 DEF TabInv, TabTypeOK
  <2>4. tab' = [stage |-> "reply", cursor |-> tab.cursor, shown |-> tab.shown,
                page |-> tab.page, bound |-> 0, got |-> <<>>, owed |-> {}]
    BY <2>2, <2>3
  <2>5. \A v \in ToSet(tab.page) \cup ToSet(<<>>) : Under(v, tab.cursor)
    BY <2>2 DEF TabInv, PageOK
  <2>6. Len(tab.page) + Len(<<>>) <= Limit
    BY <2>2, EmptyListed, LimitAssumption
  <2>7. {} \in SUBSET tab.owed /\ tab.stage \notin {"reply", "end"}
    BY <1>3
  <2> QED
    BY <1>1, <2>2, <2>4, <2>5, <2>6, <2>7, EmptyListed, PageMade
<1> QED
  BY <1>2, <1>3

LEMMA ReplyTab ==
  ASSUME SetTypeOK, TabInv, Reply
  PROVE  TabInv'
<1>1. /\ tab.stage = "reply" /\ UNCHANGED <<created, stored, events>>
      /\ Times /\ stored \subseteq Videos
      /\ tab.cursor \in 0..MaxTime /\ tab.owed \subseteq stored \ events
      /\ \A v \in stored : created[v] \in 1..MaxTime
  BY TimeBoundAssumption DEF Reply, Rest, SetTypeOK, Times, TabInv, TabTypeOK
<1>2. PICK page : page = tab.page \o tab.got
  OBVIOUS
<1>3. PICK end : end = IF page = <<>> THEN tab.cursor ELSE created[page[Len(page)]]
  OBVIOUS
<1>4. PICK owed : owed = IF Len(page) = Limit THEN Passed(tab.owed, end, page) ELSE tab.owed
  OBVIOUS
<1>5. PICK shown : shown = tab.shown \o page
  OBVIOUS
<1>6. /\ tab' = [stage |-> IF Len(page) = Limit THEN "idle" ELSE "end", cursor |-> end,
                 shown |-> shown, page |-> <<>>, bound |-> 0, got |-> <<>>, owed |-> owed]
  BY <1>2, <1>3, <1>4, <1>5 DEF Reply, FreshTab
<1>7. /\ tab'.stage = IF Len(page) = Limit THEN "idle" ELSE "end"
      /\ tab'.cursor = end /\ tab'.shown = shown /\ tab'.page = <<>>
      /\ tab'.bound = 0 /\ tab'.got = <<>> /\ tab'.owed = owed
  BY <1>6
<1>8. /\ Answered(page) /\ Listed(page) /\ Len(page) \in Nat
      /\ \A v \in ToSet(page) : Under(v, tab.cursor) /\ v \in stored
  <2>1. Answered(page) /\ ToSet(page) = ToSet(tab.page) \cup ToSet(tab.got)
    BY <1>1, <1>2 DEF TabInv, ReplyOK
  <2>2. Listed(page) /\ Len(page) \in Nat /\ ToSet(page) \subseteq stored
    BY <2>1 DEF Answered, Listed
  <2>3. \A v \in ToSet(page) : Under(v, tab.cursor)
    BY <2>1 DEF TabInv, PageOK
  <2> QED
    BY <2>1, <2>2, <2>3
<1>9. /\ Listed(tab.shown) /\ (tab.cursor = 0 => ToSet(tab.shown) = {} /\ tab.shown = <<>>)
      /\ \A v \in ToSet(tab.shown) : created[v] >= tab.cursor /\ v \in stored
  BY EmptyListed DEF TabInv, TabTypeOK, ShownOK, Listed
<1>10. Listed(shown) /\ ToSet(shown) = ToSet(tab.shown) \cup ToSet(page)
  <2>1. ASSUME NEW u \in ToSet(tab.shown), NEW w \in ToSet(page)
        PROVE  created[u] > created[w]
    <3>1. /\ created[u] \in Int /\ created[w] \in Int /\ tab.cursor \in Int
          /\ created[u] >= tab.cursor /\ created[w] < tab.cursor
      BY <1>1, <1>8, <1>9, <2>1 DEF Under
    <3> QED
      BY <3>1
  <2> QED
    BY <1>1, <1>5, <1>8, <1>9, <2>1, JoinedListed
<1>11. CASE page = <<>>
  <2>1. end = tab.cursor /\ Len(page) = 0 /\ ToSet(page) = {} /\ Len(page) # Limit
    BY <1>3, <1>11, EmptyListed, LimitAssumption
  <2>2. shown = tab.shown
    BY <1>5, <1>9, <1>11 DEF Listed
  <2>3. owed = tab.owed /\ tab'.stage = "end"
    BY <1>4, <1>7, <2>1
  <2>4. \A v \in owed : v \in ToSet(shown)
    BY <1>8, <2>1, <2>2, <2>3 DEF TabInv, ShownOK, Answered
  <2>5. TabTypeOK'
    <3>1. Listed(tab.shown)' /\ Listed(tab.page)' /\ Listed(tab.got)'
      BY <1>1, <1>7, <1>10, SameLists, EmptyListed
    <3> QED
      BY <1>1, <1>6, <1>7, <2>1, <2>3, <3>1, TimeBoundAssumption DEF TabTypeOK, Stages
  <2>6. ShownOK'
    BY <1>1, <1>7, <1>9, <2>1, <2>2, <2>4 DEF ShownOK
  <2>7. PageOK' /\ ReplyOK'
    BY <1>7, <2>3, EmptyListed DEF PageOK, ReplyOK, Asking
  <2> QED
    BY <2>5, <2>6, <2>7 DEF TabInv
<1>12. CASE page # <<>>
  <2> DEFINE last == page[Len(page)]
  <2>1. /\ last \in ToSet(page) /\ last \in stored /\ end = created[last]
        /\ \A v \in ToSet(page) : created[v] >= end
    BY <1>1, <1>3, <1>8, <1>12, LastIsLast
  <2>2. end \in 1..MaxTime /\ end \in 0..MaxTime /\ end \in Int /\ end # 0
    BY <1>1, <2>1
  <2>3. tab.cursor # 0 => end < tab.cursor
    BY <1>8, <2>1 DEF Under
  <2>4. owed \subseteq tab.owed
    BY <1>4 DEF Passed
  <2>5. TabTypeOK'
    <3>1. Listed(tab.shown)' /\ Listed(tab.page)' /\ Listed(tab.got)'
      BY <1>1, <1>7, <1>10, SameLists, EmptyListed
    <3>2. tab'.stage \in Stages
      BY <1>7 DEF Stages
    <3> QED
      BY <1>1, <1>6, <1>7, <2>2, <2>4, <3>1, <3>2, TimeBoundAssumption DEF TabTypeOK
  <2>6. \A v \in ToSet(shown) : created[v] >= end
    <3> SUFFICES ASSUME NEW v \in ToSet(tab.shown) PROVE created[v] >= end
      BY <1>10, <2>1
    <3>1. created[v] >= tab.cursor /\ created[v] \in Int /\ tab.cursor \in Int /\ tab.cursor # 0
      BY <1>1, <1>9
    <3> QED
      BY <2>2, <2>3, <3>1
  <2>7. ASSUME NEW v \in owed, Len(page) # Limit \/ ~ Under(v, end), v \notin ToSet(shown)
        PROVE  FALSE
    <3>1. v \in tab.owed /\ v \notin ToSet(tab.shown) /\ v \notin ToSet(page)
      BY <1>10, <2>4, <2>7
    <3>2. Under(v, tab.cursor)
      BY <3>1 DEF TabInv, ShownOK
    <3>3. Len(page) = Limit /\ created[v] <= created[page[Limit]]
      BY <1>8, <3>1, <3>2 DEF Answered
    <3>4. created[v] <= end
      BY <2>1, <3>3
    <3>5. created[v] # end
      BY <1>4, <3>1, <3>3 DEF Passed
    <3>6. created[v] \in Int
      BY <1>1, <3>1
    <3>7. created[v] < end
      BY <2>2, <3>4, <3>5, <3>6
    <3> QED
      BY <2>7, <3>3, <3>7 DEF Under
  <2>8. ShownOK'
    <3>1. \A v \in owed : tab'.stage = "end" \/ ~ Under(v, end) => v \in ToSet(shown)
      BY <1>7, <2>7
    <3> QED
      BY <1>1, <1>7, <2>2, <2>6, <3>1, SameLists DEF ShownOK
  <2>9. PageOK' /\ ReplyOK'
    BY <1>7, EmptyListed DEF PageOK, ReplyOK, Asking
  <2> QED
    BY <2>5, <2>8, <2>9 DEF TabInv
<1> QED
  BY <1>11, <1>12

LEMMA OthersTab ==
  ASSUME LatestInv, TabInv,
         \/ Tick \/ TrimAndAck \/ ConsumerFails \/ LoseData \/ OthersLead
         \/ \E v \in Videos : BeginPublish(v) \/ Publish(v) \/ Add(v)
         \/ UNCHANGED latestVars
  PROVE  TabInv'
<1>1. SetTypeOK /\ stored \subseteq Videos /\ created \in [Videos -> 0..MaxTime]
      /\ tab.owed \subseteq stored \ events
  BY DEF LatestInv, SetTypeOK, Times, TabInv, TabTypeOK
<1>2. CASE Tick \/ TrimAndAck \/ ConsumerFails \/ OthersLead \/ UNCHANGED latestVars
  <2>1. UNCHANGED <<tab, created, stored, gone>> /\ events' \subseteq events
    BY <1>2 DEF Tick, TrimAndAck, ConsumerFails, OthersLead, Rest, latestVars
  <2> QED
    BY <1>1, <2>1, OthersLeaveTab
<1>3. CASE LoseData
  <2>1. UNCHANGED <<tab, created, stored, events>>
    BY <1>3 DEF LoseData
  <2>2. tab.owed \cap gone \subseteq gone'
    BY <1>1, <1>3 DEF LoseData, LatestInv, SetTypeOK
  <2> QED
    BY <1>1, <2>1, <2>2, OthersLeaveTab
<1>4. ASSUME NEW v \in Videos, BeginPublish(v) PROVE TabInv'
  <2>1. UNCHANGED <<tab, stored, events, gone>> /\ \A u \in stored : created'[u] = created[u]
    BY <1>1, <1>4 DEF BeginPublish, SetTypeOK
  <2> QED
    BY <1>1, <2>1, OthersLeaveTab
<1>5. ASSUME NEW v \in Videos, Publish(v) PROVE TabInv'
  <2>1. /\ UNCHANGED <<tab, created, gone>> /\ stored \subseteq stored'
        /\ events' \cap stored \subseteq events
    BY <1>5 DEF Publish
  <2> QED
    BY <1>1, <2>1, OthersLeaveTab
<1>6. ASSUME NEW v \in Videos, Add(v) PROVE TabInv'
  <2>1. UNCHANGED <<tab, created, stored, events>> /\ tab.owed \cap gone \subseteq gone'
    BY <1>1, <1>6 DEF Add
  <2> QED
    BY <1>1, <2>1, OthersLeaveTab
<1> QED
  BY <1>2, <1>3, <1>4, <1>5, <1>6

LEMMA StepTabInv == LatestInv /\ TabInv /\ [LatestNext]_latestVars => TabInv'
<1> SUFFICES ASSUME LatestInv, TabInv, [LatestNext]_latestVars PROVE TabInv'
  OBVIOUS
<1>1. SetTypeOK
  BY DEF LatestInv
<1>2. CASE AskPage
  BY <1>1, <1>2, AskTab
<1>3. CASE Step
  BY <1>1, <1>3, ReadTailTab, ReadIdsTab, QueryTab, ShareTab, ShareOtherPageTab,
     ReadFailsTab, ReplyTab DEF Step
<1>4. ASSUME NEW outcome \in {"added", "notAdded", "error"}, Land(outcome) PROVE TabInv'
  BY <1>4, LandTab
<1> QED
  BY <1>2, <1>3, <1>4, OthersTab DEF LatestNext

Counting == faults \in 0..MaxFaults

LEMMA StepCounting == Counting /\ [LatestNext]_latestVars => Counting'
<1> SUFFICES ASSUME Counting, [LatestNext]_latestVars PROVE Counting'
  OBVIOUS
<1>1. Fault => Counting'
  BY FaultBoundAssumption DEF Counting, Fault
<1>2. UNCHANGED faults => Counting'
  BY DEF Counting
<1>3. Fault \/ UNCHANGED faults
  BY DEF LatestNext, latestVars, Tick, BeginPublish, Publish, Add, TrimAndAck, ConsumerFails,
         LoseData, Land, AskPage, Step, ReadTail, ReadIds, Query, Share, ShareOtherPage,
         ReadFails, Reply, OthersLead, NoFault
<1> QED
  BY <1>1, <1>2, <1>3

LEMMA LatestTypes == LatestInv /\ TabInv /\ Counting => LatestTypeOK
<1> SUFFICES ASSUME LatestInv, TabInv, Counting PROVE LatestTypeOK
  OBVIOUS
<1>1. tab \in Tab
  BY DEF LatestInv, SetTypeOK, TabInv, TabTypeOK, Listed, Tab
<1>2. /\ now \in 1..MaxTime /\ created \in [Videos -> 0..MaxTime]
      /\ stored \subseteq {v \in Videos : created[v] # 0}
      /\ events \subseteq stored /\ adding \in events \cup {Nothing} /\ zset \subseteq stored
      /\ flight \in {Nothing} \cup [rows : SUBSET stored, asOf : SUBSET stored]
      /\ gone \subseteq stored \ zset
  BY DEF LatestInv, SetTypeOK, Times
<1> QED
  BY <1>1, <1>2 DEF LatestTypeOK, Counting

LEMMA TabScrolls == LatestInv /\ TabInv => ScrollIsComplete
<1> SUFFICES ASSUME LatestInv, TabInv PROVE ScrollIsComplete
  OBVIOUS
<1>1. IsInjective(tab.shown) /\ Descending(tab.shown)
  BY DEF TabInv, TabTypeOK, Listed
<1>2. ASSUME NEW v \in tab.owed, tab.stage = "end" \/ (tab.cursor # 0 /\ created[v] > tab.cursor)
      PROVE  v \in ToSet(tab.shown)
  <2>1. created[v] \in Int /\ tab.cursor \in Int
    BY TimeBoundAssumption DEF LatestInv, SetTypeOK, Times, TabInv, TabTypeOK
  <2> QED
    BY <1>2, <2>1 DEF TabInv, ShownOK, Under
<1> QED
  BY <1>1, <1>2 DEF ScrollIsComplete

\* Whatever is published, announced, lost, rebuilt and shared meanwhile, the
\* tab's request is in a state of the program: its lists are videos of the
\* table, and what it is owed has been announced.
THEOREM LatestTypeCorrect == LatestSpec => []LatestTypeOK
<1>1. LatestInit => LatestInv /\ TabInv /\ Counting
  BY InitLatestInv, InitTabInv, FaultBoundAssumption DEF LatestInit, Counting
<1>2. LatestInv /\ TabInv /\ Counting /\ [LatestNext]_latestVars
        => LatestInv' /\ TabInv' /\ Counting'
  BY StepLatestInv, StepTabInv, StepCounting
<1>3. LatestInv /\ TabInv /\ Counting => LatestTypeOK
  BY LatestTypes
<1> QED
  BY <1>1, <1>2, <1>3, PTL DEF LatestSpec

\* A tab that scrolls the latest feed shows newest first and nothing twice,
\* and of what was announced when it began everything above its cursor; at the
\* end, everything: whether its pages came from the sorted set, from the
\* database, or from one stitched to the other at the last video found.
THEOREM ScrollsAreComplete == LatestSpec => []ScrollIsComplete
<1>1. LatestInit => LatestInv /\ TabInv
  BY InitLatestInv, InitTabInv
<1>2. LatestInv /\ TabInv /\ [LatestNext]_latestVars => LatestInv' /\ TabInv'
  BY StepLatestInv, StepTabInv
<1>3. LatestInv /\ TabInv => ScrollIsComplete
  BY TabScrolls
<1> QED
  BY <1>1, <1>2, <1>3, PTL DEF LatestSpec
=============================================================================
