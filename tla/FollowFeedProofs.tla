-------------------------- MODULE FollowFeedProofs --------------------------
(***************************************************************************)
(* Theorems about FollowFeed, for any authors, videos, capacity and        *)
(* rebuilds under way.                                                     *)
(***************************************************************************)
EXTENDS FollowFeed, TLAPS, FiniteSetTheorems, WellFoundedInduction

\* A nonempty set of subsets of a finite set has a minimal member.
LEMMA MinimalSet ==
  ASSUME NEW S, IsFiniteSet(S), NEW F, F \subseteq SUBSET S, F # {}
  PROVE  \E A \in F : \A B \in F : ~ (B \subseteq A /\ B # A)
<1> DEFINE R == StrictSubsetOrdering(S)
<1>1. F \subseteq FiniteSubsetsOf(S)
  BY FS_Subset DEF FiniteSubsetsOf
<1>2. IsWellFoundedOn(R, FiniteSubsetsOf(S))
  BY FS_StrictSubsetOrderingWellFounded
<1>3. PICK A \in F : \A B \in F : ~ (<<B, A>> \in R)
  BY <1>1, <1>2, WFMin
<1>4. ASSUME NEW B \in F, B \subseteq A, B # A PROVE FALSE
  BY <1>3, <1>4 DEF StrictSubsetOrdering
<1> QED
  BY <1>4

LEMMA VideosFinite == \A S \in SUBSET Videos : IsFiniteSet(S) /\ Cardinality(S) \in Nat
<1>1. IsFiniteSet(Videos)
  BY VideoAssumption, FS_Interval DEF Videos
<1> QED
  BY <1>1, FS_Subset, FS_CardinalityType

LEMMA SmallerSet ==
  ASSUME NEW S \in SUBSET Videos, NEW X \in SUBSET S
  PROVE  Cardinality(X) <= Cardinality(S) /\ (Cardinality(X) = Cardinality(S) => X = S)
BY VideosFinite, FS_Subset

-----------------------------------------------------------------------------
(***************************************************************************)
(* Trimming an index: what is above its capacity's end stays so.           *)
(***************************************************************************)
Later(S, v) == {u \in S : u > v}

InTop(S, v) == v \in S \/ Cardinality(Later(S, v)) >= Capacity

LEMMA VideosAreIntegers == \A v \in Videos : v \in Int
BY VideoAssumption DEF Videos

\* If n or more of S are at the top of it, as many of these are kept.
LEMMA NewestKeepsTop ==
  ASSUME NEW S \in SUBSET Videos, NEW X \in SUBSET S, NEW n \in Nat,
         \A u \in X, w \in S : w > u => w \in X,
         Cardinality(X) >= n
  PROVE  Cardinality(X \cap Newest(S, n)) >= n
<1> SUFFICES ASSUME ~ (Cardinality(X \cap Newest(S, n)) >= n) PROVE FALSE
  OBVIOUS
<1>1. Cardinality(X \cap Newest(S, n)) < n
  <2>1. X \cap Newest(S, n) \in SUBSET Videos
    OBVIOUS
  <2>2. Cardinality(X \cap Newest(S, n)) \in Nat
    BY <2>1, VideosFinite
  <2> QED
    BY <2>2
<1> DEFINE Out == X \ Newest(S, n)
           F   == {Later(S, w) : w \in Out}
<1>2. F # {}
  <2>1. Out # {}
    BY <1>1, VideosFinite
  <2> QED
    BY <2>1
<1>3. F \subseteq SUBSET S
  BY DEF Later
<1>4. PICK A \in F : \A B \in F : ~ (B \subseteq A /\ B # A)
  <2>1. IsFiniteSet(S)
    BY VideosFinite
  <2> HIDE DEF F
  <2> QED
    BY <1>2, <1>3, <2>1, MinimalSet
<1>5. PICK w \in Out : A = Later(S, w)
  OBVIOUS
<1>6. A \subseteq X \cap Newest(S, n)
  <2> SUFFICES ASSUME NEW x \in A, x \notin Newest(S, n) PROVE FALSE
    BY <1>5 DEF Later
  <2>1. x \in Out /\ x > w
    BY <1>5 DEF Later
  <2>2. Later(S, x) \in F
    BY <2>1
  <2>3. Later(S, x) \subseteq A /\ x \notin Later(S, x)
    BY <1>5, <2>1, VideosAreIntegers DEF Later
  <2> QED
    BY <1>4, <2>2, <2>3
<1>7. Cardinality(A) <= Cardinality(X \cap Newest(S, n))
  BY <1>6, SmallerSet
<1>8. Cardinality(A) < n
  BY <1>1, <1>6, <1>7, VideosFinite
<1>9. w \in Newest(S, n)
  BY <1>5, <1>8 DEF Newest, Later
<1> QED
  BY <1>5, <1>9

LEMMA InTopGrows ==
  ASSUME NEW S \in SUBSET Videos, NEW X \in SUBSET S, NEW v, InTop(X, v)
  PROVE  InTop(S, v)
<1> SUFFICES ASSUME v \notin X PROVE InTop(S, v)
  BY DEF InTop
<1>1. Later(X, v) \subseteq Later(S, v) /\ Later(S, v) \subseteq Videos
  BY DEF Later
<1>2. Cardinality(Later(X, v)) <= Cardinality(Later(S, v))
  BY <1>1, SmallerSet
<1> QED
  BY <1>1, <1>2, VideosFinite, CapacityAssumption DEF InTop

LEMMA InTopOfNewest ==
  ASSUME NEW S \in SUBSET Videos, NEW v \in Videos, InTop(S, v)
  PROVE  InTop(Newest(S, Capacity), v)
<1> SUFFICES ASSUME v \notin Newest(S, Capacity)
             PROVE  Cardinality(Later(Newest(S, Capacity), v)) >= Capacity
  BY DEF InTop
<1>1. Cardinality(Later(S, v)) >= Capacity
  BY VideosFinite, CapacityAssumption DEF InTop, Newest, Later
<1>2. Cardinality(Later(S, v) \cap Newest(S, Capacity)) >= Capacity
  <2>1. \A u \in Later(S, v), w \in S : w > u => w \in Later(S, v)
    BY VideosAreIntegers DEF Later
  <2> QED
    BY <1>1, <2>1, NewestKeepsTop, CapacityAssumption DEF Later
<1>3. Later(S, v) \cap Newest(S, Capacity) = Later(Newest(S, Capacity), v)
  BY DEF Later, Newest
<1> QED
  BY <1>2, <1>3

-----------------------------------------------------------------------------
(***************************************************************************)
(* Types; what a page has read and owes is PageInv's.                      *)
(***************************************************************************)
IndexTypeOK ==
    /\ stored \subseteq Videos /\ queue \subseteq stored
    /\ fan \in {None} \cup [video : queue, step : {"count", "batch", "append"}]
    /\ follows \subseteq Authors /\ big \subseteq Authors
    /\ index \in [Keys -> SUBSET stored]
    /\ marker \in [Keys -> SUBSET Authors]
    /\ rebuilds \subseteq [key : Keys, authors : SUBSET Authors, found : SUBSET stored]
    /\ missed \in [Keys -> SUBSET stored]
    /\ changes \in Nat /\ faults \in Nat

Reading == page.pc \in {"read", "rebuild", "query"}

PageTypeOK ==
    /\ page = [pc |-> page.pc, cursor |-> page.cursor, authors |-> page.authors,
               normal |-> page.normal, todo |-> page.todo, rows |-> page.rows,
               owed |-> page.owed, unseen |-> page.unseen]
    /\ page.pc \in {"idle", "classify", "read", "rebuild", "query"}
    /\ page.authors \subseteq Authors /\ page.normal \subseteq Authors
    /\ page.todo \subseteq Keys
    /\ page.pc = "classify" => page.authors # {}
    /\ Reading => page.todo # {}

(***************************************************************************)
(* A video of the authors a marker, or a rebuild under way, is for is to   *)
(* be fanned out, has been missed, or is in the index or past its end; an  *)
(* author's own index is only ever marked for the author.  The video that  *)
(* is being fanned out is so known to its author's index.                  *)
(***************************************************************************)
Known(k, v) == v \in queue \cup missed[k] \/ InTop(index[k], v)

OwnKeys ==
    /\ \A a \in Authors : marker[a] \subseteq {a}
    /\ \A r \in rebuilds : r.key # Inbox => r.authors = {r.key}

MarkersOK == \A k \in Keys : \A v \in VideosOf(marker[k]) : Known(k, v)

RebuildsOK == \A r \in rebuilds : \A v \in VideosOf(r.authors) \ r.found : Known(r.key, v)

FanOK ==
    fan # None => \/ fan.video \in missed[AuthorOf[fan.video]]
                  \/ InTop(index[AuthorOf[fan.video]], fan.video)

(***************************************************************************)
(* What may be missed without a fault: nothing in an author's index, and   *)
(* in the inbox videos of authors it is not read for.  When these become   *)
(* others for the first time, no marker and no rebuild is for the new      *)
(* ones yet.                                                               *)
(***************************************************************************)
MissedOfRead == missed[Inbox] \cap VideosOf(ReadFor(Inbox))

MissedOK ==
    /\ faults = 0 => \A a \in Authors : missed[a] = {}
    /\ faults = 0 /\ changes = 0 => MissedOfRead = {}
    /\ faults = 0 /\ changes <= 1 =>
          /\ marker[Inbox] = ReadFor(Inbox) => MissedOfRead = {}
          /\ \A r \in rebuilds :
                r.key = Inbox /\ r.authors = ReadFor(Inbox) => MissedOfRead \subseteq r.found

Steady ==
    changes = 0 =>
        /\ marker[Inbox] \in {{}, ReadFor(Inbox)}
        /\ \A r \in rebuilds : r.key = Inbox => r.authors = ReadFor(Inbox)
        /\ page.pc = "classify" => page.authors = follows
        /\ Reading => page.normal = ReadFor(Inbox)

FInv ==
    /\ IndexTypeOK /\ PageTypeOK
    /\ OwnKeys /\ MarkersOK /\ RebuildsOK /\ FanOK
    /\ MissedOK /\ Steady

LEMMA InitFInv == Init => FInv
<1> SUFFICES ASSUME Init PROVE FInv
  OBVIOUS
<1> USE DEF Init
<1>1. IndexTypeOK
  BY VideoAssumption DEF IndexTypeOK, Videos
<1>2. PageTypeOK
  BY DEF PageTypeOK, NoPage, Reading
<1>3. \A k \in Keys : marker[k] = {} /\ missed[k] = {}
  OBVIOUS
<1>4. VideosOf({}) = {}
  BY DEF VideosOf
<1>5. OwnKeys /\ MarkersOK /\ RebuildsOK /\ FanOK
  BY <1>3, <1>4 DEF OwnKeys, MarkersOK, RebuildsOK, FanOK, Keys
<1>6. MissedOK /\ Steady
  BY <1>3 DEF MissedOK, MissedOfRead, Steady, Keys, Reading, NoPage
<1> QED
  BY <1>1, <1>2, <1>5, <1>6 DEF FInv

-----------------------------------------------------------------------------
(***************************************************************************)
(* The viewer's page: what it leaves to the rest of the system.            *)
(***************************************************************************)
LEMMA SourceIsKey ==
  ASSUME PageTypeOK, Reading
  PROVE  /\ Source \in page.todo /\ Source \in Keys
         /\ SourceAuthors \subseteq Authors
         /\ Source # Inbox => SourceAuthors = {Source}
         /\ Source = Inbox => SourceAuthors = page.normal
<1>1. Source \in page.todo
  BY DEF Source, PageTypeOK
<1> QED
  BY <1>1 DEF SourceAuthors, PageTypeOK, Keys

LEMMA AnswerIsIdle ==
  ASSUME NEW p, NEW rows, page' = Answer(p, rows)
  PROVE  PageTypeOK' /\ page'.pc = "idle"
<1>1. PICK u : page' = [NoPage EXCEPT !.unseen = u]
  BY DEF Answer
<1>2. page' = [pc |-> "idle", cursor |-> 0, authors |-> {}, normal |-> {}, todo |-> {},
               rows |-> <<>>, owed |-> {}, unseen |-> u]
  BY <1>1 DEF NoPage
<1> QED
  BY <1>2 DEF PageTypeOK, Reading

LEMMA GivesKeeps ==
  ASSUME PageTypeOK, Reading, NEW o, NEW rows,
         page' = Gives([page EXCEPT !.owed = o], rows)
  PROVE  PageTypeOK' /\ (Reading' => page'.normal = page.normal) /\ page'.pc # "classify"
<1> DEFINE p == [page EXCEPT !.owed = o]
<1>1. p = [pc |-> page.pc, cursor |-> page.cursor, authors |-> page.authors,
           normal |-> page.normal, todo |-> page.todo, rows |-> page.rows,
           owed |-> o, unseen |-> page.unseen]
  BY DEF PageTypeOK
<1> HIDE DEF p
<1>2. CASE page.todo = {Source}
  <2>1. page' = Answer(p, Merge(Append(p.rows, rows), Limit + 1))
    BY <1>1, <1>2 DEF Gives, p
  <2> QED
    BY <2>1, AnswerIsIdle DEF Reading
<1>3. CASE page.todo # {Source}
  <2>1. page' = [p EXCEPT !.pc = "read", !.todo = @ \ {Source}, !.rows = Append(p.rows, rows)]
    BY <1>1, <1>3 DEF Gives, p
  <2>2. page' = [pc |-> "read", cursor |-> page.cursor, authors |-> page.authors,
                 normal |-> page.normal, todo |-> page.todo \ {Source},
                 rows |-> Append(p.rows, rows), owed |-> o, unseen |-> page.unseen]
    BY <1>1, <2>1
  <2>3. page.todo \ {Source} # {}
    BY <1>3, SourceIsKey
  <2> QED
    BY <2>2, <2>3 DEF PageTypeOK, Reading
<1> QED
  BY <1>2, <1>3

LEMMA RebuildAdds ==
  ASSUME NEW k \in Keys, NEW authors \in SUBSET Authors, Rebuild(k, authors)
  PROVE  rebuilds \subseteq rebuilds' /\ rebuilds' \subseteq rebuilds \cup
            {[key |-> k, authors |-> authors, found |-> VideosOf(authors)]}
BY DEF Rebuild

\* What a step of the request may do: at most it begins a rebuild.
LEMMA PageSteps ==
  ASSUME IndexTypeOK, PageTypeOK, Steady,
         (\E cursor \in Cursors : Ask(cursor)) \/ Classify \/ ReadSource \/ QuerySource \/ PageFails
  PROVE  /\ UNCHANGED Others
         /\ PageTypeOK'
         /\ changes = 0 => /\ page'.pc = "classify" => page'.authors = follows
                           /\ Reading' => page'.normal = ReadFor(Inbox)
         /\ \/ UNCHANGED rebuilds
            \/ \E k \in Keys, authors \in SUBSET Authors :
                  /\ Rebuild(k, authors)
                  /\ k # Inbox => authors = {k}
                  /\ changes = 0 /\ k = Inbox => authors = ReadFor(Inbox)
         /\ faults' = faults \/ faults' = faults + 1
<1>1. ASSUME NEW cursor \in Cursors, Ask(cursor)
      PROVE  /\ PageTypeOK' /\ ~ Reading'
             /\ page'.authors = follows
  <2>1. PICK o : page' = [NoPage EXCEPT !.pc = "classify", !.cursor = cursor,
                                        !.authors = follows, !.owed = o]
    BY <1>1 DEF Ask
  <2>2. page' = [pc |-> "classify", cursor |-> cursor, authors |-> follows, normal |-> {},
                 todo |-> {}, rows |-> <<>>, owed |-> o, unseen |-> {}]
    BY <2>1 DEF NoPage
  <2>3. follows # {} /\ follows \subseteq Authors
    BY <1>1 DEF Ask, IndexTypeOK
  <2> QED
    BY <2>2, <2>3 DEF PageTypeOK, Reading
<1>2. ASSUME Classify
      PROVE  /\ PageTypeOK' /\ page'.pc # "classify"
             /\ changes = 0 /\ Reading' => page'.normal = ReadFor(Inbox)
  <2> DEFINE stars == page.authors \cap big
  <2>1. CASE Cardinality(stars) > MaxPullSources
    <3>1. page' = Answer([page EXCEPT !.owed = @ \cap VideosOf(follows)], Rows(follows))
      BY <1>2, <2>1 DEF Classify
    <3> QED
      BY <3>1, AnswerIsIdle DEF Reading
  <2>2. CASE ~ (Cardinality(stars) > MaxPullSources)
    <3>1. page' = [page EXCEPT !.pc = "read", !.normal = page.authors \ stars,
                               !.todo = stars \cup (IF stars = page.authors THEN {} ELSE {Inbox})]
      BY <1>2, <2>2 DEF Classify
    <3> HIDE DEF stars
    <3>2. page' = [pc |-> "read", cursor |-> page.cursor, authors |-> page.authors,
                   normal |-> page.authors \ stars,
                   todo |-> stars \cup (IF stars = page.authors THEN {} ELSE {Inbox}),
                   rows |-> page.rows, owed |-> page.owed, unseen |-> page.unseen]
      BY <3>1 DEF PageTypeOK
    <3>3. page.pc = "classify" /\ page.authors # {} /\ page.authors \subseteq Authors
      BY <1>2 DEF Classify, PageTypeOK
    <3>4. PageTypeOK' /\ page'.pc # "classify"
      BY <3>2, <3>3 DEF PageTypeOK, Reading, Keys, stars
    <3>5. changes = 0 => page.authors \ stars = ReadFor(Inbox)
      BY <3>3 DEF Steady, ReadFor, stars
    <3> QED
      BY <3>2, <3>4, <3>5
  <2> QED
    BY <2>1, <2>2
<1>3. ASSUME ReadSource
      PROVE  /\ PageTypeOK' /\ page'.pc # "classify"
             /\ Reading' => page'.normal = page.normal
             /\ Reading
             /\ UNCHANGED rebuilds \/ Rebuild(Source, SourceAuthors)
  <2>1. Reading
    BY <1>3 DEF ReadSource, Reading
  <2>2. ASSUME NEW at \in {"query", "rebuild"}, page' = [page EXCEPT !.pc = at]
        PROVE  PageTypeOK' /\ page'.pc # "classify" /\ page'.normal = page.normal
    <3>1. page' = [pc |-> at, cursor |-> page.cursor, authors |-> page.authors,
                   normal |-> page.normal, todo |-> page.todo, rows |-> page.rows,
                   owed |-> page.owed, unseen |-> page.unseen]
      BY <2>2 DEF PageTypeOK
    <3> QED
      BY <2>1, <3>1 DEF PageTypeOK, Reading
  <2>3. ASSUME NEW o, NEW rows, page' = Gives([page EXCEPT !.owed = o], rows)
        PROVE  PageTypeOK' /\ page'.pc # "classify" /\ (Reading' => page'.normal = page.normal)
    BY <2>1, <2>3, GivesKeeps
  <2>4. \/ page' = [page EXCEPT !.pc = "query"]
        \/ page' = [page EXCEPT !.pc = "rebuild"]
        \/ \E o, rows : page' = Gives([page EXCEPT !.owed = o], rows)
    <3>1. ASSUME NEW members,
                 page' = Gives([page EXCEPT
                                  !.owed = @ \ (missed[Source] \cap VideosOf(SourceAuthors))],
                               InOrder(members))
          PROVE  \E o, rows : page' = Gives([page EXCEPT !.owed = o], rows)
      BY <3>1
    <3> QED
      BY <1>3, <3>1 DEF ReadSource
  <2>5. UNCHANGED rebuilds \/ Rebuild(Source, SourceAuthors)
    BY <1>3 DEF ReadSource
  <2> QED
    BY <2>1, <2>2, <2>3, <2>4, <2>5
<1>4. ASSUME QuerySource
      PROVE  /\ PageTypeOK' /\ page'.pc # "classify"
             /\ Reading' => page'.normal = page.normal
             /\ Reading
  <2>1. Reading
    BY <1>4 DEF QuerySource, Reading
  <2>2. page = [page EXCEPT !.owed = page.owed]
    BY DEF PageTypeOK
  <2>3. page' = Gives([page EXCEPT !.owed = page.owed], Rows(SourceAuthors))
    BY <1>4, <2>2 DEF QuerySource
  <2> QED
    BY <2>1, <2>3, GivesKeeps
<1>5. ASSUME PageFails PROVE PageTypeOK' /\ page'.pc = "idle"
  BY <1>5 DEF PageFails, NoPage, PageTypeOK, Reading
<1>6. UNCHANGED Others /\ (faults' = faults \/ faults' = faults + 1)
  BY DEF Ask, Classify, ReadSource, QuerySource, PageFails, Fault
<1>7. changes = 0 /\ Reading => page.normal = ReadFor(Inbox)
  BY DEF Steady
<1>8. PageTypeOK'
  BY <1>1, <1>2, <1>3, <1>4, <1>5
<1>9. changes = 0 => /\ page'.pc = "classify" => page'.authors = follows
                     /\ Reading' => page'.normal = ReadFor(Inbox)
  <2>1. Reading' => page'.pc # "idle"
    BY DEF Reading
  <2> QED
    BY <1>1, <1>2, <1>3, <1>4, <1>5, <1>7, <2>1
<1>10. \/ UNCHANGED rebuilds
       \/ \E k \in Keys, authors \in SUBSET Authors :
             /\ Rebuild(k, authors)
             /\ k # Inbox => authors = {k}
             /\ changes = 0 /\ k = Inbox => authors = ReadFor(Inbox)
  <2>1. CASE ReadSource
    BY <2>1, <1>3, <1>7, SourceIsKey
  <2> QED
    BY <2>1 DEF Ask, Classify, QuerySource, PageFails
<1> QED
  BY <1>6, <1>8, <1>9, <1>10

-----------------------------------------------------------------------------
(***************************************************************************)
(* Writing to an index.                                                    *)
(***************************************************************************)
LEMMA PushKeeps ==
  ASSUME IndexTypeOK, NEW k \in Keys, NEW v \in stored, Push(k, v), UNCHANGED stored
  PROVE  /\ index' \in [Keys -> SUBSET stored]
         /\ missed' \in [Keys -> SUBSET stored]
         /\ \A j \in Keys : missed'[j] \subseteq missed[j]
         /\ \A j \in Keys, u \in stored :
               u \in missed[j] \/ InTop(index[j], u) => u \in missed'[j] \/ InTop(index'[j], u)
         /\ InTop(index'[k], v)
<1> DEFINE S == index[k] \cup {v}
<1>1. /\ index' = [index EXCEPT ![k] = Newest(S, Capacity)]
      /\ missed' = [missed EXCEPT ![k] = @ \ {v}]
  BY DEF Push
<1>2. S \in SUBSET stored /\ S \in SUBSET Videos /\ index[k] \in SUBSET S /\ v \in S
  BY DEF IndexTypeOK
<1> HIDE DEF S
<1>3. Newest(S, Capacity) \in SUBSET stored
  BY <1>2 DEF Newest
<1>4. index' \in [Keys -> SUBSET stored] /\ missed' \in [Keys -> SUBSET stored]
  BY <1>1, <1>3 DEF IndexTypeOK
<1>5. \A u \in stored : InTop(index[k], u) \/ u = v => InTop(index'[k], u)
  <2> SUFFICES ASSUME NEW u \in stored, InTop(index[k], u) \/ u = v
               PROVE  InTop(Newest(S, Capacity), u)
    BY <1>1 DEF IndexTypeOK
  <2>1. InTop(S, u)
    BY <1>2, InTopGrows DEF InTop
  <2> QED
    BY <1>2, <2>1, InTopOfNewest DEF IndexTypeOK
<1>6. \A j \in Keys : /\ missed'[j] \subseteq missed[j]
                      /\ j # k => missed'[j] = missed[j] /\ index'[j] = index[j]
  BY <1>1 DEF IndexTypeOK
<1>7. missed'[k] = missed[k] \ {v}
  BY <1>1 DEF IndexTypeOK
<1> QED
  BY <1>4, <1>5, <1>6, <1>7

LEMMA LandWrites ==
  ASSUME IndexTypeOK, NEW r \in rebuilds, index' = [index EXCEPT ![r.key] = Rebuilt(r)],
         missed' = [missed EXCEPT ![r.key] = @ \ r.found], UNCHANGED stored
  PROVE  /\ index' \in [Keys -> SUBSET stored]
         /\ missed' \in [Keys -> SUBSET stored]
         /\ \A j \in Keys : missed'[j] \subseteq missed[j]
         /\ \A j \in Keys, u \in stored :
               u \in missed[j] \/ InTop(index[j], u) => u \in missed'[j] \/ InTop(index'[j], u)
         /\ \A u \in r.found : InTop(index'[r.key], u)
<1> DEFINE k == r.key
           S == index[k] \cup Newest(r.found, Capacity)
<1>1. k \in Keys /\ r.found \in SUBSET stored /\ r.found \in SUBSET Videos
  BY DEF IndexTypeOK
<1>2. /\ S \in SUBSET stored /\ S \in SUBSET Videos /\ index[k] \in SUBSET S
      /\ Newest(r.found, Capacity) \in SUBSET S
  BY <1>1 DEF IndexTypeOK, Newest
<1>3. index' = [index EXCEPT ![k] = Newest(S, Capacity)]
  BY DEF Rebuilt
<1> HIDE DEF S
<1>4. Newest(S, Capacity) \in SUBSET stored
  BY <1>2 DEF Newest
<1>5. index' \in [Keys -> SUBSET stored] /\ missed' \in [Keys -> SUBSET stored]
  BY <1>1, <1>3, <1>4 DEF IndexTypeOK
<1>6. index'[k] = Newest(S, Capacity) /\ missed'[k] = missed[k] \ r.found
  BY <1>1, <1>3 DEF IndexTypeOK
<1>7. \A u \in stored : InTop(S, u) => InTop(index'[k], u)
  BY <1>2, <1>6, InTopOfNewest DEF IndexTypeOK
<1>8. \A u \in stored : InTop(index[k], u) => InTop(index'[k], u)
  BY <1>2, <1>7, InTopGrows
<1>9. \A u \in r.found : InTop(index'[k], u)
  <2> SUFFICES ASSUME NEW u \in r.found PROVE InTop(S, u)
    BY <1>1, <1>7
  <2>1. InTop(Newest(r.found, Capacity), u)
    BY <1>1, InTopOfNewest DEF InTop
  <2> QED
    BY <1>2, <2>1, InTopGrows
<1>10. \A j \in Keys : /\ missed'[j] \subseteq missed[j]
                      /\ j # k => missed'[j] = missed[j] /\ index'[j] = index[j]
  BY <1>3 DEF IndexTypeOK
<1> QED
  BY <1>5, <1>6, <1>8, <1>9, <1>10

-----------------------------------------------------------------------------
(***************************************************************************)
(* Steps after which no marker or rebuild is for more than before.         *)
(***************************************************************************)
Fewer ==
    /\ \A k \in Keys : marker'[k] \in {marker[k], {}}
    /\ rebuilds' \subseteq rebuilds

StaysKnown ==
    \A k \in Keys, v \in stored :
        (k # Inbox => AuthorOf[v] = k) /\ Known(k, v) => Known(k, v)'

LEMMA KnownKeeps ==
  ASSUME IndexTypeOK, OwnKeys, MarkersOK, RebuildsOK, Fewer, StaysKnown,
         stored \subseteq stored', stored' \ stored \subseteq queue'
  PROVE  OwnKeys' /\ MarkersOK' /\ RebuildsOK'
<1>1. OwnKeys'
  BY DEF OwnKeys, Fewer, Keys
<1>2. ASSUME NEW k \in Keys, NEW v \in VideosOf(marker[k])' PROVE Known(k, v)'
  <2>1. CASE v \notin stored
    BY <1>2, <2>1 DEF VideosOf, Known
  <2>2. CASE v \in stored
    <3>1. v \in VideosOf(marker[k])
      BY <1>2, <2>2 DEF VideosOf, Fewer
    <3>2. k # Inbox => AuthorOf[v] = k
      BY <3>1 DEF OwnKeys, VideosOf, Keys
    <3>3. Known(k, v)
      BY <3>1 DEF MarkersOK
    <3> QED
      BY <2>2, <3>2, <3>3 DEF StaysKnown
  <2> QED
    BY <2>1, <2>2
<1>3. ASSUME NEW r \in rebuilds', NEW v \in VideosOf(r.authors)', v \notin r.found
      PROVE  Known(r.key, v)'
  <2>0. r \in rebuilds /\ r.key \in Keys
    BY DEF Fewer, IndexTypeOK
  <2>1. CASE v \notin stored
    BY <1>3, <2>1 DEF VideosOf, Known
  <2>2. CASE v \in stored
    <3>1. v \in VideosOf(r.authors)
      BY <1>3, <2>2 DEF VideosOf
    <3>2. r.key # Inbox => AuthorOf[v] = r.key
      BY <2>0, <3>1 DEF OwnKeys, VideosOf
    <3>3. Known(r.key, v)
      BY <1>3, <2>0, <3>1 DEF RebuildsOK
    <3> QED
      BY <2>0, <2>2, <3>2, <3>3 DEF StaysKnown
  <2> QED
    BY <2>1, <2>2
<1>4. MarkersOK'
  BY <1>2 DEF MarkersOK
<1>5. RebuildsOK'
  BY <1>3 DEF RebuildsOK
<1> QED
  BY <1>1, <1>4, <1>5

LEMMA MissedKeeps ==
  ASSUME IndexTypeOK, MissedOK, Fewer, UNCHANGED <<follows, big, changes>>,
         faults' = faults \/ faults' = faults + 1,
         stored \subseteq stored',
         \A k \in Keys : missed'[k] \subseteq missed[k]
  PROVE  MissedOK'
<1>1. Inbox \in Keys /\ missed[Inbox] \subseteq stored /\ \A a \in Authors : a \in Keys
  BY DEF IndexTypeOK, Keys
<1>2. MissedOfRead' \subseteq MissedOfRead
  BY <1>1 DEF MissedOfRead, VideosOf, ReadFor
<1>3. ReadFor(Inbox)' = ReadFor(Inbox)
  BY DEF ReadFor
<1>4. faults' = 0 => faults = 0
  BY DEF IndexTypeOK
<1>5. faults' = 0 => \A a \in Authors : missed'[a] = {}
  BY <1>1, <1>4 DEF MissedOK
<1>6. faults' = 0 /\ changes' = 0 => MissedOfRead' = {}
  BY <1>2, <1>4 DEF MissedOK
<1>7. ASSUME faults' = 0, changes' <= 1, marker'[Inbox] = ReadFor(Inbox)
      PROVE  MissedOfRead' = {}
  <2>1. CASE marker[Inbox] = ReadFor(Inbox)
    BY <1>2, <1>4, <1>7, <2>1 DEF MissedOK
  <2>2. CASE ReadFor(Inbox) = {}
    BY <1>2, <2>2 DEF MissedOfRead, VideosOf
  <2> QED
    BY <1>1, <1>7, <2>1, <2>2 DEF Fewer
<1>8. ASSUME faults' = 0, changes' <= 1, NEW r \in rebuilds', r.key = Inbox,
             r.authors = ReadFor(Inbox)
      PROVE  MissedOfRead' \subseteq r.found
  BY <1>2, <1>4, <1>8 DEF MissedOK, Fewer
<1> QED
  BY <1>3, <1>5, <1>6, <1>7, <1>8 DEF MissedOK

LEMMA SteadyKeeps ==
  ASSUME Steady, Fewer, UNCHANGED <<follows, big, changes, page>>
  PROVE  Steady'
BY DEF Steady, Fewer, ReadFor, Reading, Keys

LEMMA SamePageType == PageTypeOK /\ UNCHANGED page => PageTypeOK'
BY DEF PageTypeOK, Reading

LEMMA CommitKeeps ==
  ASSUME FInv, NEW v \in Videos, Commit(v)
  PROVE  FInv'
<1> USE DEF FInv
<1>1. IndexTypeOK'
  BY DEF Commit, IndexTypeOK
<1>2. Fewer
  BY DEF Commit, Fewer
<1>3. StaysKnown
  BY DEF Commit, StaysKnown, Known, InTop, Later
<1>4. OwnKeys' /\ MarkersOK' /\ RebuildsOK'
  BY <1>2, <1>3, KnownKeeps DEF Commit
<1>5. FanOK'
  BY DEF Commit, FanOK, InTop, Later
<1>6. MissedOK'
  BY <1>2, MissedKeeps DEF Commit
<1>7. Steady' /\ PageTypeOK'
  BY <1>2, SteadyKeeps, SamePageType DEF Commit
<1> QED
  BY <1>1, <1>4, <1>5, <1>6, <1>7

\* The consumer writes to an index, and goes on, ends or fails.
LEMMA PushStepKeeps ==
  ASSUME FInv, NEW k \in Keys, NEW v \in stored, Push(k, v),
         UNCHANGED <<stored, follows, big, rebuilds, page, changes>>,
         faults' = faults \/ faults' = faults + 1,
         \/ /\ k = AuthorOf[v] /\ queue' = queue /\ v \in queue
            /\ fan' = [video |-> v, step |-> "count"]
         \/ k = Inbox /\ fan # None /\ v = fan.video /\ fan' = None /\ queue' = queue \ {v}
         \/ fan' = None /\ queue' = queue
  PROVE  FInv'
<1> USE DEF FInv
<1>1. /\ index' \in [Keys -> SUBSET stored]
      /\ missed' \in [Keys -> SUBSET stored]
      /\ \A j \in Keys : missed'[j] \subseteq missed[j]
      /\ \A j \in Keys, u \in stored :
            u \in missed[j] \/ InTop(index[j], u) => u \in missed'[j] \/ InTop(index'[j], u)
      /\ InTop(index'[k], v)
      /\ marker' = marker
  BY PushKeeps DEF Push
<1>2. IndexTypeOK'
  BY <1>1 DEF IndexTypeOK
<1>3. Fewer
  BY <1>1 DEF Fewer
<1>4. StaysKnown
  <2> SUFFICES ASSUME NEW j \in Keys, NEW u \in stored, j # Inbox => AuthorOf[u] = j, Known(j, u),
                      u \notin queue'
               PROVE  u \in missed'[j] \/ InTop(index'[j], u)
    BY DEF StaysKnown, Known, InTop, Later
  <2>1. CASE u \notin queue
    BY <1>1, <2>1 DEF Known
  <2>2. CASE u \in queue
    <3>1. k = Inbox /\ fan # None /\ u = v /\ v = fan.video
      BY <2>2
    <3>2. CASE j = Inbox
      BY <1>1, <3>1, <3>2
    <3>3. CASE j # Inbox
      <4>1. u \in missed[j] \/ InTop(index[j], u)
        BY <3>1, <3>3 DEF FanOK
      <4> QED
        BY <1>1, <4>1
    <3> QED
      BY <3>2, <3>3
  <2> QED
    BY <2>1, <2>2
<1>5. OwnKeys' /\ MarkersOK' /\ RebuildsOK'
  BY <1>3, <1>4, KnownKeeps
<1>6. FanOK'
  <2>1. CASE fan' = None
    BY <2>1 DEF FanOK
  <2>2. CASE k = AuthorOf[v] /\ fan' = [video |-> v, step |-> "count"]
    <3>1. fan'.video = v
      BY <2>2
    <3>2. InTop(index[k], v)'
      BY <1>1 DEF InTop, Later
    <3> QED
      BY <2>2, <3>1, <3>2 DEF FanOK
  <2> QED
    BY <2>1, <2>2
<1>7. MissedOK'
  BY <1>1, <1>3, MissedKeeps
<1>8. Steady' /\ PageTypeOK'
  BY <1>3, SteadyKeeps, SamePageType
<1> QED
  BY <1>2, <1>5, <1>6, <1>7, <1>8

LEMMA FanVideo ==
  ASSUME IndexTypeOK, fan # None
  PROVE  /\ fan.video \in queue /\ fan.video \in stored /\ fan.video \in Videos
         /\ AuthorOf[fan.video] \in Authors
         /\ fan = [video |-> fan.video, step |-> fan.step]
         /\ fan.step \in {"count", "batch", "append"}
<1>1. fan \in [video : queue, step : {"count", "batch", "append"}]
  BY DEF IndexTypeOK
<1> QED
  BY <1>1, VideoAssumption DEF IndexTypeOK

LEMMA TakeEventKeeps ==
  ASSUME FInv, NEW v \in Videos, TakeEvent(v)
  PROVE  FInv'
<1>1. v \in stored /\ AuthorOf[v] \in Keys
  BY VideoAssumption DEF TakeEvent, FInv, IndexTypeOK, Keys
<1> QED
  BY <1>1, PushStepKeeps DEF TakeEvent

LEMMA AppendBatchKeeps == FInv /\ AppendBatch => FInv'
<1> SUFFICES ASSUME FInv, AppendBatch PROVE FInv'
  OBVIOUS
<1>1. fan # None /\ fan.video \in stored /\ Inbox \in Keys
  BY FanVideo DEF AppendBatch, FInv, Keys
<1> QED
  BY <1>1, PushStepKeeps DEF AppendBatch, Acknowledge

LEMMA FanoutFailsKeeps == FInv /\ FanoutFails => FInv'
<1> SUFFICES ASSUME FInv, FanoutFails PROVE FInv'
  OBVIOUS
<1>1. fan # None /\ fan.video \in stored /\ Inbox \in Keys
  BY FanVideo DEF FanoutFails, FInv, Keys
<1>2. CASE Push(Inbox, fan.video)
  BY <1>1, <1>2, PushStepKeeps DEF FanoutFails, Fault
<1>3. CASE UNCHANGED <<index, marker, missed>>
  <2> USE DEF FInv
  <2>1. IndexTypeOK'
    BY <1>3 DEF FanoutFails, Fault, IndexTypeOK
  <2>2. Fewer
    BY <1>3 DEF FanoutFails, Fewer
  <2>3. StaysKnown
    BY <1>3 DEF FanoutFails, StaysKnown, Known, InTop, Later
  <2>4. OwnKeys' /\ MarkersOK' /\ RebuildsOK'
    BY <2>2, <2>3, KnownKeeps DEF FanoutFails
  <2>5. FanOK'
    BY DEF FanoutFails, FanOK
  <2>6. MissedOK'
    BY <1>3, <2>2, MissedKeeps DEF FanoutFails, Fault
  <2>7. Steady' /\ PageTypeOK'
    BY <2>2, SteadyKeeps, SamePageType DEF FanoutFails
  <2> QED
    BY <2>1, <2>4, <2>5, <2>6, <2>7
<1> QED
  BY <1>2, <1>3 DEF FanoutFails

-----------------------------------------------------------------------------
(***************************************************************************)
(* The other steps.                                                        *)
(***************************************************************************)
LEMMA ProceedKeeps ==
  ASSUME FInv, NEW step \in {"count", "batch"}, NEW goesOn \in BOOLEAN, Proceed(step, goesOn),
         ~ goesOn => AuthorOf[fan.video] \notin ReadFor(Inbox)
  PROVE  FInv'
<1> USE DEF FInv
<1>0. /\ fan # None
      /\ UNCHANGED <<stored, follows, big, index, marker, rebuilds, page, changes, faults>>
  BY DEF Proceed
<1>1. CASE goesOn
  <2>1. /\ fan' = [fan EXCEPT !.step = IF step = "count" THEN "batch" ELSE "append"]
        /\ UNCHANGED <<queue, missed>>
    BY <1>1 DEF Proceed
  <2>2. fan' = [video |-> fan.video, step |-> IF step = "count" THEN "batch" ELSE "append"]
    BY <1>0, <2>1, FanVideo
  <2>3. fan'.video = fan.video /\ fan' \in [video : queue, step : {"count", "batch", "append"}]
    BY <1>0, <2>2, FanVideo
  <2>4. IndexTypeOK'
    BY <1>0, <2>1, <2>3 DEF IndexTypeOK
  <2>5. FanOK'
    BY <1>0, <2>1, <2>3 DEF FanOK, InTop, Later
  <2>6. Fewer /\ StaysKnown
    BY <1>0, <2>1 DEF Fewer, StaysKnown, Known, InTop, Later
  <2>7. OwnKeys' /\ MarkersOK' /\ RebuildsOK'
    BY <1>0, <2>6, KnownKeeps
  <2>8. MissedOK'
    BY <1>0, <2>1, <2>6, MissedKeeps
  <2>9. Steady' /\ PageTypeOK'
    BY <1>0, <2>6, SteadyKeeps, SamePageType
  <2> QED
    BY <2>4, <2>5, <2>7, <2>8, <2>9
<1>2. CASE ~ goesOn
  <2> DEFINE v == fan.video
  <2>0. v \in stored /\ v \in queue /\ v \in Videos /\ AuthorOf[v] \in Authors
    BY <1>0, FanVideo
  <2>1. /\ fan' = None /\ queue' = queue \ {v}
        /\ missed' = [missed EXCEPT ![Inbox] = @ \cup ({v} \ index[Inbox])]
    BY <1>2 DEF Proceed, Acknowledge
  <2> HIDE DEF v
  <2>2. /\ missed'[Inbox] = missed[Inbox] \cup ({v} \ index[Inbox])
        /\ \A a \in Authors : missed'[a] = missed[a]
    BY <2>1, KeyAssumption DEF IndexTypeOK, Keys
  <2>3. IndexTypeOK'
    BY <1>0, <2>0, <2>1 DEF IndexTypeOK
  <2>4. Fewer
    BY <1>0 DEF Fewer
  <2>5. StaysKnown
    <3> SUFFICES ASSUME NEW j \in Keys, NEW u \in stored, j # Inbox => AuthorOf[u] = j, Known(j, u),
                        u \notin queue'
                 PROVE  u \in missed'[j] \/ InTop(index[j], u)
      BY <1>0 DEF StaysKnown, Known, InTop, Later
    <3>1. CASE u # v
      <4>1. u \notin queue
        BY <2>1, <3>1
      <4>2. u \in missed[j] \/ InTop(index[j], u)
        BY <4>1 DEF Known
      <4> QED
        BY <2>2, <4>2 DEF Keys
    <3>2. CASE u = v /\ j = Inbox
      BY <2>2, <3>2 DEF InTop
    <3>3. CASE u = v /\ j # Inbox
      <4>1. u \in missed[j] \/ InTop(index[j], u)
        BY <1>0, <3>3 DEF FanOK, v
      <4> QED
        BY <2>2, <3>3, <4>1 DEF Keys
    <3> QED
      BY <3>1, <3>2, <3>3
  <2>6. OwnKeys' /\ MarkersOK' /\ RebuildsOK'
    BY <1>0, <2>4, <2>5, KnownKeeps
  <2>7. FanOK'
    BY <2>1 DEF FanOK
  <2>8. MissedOK'
    <3>1. MissedOfRead' = MissedOfRead
      <4>1. v \notin VideosOf(ReadFor(Inbox))
        BY <1>2 DEF VideosOf, v
      <4> QED
        BY <1>0, <2>2, <4>1 DEF MissedOfRead, VideosOf, ReadFor
    <3>2. ReadFor(Inbox)' = ReadFor(Inbox)
      BY <1>0 DEF ReadFor
    <3> QED
      BY <1>0, <2>2, <3>1, <3>2 DEF MissedOK
  <2>9. Steady' /\ PageTypeOK'
    BY <1>0, <2>4, SteadyKeeps, SamePageType
  <2> QED
    BY <2>3, <2>6, <2>7, <2>8, <2>9
<1> QED
  BY <1>1, <1>2

LEMMA CountAndBatchKeep == FInv /\ (CountFollowers \/ ReadBatch) => FInv'
<1> SUFFICES ASSUME FInv, CountFollowers \/ ReadBatch PROVE FInv'
  OBVIOUS
<1>1. CASE CountFollowers
  <2>1. AuthorOf[fan.video] \in big => AuthorOf[fan.video] \notin ReadFor(Inbox)
    BY DEF ReadFor
  <2> QED
    BY <1>1, <2>1, ProceedKeeps DEF CountFollowers
<1>2. CASE ReadBatch
  <2>1. AuthorOf[fan.video] \notin follows => AuthorOf[fan.video] \notin ReadFor(Inbox)
    BY DEF ReadFor
  <2> DEFINE goesOn == AuthorOf[fan.video] \in follows
  <2>2. goesOn \in BOOLEAN /\ Proceed("batch", goesOn)
    BY <1>2 DEF ReadBatch
  <2>3. ~ goesOn => AuthorOf[fan.video] \notin ReadFor(Inbox)
    BY <2>1
  <2> HIDE DEF goesOn
  <2> QED
    BY <2>2, <2>3, ProceedKeeps
<1> QED
  BY <1>1, <1>2

LEMMA ChangeKeeps ==
  ASSUME FInv, NEW a \in Authors, Change(a)
  PROVE  FInv'
<1> USE DEF FInv
<1>1. /\ UNCHANGED <<stored, queue, fan, index, marker, rebuilds, page, missed, faults>>
      /\ changes' = changes + 1
      /\ follows' \subseteq Authors /\ big' \subseteq Authors
  BY DEF Change, IndexTypeOK
<1>2. IndexTypeOK'
  BY <1>1 DEF IndexTypeOK
<1>3. OwnKeys' /\ MarkersOK' /\ RebuildsOK' /\ FanOK'
  BY <1>1 DEF OwnKeys, MarkersOK, RebuildsOK, FanOK, Known, InTop, Later, VideosOf
<1>4. Steady' /\ PageTypeOK'
  BY <1>1, SamePageType DEF Steady, IndexTypeOK
<1>5. MissedOK'
  <2>1. faults' = 0 => \A b \in Authors : missed'[b] = {}
    BY <1>1 DEF MissedOK
  <2>2. CASE changes = 0
    <3>1. CASE ReadFor(Inbox)' = ReadFor(Inbox)
      <4>1. MissedOfRead' = MissedOfRead
        BY <1>1, <3>1 DEF MissedOfRead, VideosOf
      <4> QED
        BY <1>1, <2>1, <2>2, <4>1 DEF MissedOK
    <3>2. CASE ReadFor(Inbox)' # ReadFor(Inbox)
      <4>1. marker'[Inbox] = ReadFor(Inbox)' => MissedOfRead' = {}
        BY <1>1, <2>2, <3>2 DEF Steady, MissedOfRead, VideosOf
      <4>2. \A r \in rebuilds' : r.key = Inbox => r.authors # ReadFor(Inbox)'
        BY <1>1, <2>2, <3>2 DEF Steady
      <4> QED
        BY <1>1, <2>1, <2>2, <4>1, <4>2 DEF MissedOK
    <3> QED
      BY <3>1, <3>2
  <2>3. CASE changes # 0
    <3>1. ~ (changes' <= 1)
      BY <1>1, <2>3 DEF IndexTypeOK
    <3> QED
      BY <1>1, <2>1, <3>1 DEF MissedOK, IndexTypeOK
  <2> QED
    BY <2>2, <2>3
<1> QED
  BY <1>2, <1>3, <1>4, <1>5

LEMMA ExpireKeeps ==
  ASSUME FInv, NEW k \in Keys, Expire(k)
  PROVE  FInv'
<1> USE DEF FInv
<1>1. /\ UNCHANGED <<stored, queue, fan, follows, big, index, rebuilds, page, missed, changes,
                     faults>>
      /\ marker' = [marker EXCEPT ![k] = {}]
  BY DEF Expire
<1>2. IndexTypeOK'
  BY <1>1 DEF IndexTypeOK
<1>3. Fewer
  BY <1>1 DEF Fewer, IndexTypeOK
<1>4. StaysKnown
  BY <1>1 DEF StaysKnown, Known, InTop, Later
<1>5. OwnKeys' /\ MarkersOK' /\ RebuildsOK'
  BY <1>1, <1>3, <1>4, KnownKeeps
<1>6. FanOK'
  BY <1>1 DEF FanOK, InTop, Later
<1>7. MissedOK'
  BY <1>1, <1>3, MissedKeeps
<1>8. Steady' /\ PageTypeOK'
  BY <1>1, <1>3, SteadyKeeps, SamePageType
<1> QED
  BY <1>2, <1>5, <1>6, <1>7, <1>8

LEMMA LoseDataKeeps == FInv /\ LoseData => FInv'
<1> SUFFICES ASSUME FInv, LoseData PROVE FInv'
  OBVIOUS
<1> USE DEF FInv
<1> DEFINE waiting == IF fan = None THEN queue ELSE queue \ {fan.video}
<1>1. /\ UNCHANGED <<stored, queue, fan, follows, big, rebuilds, page, changes>>
      /\ faults' = faults + 1
      /\ index' = [k \in Keys |-> {}] /\ marker' = [k \in Keys |-> {}]
      /\ missed' = [k \in Keys |-> (IF k = Inbox THEN stored ELSE VideosOf({k})) \ waiting]
  BY DEF LoseData, Fault
<1> HIDE DEF waiting
<1>2. IndexTypeOK'
  BY <1>1 DEF IndexTypeOK, VideosOf
<1>3. Fewer
  BY <1>1 DEF Fewer
<1>4. waiting \subseteq queue
  BY DEF waiting
<1>5. StaysKnown
  BY <1>1, <1>4 DEF StaysKnown, Known, VideosOf
<1>6. OwnKeys' /\ MarkersOK' /\ RebuildsOK'
  BY <1>1, <1>3, <1>5, KnownKeeps
<1>7. FanOK'
  <2> SUFFICES ASSUME fan # None PROVE fan.video \in missed'[AuthorOf[fan.video]]
    BY <1>1 DEF FanOK
  <2>1. fan.video \notin waiting
    BY DEF waiting
  <2>2. AuthorOf[fan.video] \in Keys /\ AuthorOf[fan.video] # Inbox /\ fan.video \in stored
    BY FanVideo, KeyAssumption DEF Keys
  <2> QED
    BY <1>1, <2>1, <2>2 DEF VideosOf
<1>8. MissedOK'
  BY <1>1 DEF MissedOK, IndexTypeOK
<1>9. Steady' /\ PageTypeOK'
  BY <1>1, <1>3, SteadyKeeps, SamePageType
<1> QED
  BY <1>2, <1>6, <1>7, <1>8, <1>9

LEMMA LandKeeps ==
  ASSUME FInv, NEW r \in rebuilds, Land(r)
  PROVE  FInv'
<1> USE DEF FInv
<1>0. /\ rebuilds' = rebuilds \ {r}
      /\ UNCHANGED <<stored, queue, fan, follows, big, page, changes>>
      /\ r.key \in Keys /\ r.authors \subseteq Authors /\ r.found \subseteq stored
  BY DEF Land, IndexTypeOK
<1>1. CASE Fault /\ UNCHANGED <<index, marker, missed>>
  <2>1. IndexTypeOK'
    BY <1>0, <1>1 DEF IndexTypeOK, Fault
  <2>2. Fewer /\ StaysKnown
    BY <1>0, <1>1 DEF Fewer, StaysKnown, Known, InTop, Later
  <2>3. OwnKeys' /\ MarkersOK' /\ RebuildsOK'
    BY <1>0, <2>2, KnownKeeps
  <2>4. FanOK'
    BY <1>0, <1>1 DEF FanOK, InTop, Later
  <2>5. MissedOK'
    BY <1>0, <1>1, <2>2, MissedKeeps DEF Fault
  <2>6. Steady' /\ PageTypeOK'
    BY <1>0, <2>2, SteadyKeeps, SamePageType
  <2> QED
    BY <2>1, <2>3, <2>4, <2>5, <2>6
<1>2. CASE /\ index' = [index EXCEPT ![r.key] = Rebuilt(r)]
           /\ marker' = [marker EXCEPT ![r.key] = r.authors]
           /\ missed' = [missed EXCEPT ![r.key] = @ \ r.found]
           /\ UNCHANGED faults
  <2>1. /\ index' \in [Keys -> SUBSET stored]
        /\ missed' \in [Keys -> SUBSET stored]
        /\ \A j \in Keys : missed'[j] \subseteq missed[j]
        /\ \A j \in Keys, u \in stored :
              u \in missed[j] \/ InTop(index[j], u) => u \in missed'[j] \/ InTop(index'[j], u)
        /\ \A u \in r.found : InTop(index'[r.key], u)
    BY <1>0, <1>2, LandWrites
  <2>2. missed'[r.key] = missed[r.key] \ r.found /\ marker'[r.key] = r.authors
    BY <1>0, <1>2 DEF IndexTypeOK
  <2>3. \A j \in Keys : j # r.key => marker'[j] = marker[j]
    BY <1>0, <1>2 DEF IndexTypeOK
  <2>4. IndexTypeOK'
    BY <1>0, <1>2, <2>1 DEF IndexTypeOK
  <2>5. StaysKnown
    BY <1>0, <2>1 DEF StaysKnown, Known, InTop, Later
  <2>6. OwnKeys'
    BY <1>0, <2>2, <2>3, KeyAssumption DEF OwnKeys, Keys
  <2>7. MarkersOK'
    <3> SUFFICES ASSUME NEW k \in Keys, NEW v \in VideosOf(marker'[k]) PROVE Known(k, v)'
      BY <1>0 DEF MarkersOK, VideosOf
    <3>1. v \in stored /\ (k # Inbox => AuthorOf[v] = k)
      BY <2>6 DEF VideosOf, OwnKeys, Keys
    <3>2. CASE k # r.key
      BY <2>3, <2>5, <3>1, <3>2 DEF MarkersOK, StaysKnown
    <3>3. CASE k = r.key /\ v \in r.found
      <4>1. InTop(index'[k], v)
        BY <2>1, <3>3
      <4> QED
        BY <4>1 DEF Known, InTop, Later
    <3>4. CASE k = r.key /\ v \notin r.found
      <4>1. Known(k, v)
        BY <2>2, <3>4 DEF RebuildsOK
      <4> QED
        BY <2>5, <3>1, <4>1 DEF StaysKnown
    <3> QED
      BY <3>2, <3>3, <3>4
  <2>8. RebuildsOK'
    <3> SUFFICES ASSUME NEW q \in rebuilds, NEW v \in VideosOf(q.authors) \ q.found
                 PROVE  Known(q.key, v)'
      BY <1>0 DEF RebuildsOK, VideosOf
    <3>1. v \in stored /\ q.key \in Keys /\ (q.key # Inbox => AuthorOf[v] = q.key)
      BY DEF VideosOf, OwnKeys, IndexTypeOK
    <3>2. Known(q.key, v)
      BY DEF RebuildsOK
    <3> QED
      BY <2>5, <3>1, <3>2 DEF StaysKnown
  <2>9. FanOK'
    <3> SUFFICES ASSUME fan # None
                 PROVE  \/ fan.video \in missed'[AuthorOf[fan.video]]
                        \/ InTop(index'[AuthorOf[fan.video]], fan.video)
      BY <1>0 DEF FanOK, InTop, Later
    <3>1. AuthorOf[fan.video] \in Keys /\ fan.video \in stored
      BY FanVideo DEF Keys
    <3> QED
      BY <2>1, <3>1 DEF FanOK
  <2>10. MissedOK'
    <3>1. Inbox \in Keys /\ \A a \in Authors : a \in Keys
      BY DEF Keys
    <3>2. /\ MissedOfRead' \subseteq MissedOfRead
          /\ r.key = Inbox => MissedOfRead' = MissedOfRead \ r.found
          /\ ReadFor(Inbox)' = ReadFor(Inbox)
      BY <1>0, <2>1, <2>2, <3>1 DEF MissedOfRead, VideosOf, ReadFor
    <3>3. ASSUME faults = 0, changes <= 1, marker'[Inbox] = ReadFor(Inbox)
          PROVE  MissedOfRead' = {}
      <4>1. CASE r.key = Inbox
        BY <2>2, <3>2, <3>3, <4>1 DEF MissedOK
      <4>2. CASE r.key # Inbox
        BY <2>3, <3>1, <3>2, <3>3, <4>2 DEF MissedOK
      <4> QED
        BY <4>1, <4>2
    <3>4. ASSUME faults = 0, changes <= 1, NEW q \in rebuilds', q.key = Inbox,
                 q.authors = ReadFor(Inbox)
          PROVE  MissedOfRead' \subseteq q.found
      BY <1>0, <3>2, <3>4 DEF MissedOK
    <3>5. faults = 0 => \A a \in Authors : missed'[a] = {}
      BY <2>1, <3>1 DEF MissedOK
    <3>6. faults = 0 /\ changes = 0 => MissedOfRead' = {}
      BY <3>2 DEF MissedOK
    <3> QED
      BY <1>0, <1>2, <3>2, <3>3, <3>4, <3>5, <3>6 DEF MissedOK
  <2>11. Steady' /\ PageTypeOK'
    <3>1. Inbox \in Keys
      BY DEF Keys
    <3>2. changes = 0 => marker'[Inbox] \in {{}, ReadFor(Inbox)}
      BY <2>2, <2>3, <3>1 DEF Steady
    <3>3. Steady'
      BY <1>0, <3>2 DEF Steady, ReadFor, Reading
    <3> QED
      BY <1>0, <3>3, SamePageType
  <2> QED
    BY <2>4, <2>6, <2>7, <2>8, <2>9, <2>10, <2>11
<1> QED
  BY <1>1, <1>2 DEF Land

\* A page or another reader begins a rebuild, or does nothing to the indexes.
LEMMA ReadersKeep ==
  ASSUME FInv, UNCHANGED <<stored, queue, fan, follows, big, index, marker, missed, changes>>,
         faults' = faults \/ faults' = faults + 1,
         \/ UNCHANGED rebuilds
         \/ \E k \in Keys, authors \in SUBSET Authors :
               /\ Rebuild(k, authors)
               /\ k # Inbox => authors = {k}
               /\ changes = 0 /\ k = Inbox => authors = ReadFor(Inbox),
         PageTypeOK',
         changes = 0 => /\ page'.pc = "classify" => page'.authors = follows
                        /\ Reading' => page'.normal = ReadFor(Inbox)
  PROVE  FInv'
<1> USE DEF FInv
<1>1. \A r \in rebuilds' \ rebuilds :
         /\ r \in [key : Keys, authors : SUBSET Authors, found : SUBSET stored]
         /\ r.found = VideosOf(r.authors)
         /\ r.key # Inbox => r.authors = {r.key}
         /\ changes = 0 /\ r.key = Inbox => r.authors = ReadFor(Inbox)
  <2> SUFFICES ASSUME NEW k \in Keys, NEW authors \in SUBSET Authors,
                      Rebuild(k, authors),
                      k # Inbox => authors = {k},
                      changes = 0 /\ k = Inbox => authors = ReadFor(Inbox),
                      NEW r \in rebuilds', r \notin rebuilds
               PROVE  /\ r \in [key : Keys, authors : SUBSET Authors, found : SUBSET stored]
                      /\ r.found = VideosOf(r.authors)
                      /\ r.key # Inbox => r.authors = {r.key}
                      /\ changes = 0 /\ r.key = Inbox => r.authors = ReadFor(Inbox)
    OBVIOUS
  <2>1. r = [key |-> k, authors |-> authors, found |-> VideosOf(authors)]
    BY RebuildAdds
  <2>2. VideosOf(authors) \subseteq stored
    BY DEF VideosOf
  <2> QED
    BY <2>1, <2>2
<1>2. IndexTypeOK'
  BY <1>1 DEF IndexTypeOK
<1>3. OwnKeys' /\ MarkersOK' /\ RebuildsOK' /\ FanOK'
  BY <1>1 DEF OwnKeys, MarkersOK, RebuildsOK, FanOK, Known, InTop, Later, VideosOf
<1>4. MissedOfRead' = MissedOfRead /\ ReadFor(Inbox)' = ReadFor(Inbox)
  BY DEF MissedOfRead, VideosOf, ReadFor
<1>5. \A r \in rebuilds' \ rebuilds : r.authors = ReadFor(Inbox) => MissedOfRead \subseteq r.found
  BY <1>1 DEF MissedOfRead
<1>6. faults' = 0 => faults = 0
  BY DEF IndexTypeOK
<1>7. MissedOK'
  BY <1>4, <1>5, <1>6 DEF MissedOK
<1>8. Steady'
  BY <1>1, <1>4 DEF Steady
<1> QED
  BY <1>2, <1>3, <1>7, <1>8

LEMMA StepFInv == FInv /\ [Next]_vars => FInv'
<1> SUFFICES ASSUME FInv, [Next]_vars PROVE FInv'
  OBVIOUS
<1>1. CASE \E v \in Videos : Commit(v) \/ TakeEvent(v)
  BY <1>1, CommitKeeps, TakeEventKeeps
<1>2. CASE \E a \in Authors : Change(a)
  BY <1>2, ChangeKeeps
<1>3. CASE CountFollowers \/ ReadBatch \/ AppendBatch \/ FanoutFails
  BY <1>3, CountAndBatchKeep, AppendBatchKeeps, FanoutFailsKeeps
<1>4. CASE \E k \in Keys : Expire(k)
  BY <1>4, ExpireKeeps
<1>5. CASE \E k \in big : OthersRead(k)
  <2>1. PICK k \in big : OthersRead(k)
    BY <1>5
  <2>2. k \in Keys /\ {k} \in SUBSET Authors /\ k # Inbox
    BY KeyAssumption DEF FInv, IndexTypeOK, Keys
  <2>3. PageTypeOK'
    BY <2>1, SamePageType DEF OthersRead, FInv
  <2>4. changes = 0 => /\ page'.pc = "classify" => page'.authors = follows
                       /\ Reading' => page'.normal = ReadFor(Inbox)
    BY <2>1 DEF OthersRead, FInv, Steady, Reading
  <2>5. /\ UNCHANGED <<stored, queue, fan, follows, big, index, marker, missed, changes>>
        /\ faults' = faults /\ Rebuild(k, {k})
    BY <2>1 DEF OthersRead
  <2> QED
    BY <2>2, <2>3, <2>4, <2>5, ReadersKeep
<1>6. CASE LoseData
  BY <1>6, LoseDataKeeps
<1>7. CASE \E r \in rebuilds : Land(r)
  BY <1>7, LandKeeps
<1>8. CASE \/ \E cursor \in Cursors : Ask(cursor)
           \/ Classify \/ ReadSource \/ QuerySource \/ PageFails
  <2>1. IndexTypeOK /\ PageTypeOK /\ Steady
    BY DEF FInv
  <2> QED
    BY <1>8, <2>1, PageSteps, ReadersKeep DEF Others
<1>9. CASE UNCHANGED vars
  <2>1. PageTypeOK'
    BY <1>9, SamePageType DEF FInv, vars
  <2>2. changes = 0 => /\ page'.pc = "classify" => page'.authors = follows
                       /\ Reading' => page'.normal = ReadFor(Inbox)
    BY <1>9 DEF vars, FInv, Steady, Reading
  <2> QED
    BY <1>9, <2>1, <2>2, ReadersKeep DEF vars
<1> QED
  BY <1>1, <1>2, <1>3, <1>4, <1>5, <1>6, <1>7, <1>8, <1>9 DEF Next

LEMMA CompleteIndex == FInv => IndexIsComplete
<1> SUFFICES ASSUME FInv, NEW k \in Keys, marker[k] = ReadFor(k),
                    NEW v \in VideosOf(ReadFor(k)), v \notin queue, v \notin index[k],
                    v \notin Excused(k)
             PROVE  Cardinality({u \in index[k] : u > v}) >= Capacity
  BY DEF IndexIsComplete
<1>1. Known(k, v)
  BY DEF FInv, MarkersOK
<1>2. v \notin missed[k]
  <2>1. CASE changes > 1 \/ faults > 0
    BY <2>1 DEF Excused
  <2>2. CASE ~ (changes > 1 \/ faults > 0)
    <3>1. faults = 0 /\ changes <= 1
      BY <2>2 DEF FInv, IndexTypeOK
    <3>2. CASE k = Inbox
      BY <3>1, <3>2 DEF FInv, MissedOK, MissedOfRead
    <3>3. CASE k # Inbox
      BY <3>1, <3>3 DEF FInv, MissedOK, Keys
    <3> QED
      BY <3>2, <3>3
  <2> QED
    BY <2>1, <2>2
<1> QED
  BY <1>1, <1>2 DEF Known, InTop, Later

\* An index that a reader of now trusts has every announced video of its
\* authors, back to where its capacity ends, but for those that a second change
\* of the relations or a fault excuses: pushes, rebuilds with rows read earlier,
\* redeliveries, expiry and the loss of Redis in any order.
THEOREM IndexesAreComplete == Spec => []IndexIsComplete
<1>1. Init => FInv
  BY InitFInv
<1>2. FInv /\ [Next]_vars => FInv'
  BY StepFInv
<1>3. FInv => IndexIsComplete
  BY CompleteIndex
<1> QED
  BY <1>1, <1>2, <1>3, PTL DEF Spec

-----------------------------------------------------------------------------
(***************************************************************************)
(* The newest of a set of videos, and a set of videos in order.            *)
(***************************************************************************)
\* A nonempty set of numbers has a smallest.
LEMMA Smallest ==
  ASSUME NEW F \in SUBSET Nat, F # {}
  PROVE  \E k \in F : \A j \in F : k <= j
<1>1. PICK top \in F : TRUE
  OBVIOUS
<1> DEFINE below(k) == 1..k
           G == {below(k) : k \in {k \in F : k <= top}}
<1>2. G # {} /\ G \subseteq SUBSET below(top)
  BY <1>1
<1>3. IsFiniteSet(below(top))
  BY <1>1, FS_Interval
<1>4. PICK A \in G : \A B \in G : ~ (B \subseteq A /\ B # A)
  <2> HIDE DEF G, below
  <2> QED
    BY <1>2, <1>3, MinimalSet
<1>5. PICK k \in F : k <= top /\ A = below(k)
  BY <1>4
<1>6. ASSUME NEW j \in F, j < k PROVE FALSE
  <2>1. below(j) \in G /\ below(j) \subseteq below(k)
    BY <1>1, <1>5, <1>6
  <2>2. k \in below(k) /\ k \notin below(j)
    BY <1>5, <1>6
  <2> QED
    BY <1>4, <1>5, <2>1, <2>2
<1> QED
  BY <1>5, <1>6

LEMMA NewestCount ==
  ASSUME NEW S \in SUBSET Videos, NEW n \in Nat
  PROVE  /\ Cardinality(Newest(S, n)) <= n
         /\ \A v \in S \ Newest(S, n) :
               Cardinality(Newest(S, n)) = n /\ \A u \in Newest(S, n) : u > v
<1>0. Newest(S, n) \in SUBSET Videos /\ Newest(S, n) \subseteq S
  BY DEF Newest
<1>1. Cardinality(Newest(S, n)) <= n
  <2>1. CASE Newest(S, n) = {}
    BY <2>1, FS_EmptySet
  <2>2. CASE Newest(S, n) # {}
    <3>1. PICK w \in Newest(S, n) : \A u \in Newest(S, n) : w <= u
      <4>1. Newest(S, n) \in SUBSET Nat
        BY <1>0 DEF Videos
      <4> QED
        BY <4>1, <2>2, Smallest
    <3>2. Newest(S, n) \subseteq Later(S, w) \cup {w}
      BY <1>0, <3>1, VideosAreIntegers DEF Later
    <3>3. Cardinality(Later(S, w)) < n /\ Later(S, w) \in SUBSET Videos
      BY <3>1 DEF Newest, Later
    <3>4. Cardinality(Later(S, w) \cup {w}) = Cardinality(Later(S, w)) + 1
      <4>1. w \notin Later(S, w)
        BY <1>0, VideosAreIntegers DEF Later
      <4> QED
        BY <3>3, <4>1, VideosFinite, FS_AddElement
    <3>5. Later(S, w) \cup {w} \in SUBSET Videos
      BY <3>3, <1>0
    <3>6. Cardinality(Newest(S, n)) <= Cardinality(Later(S, w) \cup {w})
      BY <3>2, <3>5, SmallerSet
    <3> QED
      BY <3>3, <3>4, <3>6, <1>0, VideosFinite
  <2> QED
    BY <2>1, <2>2
<1>2. ASSUME NEW v \in S \ Newest(S, n)
      PROVE  Cardinality(Newest(S, n)) = n /\ \A u \in Newest(S, n) : u > v
  <2> DEFINE X == Later(S, v)
  <2>1. X \in SUBSET S /\ X \in SUBSET Videos /\ \A u \in X, w \in S : w > u => w \in X
    BY VideosAreIntegers DEF Later
  <2>2. Cardinality(X) >= n
    BY <2>1, VideosFinite DEF Newest, Later
  <2> HIDE DEF X
  <2>3. Cardinality(X \cap Newest(S, n)) >= n
    BY <2>1, <2>2, NewestKeepsTop
  <2>4. X \cap Newest(S, n) \in SUBSET Newest(S, n)
    OBVIOUS
  <2>5. /\ Cardinality(X \cap Newest(S, n)) = Cardinality(Newest(S, n))
        /\ Cardinality(Newest(S, n)) = n
        /\ X \cap Newest(S, n) = Newest(S, n)
    <3>1. X \cap Newest(S, n) \in SUBSET Videos
      BY <1>0
    <3> QED
      BY <2>3, <2>4, <3>1, <1>0, <1>1, SmallerSet, VideosFinite
  <2> QED
    BY <2>5 DEF X, Later
<1> QED
  BY <1>1, <1>2

\* A finite set of videos has an order.
LEMMA HasOrder ==
  ASSUME NEW S \in SUBSET Videos
  PROVE  \E s \in [1..Cardinality(S) -> S] :
            Descending(s) /\ \A v \in S : \E i \in DOMAIN s : s[i] = v
<1> DEFINE Good(T) == \E s \in [1..Cardinality(T) -> T] :
                         Descending(s) /\ \A v \in T : \E i \in DOMAIN s : s[i] = v
           F == {T \in SUBSET S : ~ Good(T)}
<1> SUFFICES ASSUME F # {} PROVE FALSE
  OBVIOUS
<1>1. PICK T \in F : \A B \in F : ~ (B \subseteq T /\ B # T)
  <2>1. F \subseteq SUBSET S /\ IsFiniteSet(S)
    BY VideosFinite
  <2> HIDE DEF F
  <2> QED
    BY <2>1, MinimalSet
<1>2. T # {}
  <2>1. Good({})
    <3>1. Cardinality({}) = 0
      BY FS_EmptySet
    <3>2. [i \in 1..0 |-> i] \in [1..0 -> {}] /\ Descending([i \in 1..0 |-> i])
      BY DEF Descending
    <3> QED
      BY <3>1, <3>2
  <2> QED
    BY <1>1, <2>1
<1>3. T \in SUBSET Videos /\ T \in SUBSET Nat
  BY <1>1 DEF Videos
<1>4. PICK w \in T : \A u \in T : w <= u
  BY <1>2, <1>3, Smallest
<1> DEFINE R == T \ {w}
<1>5. Good(R)
  <2>1. R \in SUBSET S /\ R \subseteq T /\ R # T
    BY <1>1, <1>4
  <2> HIDE DEF R, Good
  <2> QED
    BY <1>1, <2>1
<1>6. Cardinality(T) = Cardinality(R) + 1 /\ Cardinality(R) \in Nat
  <2>1. IsFiniteSet(R) /\ w \notin R /\ T = R \cup {w} /\ R \in SUBSET Videos
    BY <1>3, VideosFinite
  <2> HIDE DEF R
  <2> QED
    BY <2>1, FS_AddElement, FS_CardinalityType
<1>7. PICK s \in [1..Cardinality(R) -> R] :
             Descending(s) /\ \A v \in R : \E i \in DOMAIN s : s[i] = v
  BY <1>5
<1> DEFINE c == Cardinality(R)
           t == [i \in 1..(c + 1) |-> IF i <= c THEN s[i] ELSE w]
<1> HIDE DEF c
<1>8. c \in Nat /\ s \in [1..c -> R] /\ Cardinality(T) = c + 1 /\ R \subseteq T /\ w \in T
  BY <1>4, <1>6, <1>7 DEF c
<1>82. \A u \in R : u > w /\ u \in Nat
  BY <1>3, <1>4
<1> HIDE DEF R
<1>81. /\ DOMAIN t = 1..(c + 1)
       /\ \A i \in 1..c : t[i] = s[i] /\ s[i] \in R
       /\ t[c + 1] = w
       /\ \A i \in 1..(c + 1) : i \in 1..c \/ i = c + 1
  <2>1. \A i \in 1..c : i \in 1..(c + 1) /\ i <= c
    BY <1>8
  <2>2. c + 1 \in 1..(c + 1) /\ ~ (c + 1 <= c)
    BY <1>8
  <2>3. \A i \in 1..(c + 1) : i \in 1..c \/ i = c + 1
    BY <1>8
  <2> QED
    BY <2>1, <2>2, <2>3, <1>8
<1> HIDE DEF t
<1>9. t \in [1..Cardinality(T) -> T]
  <2>1. t = [i \in 1..(c + 1) |-> t[i]]
    BY DEF t
  <2>2. \A i \in 1..(c + 1) : t[i] \in T
    BY <1>8, <1>81
  <2> QED
    BY <2>1, <2>2, <1>8
<1>10. Descending(t)
  <2> SUFFICES ASSUME NEW i \in 1..(c + 1), NEW j \in 1..(c + 1), i < j PROVE t[i] > t[j]
    BY <1>81 DEF Descending
  <2>1. i \in 1..c
    BY <1>8
  <2>2. CASE j \in 1..c
    BY <2>1, <2>2, <1>7, <1>8, <1>81 DEF Descending
  <2>3. CASE j = c + 1
    BY <2>1, <2>3, <1>81, <1>82
  <2> QED
    BY <2>2, <2>3, <1>81
<1>11. \A v \in T : \E i \in DOMAIN t : t[i] = v
  <2>1. \A v \in R : \E i \in 1..c : t[i] = v
    BY <1>7, <1>8, <1>81 DEF c
  <2>2. \A v \in T : v \in R \/ v = w
    BY DEF R
  <2>3. \A i \in 1..c : i \in DOMAIN t
    BY <1>8, <1>81
  <2>4. c + 1 \in DOMAIN t
    BY <1>8, <1>81
  <2> QED
    BY <2>1, <2>2, <2>3, <2>4, <1>81
<1> QED
  BY <1>1, <1>9, <1>10, <1>11

Sorted(s) == s \in Seq(Videos) /\ Descending(s)

LEMMA SortedCount ==
  ASSUME NEW s, Sorted(s)
  PROVE  /\ ToSet(s) \in SUBSET Videos
         /\ Cardinality(ToSet(s)) = Len(s)
<1>1. /\ Len(s) \in Nat /\ DOMAIN s = 1..Len(s) /\ s \in [1..Len(s) -> Videos]
  BY DEF Sorted
<1>2. ToSet(s) \in SUBSET Videos
  BY <1>1 DEF ToSet
<1>3. s \in Bijection(1..Len(s), ToSet(s))
  <2>1. s \in [1..Len(s) -> ToSet(s)] /\ \A v \in ToSet(s) : \E i \in 1..Len(s) : s[i] = v
    BY <1>1 DEF ToSet
  <2>2. ASSUME NEW i \in 1..Len(s), NEW j \in 1..Len(s), s[i] = s[j] PROVE i = j
    <3>1. s[i] \in Int /\ ~ (s[i] > s[i])
      BY <1>1, VideosAreIntegers
    <3>2. ~ (i < j) /\ ~ (j < i)
      BY <1>1, <2>2, <3>1 DEF Sorted, Descending
    <3> QED
      BY <1>1, <3>2
  <2> QED
    BY <1>1, <2>1, <2>2 DEF Bijection, Injection, Surjection, IsInjective
<1>4. ExistsBijection(1..Len(s), ToSet(s))
  BY <1>3 DEF ExistsBijection
<1> QED
  BY <1>1, <1>2, <1>4, FS_CountingElements

LEMMA InOrderIs ==
  ASSUME NEW S \in SUBSET Videos
  PROVE  Sorted(InOrder(S)) /\ ToSet(InOrder(S)) = S /\ Len(InOrder(S)) = Cardinality(S)
<1> DEFINE s == InOrder(S)
           c == Cardinality(S)
<1>1. s \in [1..c -> S] /\ Descending(s)
  BY HasOrder DEF InOrder
<1>2. c \in Nat
  BY VideosFinite
<1> HIDE DEF s, c
<1>3. s \in Seq(Videos) /\ Len(s) = c /\ Sorted(s)
  BY <1>1, <1>2 DEF Sorted
<1>4. ToSet(s) \in SUBSET S
  BY <1>1 DEF ToSet
<1>5. Cardinality(ToSet(s)) = c
  BY <1>3, SortedCount
<1>6. ToSet(s) = S
  BY <1>4, <1>5, SmallerSet DEF c
<1> QED
  BY <1>3, <1>6 DEF s, c

\* s, of at most n entries, has v or ends before it.
Reaches(s, n, v) == v \in ToSet(s) \/ (Len(s) = n /\ \A i \in DOMAIN s : s[i] > v)

LEMMA NewestReaches ==
  ASSUME NEW S \in SUBSET Videos, NEW n \in Nat
  PROVE  /\ Sorted(InOrder(Newest(S, n))) /\ Len(InOrder(Newest(S, n))) <= n
         /\ \A v \in S : Reaches(InOrder(Newest(S, n)), n, v)
<1> DEFINE s == InOrder(Newest(S, n))
<1>1. Newest(S, n) \in SUBSET Videos
  BY DEF Newest
<1>2. Sorted(s) /\ ToSet(s) = Newest(S, n) /\ Len(s) = Cardinality(Newest(S, n))
  BY <1>1, InOrderIs
<1> HIDE DEF s
<1>3. Len(s) <= n
  BY <1>2, NewestCount
<1>4. ASSUME NEW v \in S, v \notin ToSet(s) PROVE Len(s) = n /\ \A i \in DOMAIN s : s[i] > v
  <2>1. Cardinality(Newest(S, n)) = n /\ \A u \in Newest(S, n) : u > v
    BY <1>2, <1>4, NewestCount
  <2> QED
    BY <1>2, <2>1 DEF ToSet
<1>5. \A v \in S : Reaches(s, n, v)
  BY <1>4 DEF Reaches
<1> QED
  BY <1>2, <1>3, <1>5 DEF s

\* The states of the merging loop, up to its k-th iteration.
Loop(sources, n, k, f) ==
    [j \in 0..k |->
        IF j = 0 THEN [pos |-> [i \in DOMAIN sources |-> 1], out |-> <<>>]
        ELSE MergeStep(sources, n, f[j - 1])]

LEMMA LoopRuns ==
  ASSUME NEW sources, NEW n, NEW last \in Nat
  PROVE  \E f : f = Loop(sources, n, last, f)
<1> DEFINE Runs(k) == \E f : f = Loop(sources, n, k, f)
           F == {k \in Nat : ~ Runs(k)}
<1> SUFFICES ASSUME F # {} PROVE FALSE
  OBVIOUS
<1>1. PICK k \in F : \A j \in F : k <= j
  <2>1. F \in SUBSET Nat
    OBVIOUS
  <2> HIDE DEF F
  <2> QED
    BY <2>1, Smallest
<1>2. k # 0
  <2> DEFINE f == [j \in 0..0 |-> [pos |-> [i \in DOMAIN sources |-> 1], out |-> <<>>]]
  <2>1. f = Loop(sources, n, 0, f)
    BY DEF Loop
  <2> HIDE DEF f
  <2> QED
    BY <1>1, <2>1
<1>3. k - 1 \in Nat /\ k - 1 \notin F
  BY <1>1, <1>2
<1>4. PICK f : f = Loop(sources, n, k - 1, f)
  BY <1>3
<1> DEFINE g == [j \in 0..k |-> IF j = k THEN MergeStep(sources, n, f[k - 1]) ELSE f[j]]
<1>5. g = Loop(sources, n, k, g)
  <2>1. \A j \in 0..(k - 1) :
           f[j] = IF j = 0 THEN [pos |-> [i \in DOMAIN sources |-> 1], out |-> <<>>]
                  ELSE MergeStep(sources, n, f[j - 1])
    BY <1>4 DEF Loop
  <2>2. ASSUME NEW j \in 0..k
        PROVE  g[j] = IF j = 0 THEN [pos |-> [i \in DOMAIN sources |-> 1], out |-> <<>>]
                      ELSE MergeStep(sources, n, g[j - 1])
    <3>1. CASE j = k
      <4>1. g[j] = MergeStep(sources, n, f[k - 1]) /\ g[k - 1] = f[k - 1]
        BY <1>1, <1>2, <1>3, <3>1
      <4> QED
        BY <4>1, <3>1, <1>2
    <3>2. CASE j # k
      <4>1. j \in 0..(k - 1) /\ g[j] = f[j]
        BY <1>1, <1>3, <3>2
      <4>2. j # 0 => g[j - 1] = f[j - 1]
        BY <1>1, <1>3, <3>2
      <4> QED
        BY <2>1, <4>1, <4>2
    <3> QED
      BY <3>1, <3>2
  <2>3. g = [j \in 0..k |-> g[j]]
    OBVIOUS
  <2> HIDE DEF g
  <2> QED
    BY <2>2, <2>3 DEF Loop
<1> HIDE DEF g
<1> QED
  BY <1>1, <1>5

-----------------------------------------------------------------------------
(***************************************************************************)
(* The loop of Merge: what it has taken is in order, each once, and above  *)
(* what it has yet to take; each iteration takes one entry.                *)
(***************************************************************************)
Sources(sources, n) ==
    /\ sources \in Seq(Seq(Videos))
    /\ \A i \in DOMAIN sources : Sorted(sources[i]) /\ Len(sources[i]) <= n

\* The entries before the positions f.
Before(D, f) == {e \in D \X Nat : e[2] >= 1 /\ e[2] < f[e[1]]}

Taken(sources, m) == Before(DOMAIN sources, m.pos)

LEMMA OneMore ==
  ASSUME NEW D, NEW f \in [D -> Nat], NEW g, NEW top \in D, 1 <= f[top],
         \A i \in D : g[i] = IF i = top THEN f[top] + 1 ELSE f[i]
  PROVE  Before(D, g) = Before(D, f) \cup {<<top, f[top]>>} /\ <<top, f[top]>> \notin Before(D, f)
<1>1. ASSUME NEW h, NEW i \in D, NEW p \in Nat
      PROVE  <<i, p>> \in Before(D, h) <=> p >= 1 /\ p < h[i]
  BY DEF Before
<1>2. Before(D, g) \subseteq D \X Nat /\ Before(D, f) \subseteq D \X Nat
  BY DEF Before
<1>3. <<top, f[top]>> \in D \X Nat /\ f[top] \in Nat
  OBVIOUS
<1>4. ASSUME NEW i \in D, NEW p \in Nat
      PROVE  <<i, p>> \in Before(D, g) <=> <<i, p>> \in Before(D, f) \/ <<i, p>> = <<top, f[top]>>
  <2>1. f[i] \in Nat /\ g[i] = IF i = top THEN f[top] + 1 ELSE f[i]
    OBVIOUS
  <2>2. p >= 1 /\ p < g[i] <=> (p >= 1 /\ p < f[i]) \/ (i = top /\ p = f[top])
    BY <2>1, <1>3
  <2>3. <<i, p>> = <<top, f[top]>> <=> i = top /\ p = f[top]
    OBVIOUS
  <2> QED
    BY <1>1, <2>2, <2>3
<1>5. <<top, f[top]>> \notin Before(D, f)
  BY <1>1, <1>3
<1> QED
  BY <1>2, <1>3, <1>4, <1>5

MergeOK(sources, n, m) ==
    /\ m = [pos |-> m.pos, out |-> m.out]
    /\ m.pos \in [DOMAIN sources -> Nat]
    /\ \A i \in DOMAIN sources : 1 <= m.pos[i] /\ m.pos[i] <= Len(sources[i]) + 1
    /\ Sorted(m.out) /\ Len(m.out) <= n
    /\ \A i \in DOMAIN sources, p \in Nat :
          /\ 1 <= p /\ p < m.pos[i] => sources[i][p] \in ToSet(m.out)
          /\ m.pos[i] <= p /\ p <= Len(sources[i]) =>
                \A j \in DOMAIN m.out : m.out[j] >= sources[i][p]

Over(sources, n, m) ==
    (\A i \in DOMAIN sources : m.pos[i] = Len(sources[i]) + 1) \/ Len(m.out) = n

LEMMA AppendSorted ==
  ASSUME NEW s, Sorted(s), NEW v \in Videos, \A j \in DOMAIN s : s[j] > v
  PROVE  /\ Sorted(Append(s, v)) /\ Len(Append(s, v)) = Len(s) + 1
         /\ ToSet(Append(s, v)) = ToSet(s) \cup {v}
<1> DEFINE t == Append(s, v)
<1>1. /\ t \in Seq(Videos) /\ Len(t) = Len(s) + 1 /\ Len(s) \in Nat
      /\ DOMAIN t = 1..(Len(s) + 1) /\ DOMAIN s = 1..Len(s)
      /\ \A i \in DOMAIN s : t[i] = s[i]
      /\ t[Len(s) + 1] = v
      /\ \A i \in DOMAIN t : i \in DOMAIN s \/ i = Len(s) + 1
  BY DEF Sorted
<1> HIDE DEF t
<1>2. Descending(t)
  BY <1>1 DEF Sorted, Descending
<1>3. ToSet(t) = ToSet(s) \cup {v}
  <2>1. DOMAIN s \subseteq DOMAIN t /\ Len(s) + 1 \in DOMAIN t
    BY <1>1
  <2> QED
    BY <1>1, <2>1 DEF ToSet
<1> QED
  BY <1>1, <1>2, <1>3 DEF t, Sorted

LEMMA StepMerges ==
  ASSUME NEW n \in Nat, NEW sources, Sources(sources, n),
         NEW m, MergeOK(sources, n, m)
  PROVE  /\ MergeOK(sources, n, MergeStep(sources, n, m))
         /\ Over(sources, n, m) => MergeStep(sources, n, m) = m
         /\ ~ Over(sources, n, m) =>
               \E i \in DOMAIN sources :
                  /\ m.pos[i] <= Len(sources[i])
                  /\ Taken(sources, MergeStep(sources, n, m))
                        = Taken(sources, m) \cup {<<i, m.pos[i]>>}
                  /\ <<i, m.pos[i]>> \notin Taken(sources, m)
<1> DEFINE live == {i \in DOMAIN sources : m.pos[i] <= Len(sources[i])}
           top  == CHOOSE i \in live :
                      \A j \in live : sources[i][m.pos[i]] >= sources[j][m.pos[j]]
           v    == sources[top][m.pos[top]]
           next == [pos |-> [m.pos EXCEPT ![top] = @ + 1],
                    out |-> IF v \in ToSet(m.out) THEN m.out ELSE Append(m.out, v)]
<1>0. \A i \in DOMAIN sources : Len(sources[i]) \in Nat
  BY DEF Sources, Sorted
<1>1. Over(sources, n, m) <=> live = {} \/ Len(m.out) = n
  BY <1>0 DEF Over, MergeOK
<1>2. MergeStep(sources, n, m) = IF live = {} \/ Len(m.out) = n THEN m ELSE next
  BY DEF MergeStep
<1>3. CASE Over(sources, n, m)
  BY <1>1, <1>2, <1>3
<1>4. CASE ~ Over(sources, n, m)
  <2>1. live # {} /\ Len(m.out) < n
    BY <1>1, <1>4 DEF MergeOK, Sorted
  <2>2. \A i \in live : sources[i][m.pos[i]] \in Videos
    BY <1>0 DEF Sources, Sorted, MergeOK
  <2>3. top \in live /\ \A j \in live : v >= sources[j][m.pos[j]]
    <3> DEFINE G == {MaxVideo - sources[i][m.pos[i]] : i \in live}
    <3>1. G \in SUBSET Nat /\ G # {}
      BY <2>1, <2>2, VideoAssumption DEF Videos
    <3>2. PICK k \in G : \A j \in G : k <= j
      <4> HIDE DEF G
      <4> QED
        BY <3>1, Smallest
    <3>3. \E i \in live : \A j \in live : sources[i][m.pos[i]] >= sources[j][m.pos[j]]
      <4>1. PICK i \in live : k = MaxVideo - sources[i][m.pos[i]]
        BY <3>2
      <4>2. ASSUME NEW j \in live PROVE sources[i][m.pos[i]] >= sources[j][m.pos[j]]
        <5>1. MaxVideo - sources[i][m.pos[i]] <= MaxVideo - sources[j][m.pos[j]]
          BY <3>2, <4>1
        <5> QED
          BY <5>1, <2>2, VideoAssumption DEF Videos
      <4> QED
        BY <4>2
    <3> HIDE DEF live
    <3> QED
      BY <3>3
  <2> HIDE DEF top
  <2>4. MergeStep(sources, n, m) = next
    BY <1>2, <2>1
  <2>5. /\ top \in DOMAIN sources /\ m.pos[top] \in Nat
        /\ 1 <= m.pos[top] /\ m.pos[top] <= Len(sources[top]) /\ v \in Videos
    BY <2>2, <2>3 DEF MergeOK
  <2>6. \A i \in DOMAIN sources, p \in Nat :
           m.pos[i] <= p /\ p <= Len(sources[i]) => sources[i][p] <= v
    <3> SUFFICES ASSUME NEW i \in DOMAIN sources, NEW p \in Nat,
                        m.pos[i] <= p, p <= Len(sources[i])
                 PROVE  sources[i][p] <= v
      OBVIOUS
    <3>1. /\ m.pos[i] \in Nat /\ 1 <= m.pos[i] /\ i \in live
          /\ m.pos[i] \in DOMAIN sources[i] /\ p \in DOMAIN sources[i]
          /\ sources[i][p] \in Videos /\ sources[i][m.pos[i]] \in Videos
      BY <1>0 DEF MergeOK, Sources, Sorted
    <3>2. sources[i][p] <= sources[i][m.pos[i]]
      <4>1. CASE p = m.pos[i]
        BY <3>1, <4>1, VideosAreIntegers
      <4>2. CASE m.pos[i] < p
        <5>1. Descending(sources[i])
          BY DEF Sources, Sorted
        <5>2. sources[i][m.pos[i]] > sources[i][p]
          BY <3>1, <4>2, <5>1 DEF Descending
        <5> QED
          BY <3>1, <5>2, VideosAreIntegers
      <4> QED
        BY <3>1, <4>1, <4>2
    <3>3. sources[i][m.pos[i]] <= v
      BY <2>3, <2>5, <3>1, VideosAreIntegers
    <3> QED
      BY <3>1, <3>2, <3>3, <2>5, VideosAreIntegers
  <2>7. /\ Sorted(next.out) /\ Len(next.out) <= n
        /\ ToSet(next.out) = ToSet(m.out) \cup {v}
    <3>1. CASE v \in ToSet(m.out)
      BY <3>1 DEF MergeOK
    <3>2. CASE v \notin ToSet(m.out)
      <4>1. \A j \in DOMAIN m.out : m.out[j] >= v /\ m.out[j] # v /\ m.out[j] \in Int
        BY <2>5, <3>2, VideosAreIntegers DEF MergeOK, ToSet, Sorted
      <4>2. \A j \in DOMAIN m.out : m.out[j] > v
        BY <4>1, <2>5, VideosAreIntegers
      <4>3. next.out = Append(m.out, v) /\ Sorted(m.out)
        BY <3>2 DEF MergeOK
      <4> HIDE DEF v, next
      <4> QED
        BY <2>1, <2>5, <4>2, <4>3, AppendSorted DEF Sorted
    <3> QED
      BY <3>1, <3>2
  <2>8. \A j \in DOMAIN next.out : next.out[j] >= v
    <3>1. \A u \in ToSet(m.out) : u >= v
      BY <2>5 DEF ToSet, MergeOK
    <3>2. v >= v
      BY <2>5, VideosAreIntegers
    <3>3. \A j \in DOMAIN next.out : next.out[j] \in ToSet(m.out) \cup {v}
      BY <2>7 DEF ToSet
    <3> HIDE DEF v, next
    <3> QED
      BY <3>1, <3>2, <3>3
  <2>9. /\ next = [pos |-> next.pos, out |-> next.out]
        /\ next.pos \in [DOMAIN sources -> Nat]
        /\ \A i \in DOMAIN sources : next.pos[i] = IF i = top THEN m.pos[top] + 1 ELSE m.pos[i]
    BY <2>5 DEF MergeOK
  <2> HIDE DEF next
  <2>10. MergeOK(sources, n, next)
    <3>1. \A i \in DOMAIN sources : 1 <= next.pos[i] /\ next.pos[i] <= Len(sources[i]) + 1
      BY <1>0, <2>5, <2>9 DEF MergeOK
    <3>2. ASSUME NEW i \in DOMAIN sources, NEW p \in Nat, 1 <= p, p < next.pos[i]
          PROVE  sources[i][p] \in ToSet(next.out)
      <4>1. p < m.pos[i] \/ (i = top /\ p = m.pos[top])
        BY <2>5, <2>9, <3>2 DEF MergeOK
      <4> QED
        BY <4>1, <3>2, <2>7 DEF MergeOK
    <3>3. ASSUME NEW i \in DOMAIN sources, NEW p \in Nat,
                 next.pos[i] <= p, p <= Len(sources[i]), NEW j \in DOMAIN next.out
          PROVE  next.out[j] >= sources[i][p]
      <4>1. m.pos[i] <= p /\ m.pos[i] \in Nat /\ 1 <= m.pos[i]
        BY <2>5, <2>9, <3>3 DEF MergeOK
      <4>2. sources[i][p] <= v /\ next.out[j] >= v
        BY <4>1, <3>3, <2>6, <2>8
      <4>3. sources[i][p] \in Int /\ next.out[j] \in Int /\ v \in Int
        <5>1. p \in DOMAIN sources[i] /\ sources[i] \in Seq(Videos)
          BY <4>1, <3>3, <1>0 DEF Sources, Sorted
        <5>2. next.out \in Seq(Videos)
          BY <2>7 DEF Sorted
        <5> QED
          BY <5>1, <5>2, <3>3, <2>5, VideosAreIntegers
      <4> HIDE DEF v
      <4> QED
        BY <4>2, <4>3
    <3> QED
      BY <2>7, <2>9, <3>1, <3>2, <3>3 DEF MergeOK
  <2>11. /\ Taken(sources, next) = Taken(sources, m) \cup {<<top, m.pos[top]>>}
         /\ <<top, m.pos[top]>> \notin Taken(sources, m)
    <3> DEFINE f == m.pos
               g == next.pos
               D == DOMAIN sources
    <3>1. /\ f \in [D -> Nat] /\ top \in D /\ 1 <= f[top]
          /\ \A i \in D : g[i] = IF i = top THEN f[top] + 1 ELSE f[i]
      BY <2>5, <2>9 DEF MergeOK
    <3> HIDE DEF f, g, D
    <3>2. Before(D, g) = Before(D, f) \cup {<<top, f[top]>>} /\ <<top, f[top]>> \notin Before(D, f)
      BY <3>1, OneMore
    <3> QED
      BY <3>2 DEF Taken, f, g, D
  <2> QED
    BY <1>4, <2>4, <2>5, <2>10, <2>11
<1> QED
  BY <1>3, <1>4

LEMMA TakenFits ==
  ASSUME NEW n \in Nat, NEW sources, Sources(sources, n), NEW m, MergeOK(sources, n, m)
  PROVE  /\ IsFiniteSet(Taken(sources, m))
         /\ Cardinality(Taken(sources, m)) \in Nat
         /\ Cardinality(Taken(sources, m)) <= Len(sources) * n
<1> DEFINE D == DOMAIN sources
           f == m.pos
<1>1. D = 1..Len(sources) /\ Len(sources) \in Nat
  BY DEF Sources
<1>2. \A i \in D : f[i] \in Nat /\ f[i] <= n + 1
  <2>1. \A i \in D : Len(sources[i]) \in Nat /\ Len(sources[i]) <= n
    BY DEF Sources, Sorted
  <2> QED
    BY <2>1 DEF MergeOK
<1>3. IsFiniteSet(D) /\ IsFiniteSet(1..n) /\ Cardinality(D) = Len(sources) /\ Cardinality(1..n) = n
  <2>1. ASSUME NEW k \in Nat PROVE IsFiniteSet(1..k) /\ Cardinality(1..k) = k
    <3>1. Cardinality(1..k) = IF 1 > k THEN 0 ELSE k - 1 + 1
      BY FS_Interval
    <3> QED
      BY <3>1, FS_Interval
  <2> HIDE DEF D
  <2> QED
    BY <1>1, <2>1
<1> HIDE DEF D, f
<1>4. IsFiniteSet(D \X (1..n)) /\ Cardinality(D \X (1..n)) = Len(sources) * n
  BY <1>3, FS_Product
<1>5. Before(D, f) \subseteq D \X (1..n)
  <2> SUFFICES ASSUME NEW i \in D, NEW p \in Nat, <<i, p>> \in Before(D, f) PROVE p \in 1..n
    BY DEF Before
  <2>1. p >= 1 /\ p < f[i]
    BY DEF Before
  <2> QED
    BY <1>2, <2>1
<1>6. /\ IsFiniteSet(Before(D, f)) /\ Cardinality(Before(D, f)) \in Nat
      /\ Cardinality(Before(D, f)) <= Cardinality(D \X (1..n))
  BY <1>4, <1>5, FS_Subset, FS_CardinalityType
<1> QED
  BY <1>4, <1>6 DEF Taken, D, f

LEMMA LoopMerges ==
  ASSUME NEW n \in Nat, NEW sources, Sources(sources, n),
         NEW last \in Nat, NEW f, f = Loop(sources, n, last, f)
  PROVE  \A k \in 0..last :
            /\ MergeOK(sources, n, f[k])
            /\ Over(sources, n, f[k]) \/ Cardinality(Taken(sources, f[k])) = k
<1> DEFINE Good(k) ==
             /\ MergeOK(sources, n, f[k])
             /\ Over(sources, n, f[k]) \/ Cardinality(Taken(sources, f[k])) = k
           F == {k \in 0..last : ~ Good(k)}
<1> SUFFICES ASSUME F # {} PROVE FALSE
  OBVIOUS
<1>1. PICK k \in F : \A j \in F : k <= j
  <2>1. F \in SUBSET Nat
    OBVIOUS
  <2> HIDE DEF F
  <2> QED
    BY <2>1, Smallest
<1>2. k \in 0..last /\ ~ Good(k)
  BY <1>1
<1>3. f[k] = IF k = 0 THEN [pos |-> [i \in DOMAIN sources |-> 1], out |-> <<>>]
             ELSE MergeStep(sources, n, f[k - 1])
  BY <1>2 DEF Loop
<1>4. CASE k = 0
  <2> DEFINE m == f[k]
  <2>1. m = [pos |-> [i \in DOMAIN sources |-> 1], out |-> <<>>]
    BY <1>3, <1>4
  <2> HIDE DEF m
  <2>2. Sorted(<<>>) /\ Len(<<>>) = 0 /\ DOMAIN <<>> = {}
    BY DEF Sorted, Descending
  <2>3. \A i \in DOMAIN sources : Len(sources[i]) \in Nat
    BY DEF Sources, Sorted
  <2>4. MergeOK(sources, n, m)
    BY <2>1, <2>2, <2>3 DEF MergeOK
  <2>5. Taken(sources, m) = {}
    <3>1. \A i \in DOMAIN sources : m.pos[i] = 1
      BY <2>1
    <3> QED
      BY <3>1 DEF Taken, Before
  <2>6. Cardinality(Taken(sources, m)) = 0
    BY <2>5, FS_EmptySet
  <2> QED
    BY <1>2, <1>4, <2>4, <2>6 DEF m
<1>5. CASE k # 0
  <2> DEFINE m == f[k - 1]
             t == f[k]
  <2>1. k - 1 \in 0..last /\ k \in Nat /\ ~ (k <= k - 1)
    BY <1>2, <1>5
  <2>2. Good(k - 1)
    BY <1>1, <2>1
  <2>3. t = MergeStep(sources, n, m)
    BY <1>3, <1>5
  <2>4. MergeOK(sources, n, m) /\ (Over(sources, n, m) \/ Cardinality(Taken(sources, m)) = k - 1)
    BY <2>2
  <2> HIDE DEF m, t, Good
  <2>5. MergeOK(sources, n, t)
    BY <2>3, <2>4, StepMerges
  <2>6. CASE Over(sources, n, m)
    <3>1. t = m
      BY <2>3, <2>4, <2>6, StepMerges
    <3> QED
      BY <1>2, <2>5, <2>6, <3>1 DEF Good, t
  <2>7. CASE ~ Over(sources, n, m)
    <3>1. PICK e : Taken(sources, t) = Taken(sources, m) \cup {e} /\ e \notin Taken(sources, m)
      BY <2>3, <2>4, <2>7, StepMerges
    <3>2. IsFiniteSet(Taken(sources, m))
      BY <2>4, TakenFits
    <3>3. Cardinality(Taken(sources, t)) = k
      <4>1. Cardinality(Taken(sources, t)) = Cardinality(Taken(sources, m)) + 1
        BY <3>1, <3>2, FS_AddElement
      <4> QED
        BY <2>1, <2>4, <2>7, <4>1
    <3> QED
      BY <1>2, <2>5, <3>3 DEF Good, t
  <2> QED
    BY <2>6, <2>7
<1> QED
  BY <1>4, <1>5

\* The page merged from sources that each reach down to their end, or have n
\* entries, does so too.
LEMMA MergeReaches ==
  ASSUME NEW n \in Nat, NEW sources, Sources(sources, n)
  PROVE  /\ Sorted(Merge(sources, n)) /\ Len(Merge(sources, n)) <= n
         /\ \A v \in Videos :
               (\E i \in DOMAIN sources : Reaches(sources[i], n, v))
                  => Reaches(Merge(sources, n), n, v)
<1> DEFINE last == Len(sources) * n
           f == CHOOSE f : f = Loop(sources, n, last, f)
           m == f[last]
<1>1. Merge(sources, n) = m.out
  BY DEF Merge, Loop
<1>2. last \in Nat
  BY DEF Sources
<1> HIDE DEF last
<1>3. f = Loop(sources, n, last, f)
  BY <1>2, LoopRuns
<1> HIDE DEF f
<1>4. MergeOK(sources, n, m) /\ (Over(sources, n, m) \/ Cardinality(Taken(sources, m)) = last)
  BY <1>2, <1>3, LoopMerges
<1> HIDE DEF m
<1>5. Over(sources, n, m)
  <2> SUFFICES ASSUME ~ Over(sources, n, m) PROVE FALSE
    OBVIOUS
  <2> DEFINE t == MergeStep(sources, n, m)
  <2>1. PICK e : Taken(sources, t) = Taken(sources, m) \cup {e} /\ e \notin Taken(sources, m)
    BY <1>4, StepMerges
  <2>2. MergeOK(sources, n, t)
    BY <1>4, StepMerges
  <2> HIDE DEF t
  <2>3. IsFiniteSet(Taken(sources, m)) /\ Cardinality(Taken(sources, t)) <= last
    BY <1>4, <2>2, TakenFits DEF last
  <2>4. Cardinality(Taken(sources, t)) = last + 1
    BY <1>4, <2>1, <2>3, FS_AddElement
  <2> QED
    BY <1>2, <2>3, <2>4
<1>6. ASSUME NEW v \in Videos, NEW i \in DOMAIN sources, Reaches(sources[i], n, v)
      PROVE  Reaches(m.out, n, v)
  <2> DEFINE s == sources[i]
             o == m.out
  <2>1. /\ Sorted(s) /\ Len(s) <= n /\ Len(s) \in Nat /\ DOMAIN s = 1..Len(s)
        /\ \A p \in DOMAIN s : s[p] \in Int
    BY VideosAreIntegers DEF Sources, Sorted
  <2>2. /\ Sorted(o) /\ Len(o) \in Nat /\ Len(o) <= n /\ v \in Int
        /\ \A j \in DOMAIN o : o[j] \in Int
    BY <1>4, VideosAreIntegers DEF MergeOK, Sorted
  <2>3. \A p \in DOMAIN s : s[p] \in ToSet(o) \/ \A j \in DOMAIN o : o[j] >= s[p]
    <3> SUFFICES ASSUME NEW p \in DOMAIN s
                 PROVE  s[p] \in ToSet(o) \/ \A j \in DOMAIN o : o[j] >= s[p]
      OBVIOUS
    <3>1. p \in Nat /\ 1 <= p /\ p <= Len(s) /\ m.pos[i] \in Nat
      BY <1>4, <2>1 DEF MergeOK
    <3> QED
      BY <1>4, <3>1 DEF MergeOK
  <2>4. ToSet(s) \subseteq ToSet(o) \/ Len(o) = n
    <3>1. CASE Len(o) = n
      BY <3>1
    <3>2. CASE \A k \in DOMAIN sources : m.pos[k] = Len(sources[k]) + 1
      <4>1. \A p \in DOMAIN s : p \in Nat /\ 1 <= p /\ p < m.pos[i]
        BY <2>1, <3>2
      <4> QED
        BY <1>4, <4>1 DEF MergeOK, ToSet
    <3> QED
      BY <1>5, <3>1, <3>2 DEF Over
  <2> HIDE DEF o, s
  <2>5. CASE v \in ToSet(s)
    <3>1. PICK p \in DOMAIN s : v = s[p]
      BY <2>5 DEF ToSet
    <3>2. CASE v \in ToSet(o)
      BY <3>2 DEF Reaches, o
    <3>3. CASE v \notin ToSet(o)
      <4>1. Len(o) = n /\ \A j \in DOMAIN o : o[j] >= v /\ o[j] # v
        BY <2>3, <2>4, <2>5, <3>1, <3>3 DEF ToSet
      <4>2. \A j \in DOMAIN o : o[j] > v
        BY <4>1, <2>2
      <4> QED
        BY <4>1, <4>2 DEF Reaches, o
    <3> QED
      BY <3>2, <3>3
  <2>6. CASE v \notin ToSet(s)
    <3>1. Len(s) = n /\ \A p \in DOMAIN s : s[p] > v
      BY <1>6, <2>6 DEF Reaches, s
    <3>2. CASE ToSet(s) \subseteq ToSet(o)
      <4>1. /\ ToSet(o) \in SUBSET Videos /\ Cardinality(ToSet(o)) = Len(o)
            /\ Cardinality(ToSet(s)) = n
        BY <2>1, <2>2, <3>1, SortedCount
      <4>2. Cardinality(ToSet(s)) <= Cardinality(ToSet(o))
            /\ (Cardinality(ToSet(s)) = Cardinality(ToSet(o)) => ToSet(s) = ToSet(o))
        BY <3>2, <4>1, SmallerSet
      <4>3. Len(o) = n /\ ToSet(s) = ToSet(o)
        BY <2>2, <4>1, <4>2
      <4>4. \A u \in ToSet(s) : u > v
        BY <3>1 DEF ToSet
      <4> QED
        BY <4>3, <4>4 DEF Reaches, ToSet, o
    <3>3. CASE ~ (ToSet(s) \subseteq ToSet(o))
      <4>1. PICK p \in DOMAIN s : s[p] \notin ToSet(o)
        BY <3>3 DEF ToSet
      <4>2. \A j \in DOMAIN o : o[j] >= s[p] /\ s[p] > v
        BY <2>3, <3>1, <4>1
      <4>3. \A j \in DOMAIN o : o[j] > v
        BY <2>1, <2>2, <4>2
      <4> QED
        BY <2>4, <3>3, <4>3 DEF Reaches, o
    <3> QED
      BY <3>2, <3>3
  <2> QED
    BY <2>5, <2>6
<1> QED
  BY <1>1, <1>4, <1>6 DEF MergeOK

-----------------------------------------------------------------------------
(***************************************************************************)
(* A page owes announced videos only; each of them is of the authors of a  *)
(* source still to read, or some rows that were given have it or are full  *)
(* before they come to it.                                                 *)
(***************************************************************************)
Asked(k) == IF k = Inbox THEN page.normal ELSE {k}

Given(v) == \E i \in DOMAIN page.rows : Reaches(page.rows[i], Limit + 1, v)

PageInv ==
    /\ page.cursor \in 0..MaxVideo
    /\ page.unseen = {}
    /\ Sources(page.rows, Limit + 1)
    /\ page.owed \subseteq Below(stored, page.cursor) \ queue
    /\ page.pc = "classify" => /\ page.rows = <<>>
                               /\ \A v \in page.owed : AuthorOf[v] \in page.authors
    /\ Reading => \A v \in page.owed :
                     Given(v) \/ \E k \in page.todo : AuthorOf[v] \in Asked(k)

SizesOK ==
    /\ \A k \in Keys : Cardinality(index[k]) <= Capacity
    /\ changes + faults <= MaxUpsets

LEMMA FrontIs ==
  ASSUME NEW s \in Seq(Videos), NEW k \in Nat, k <= Len(s)
  PROVE  DOMAIN SubSeq(s, 1, k) = 1..k /\ \A i \in 1..k : SubSeq(s, 1, k)[i] = s[i]
OBVIOUS

LEMMA AnswerComplete ==
  ASSUME NEW p, NEW rows, Sorted(rows), Len(rows) <= Limit + 1,
         p.owed \subseteq Videos,
         \A v \in p.owed : Reaches(rows, Limit + 1, v)
  PROVE  Answer(p, rows) = NoPage
<1> DEFINE c     == IF Len(rows) < Limit THEN Len(rows) ELSE Limit
           shown == SubSeq(rows, 1, c)
           older == {v \in Videos : Len(rows) > Limit /\ v < shown[Limit]}
           wrong == {shown[j] : j \in {j \in DOMAIN shown :
                                          \E i \in 1..(j - 1) : shown[i] <= shown[j]}}
           lost  == (p.owed \ (ToSet(shown) \cup older)) \cup wrong
<1>1. Answer(p, rows) = [NoPage EXCEPT !.unseen = lost]
  BY DEF Answer
<1>2. /\ Len(rows) \in Nat /\ DOMAIN rows = 1..Len(rows) /\ Limit \in Nat /\ 1 <= Limit
      /\ c \in Nat /\ c <= Len(rows) /\ c <= Limit
      /\ Len(rows) > c => c = Limit /\ Len(rows) = Limit + 1
      /\ \A i \in DOMAIN rows : rows[i] \in Videos /\ rows[i] \in Int
  BY LimitAssumption, VideosAreIntegers DEF Sorted
<1>3. /\ DOMAIN shown = 1..c /\ \A i \in 1..c : shown[i] = rows[i]
  BY <1>2, FrontIs DEF Sorted
<1> HIDE DEF shown, c
<1>4. wrong = {}
  <2> SUFFICES ASSUME NEW j \in DOMAIN shown, NEW i \in 1..(j - 1), shown[i] <= shown[j]
               PROVE  FALSE
    OBVIOUS
  <2>1. i \in 1..c /\ j \in 1..c /\ i < j /\ i \in DOMAIN rows /\ j \in DOMAIN rows
    <3>1. j \in 1..c /\ c \in Nat /\ Len(rows) \in Nat /\ c <= Len(rows)
      BY <1>2, <1>3
    <3>2. i \in 1..c /\ i < j
      BY <3>1
    <3>3. i \in 1..Len(rows) /\ j \in 1..Len(rows)
      BY <3>1, <3>2
    <3> QED
      BY <1>2, <3>1, <3>2, <3>3
  <2>2. rows[i] > rows[j]
    BY <2>1 DEF Sorted, Descending
  <2>3. rows[i] <= rows[j] /\ rows[i] \in Int /\ rows[j] \in Int
    BY <1>2, <1>3, <2>1
  <2> QED
    BY <2>2, <2>3
<1>5. ASSUME NEW v \in p.owed, v \notin ToSet(shown) PROVE v \in older
  <2>1. v \in Int /\ v \in Videos
    BY VideosAreIntegers
  <2>2. \A i \in 1..c : rows[i] # v
    BY <1>3, <1>5 DEF ToSet
  <2>3. Len(rows) = Limit + 1 /\ c = Limit /\ rows[Limit] > v
    <3>1. CASE v \in ToSet(rows)
      <4>1. PICK i \in DOMAIN rows : rows[i] = v
        BY <3>1 DEF ToSet
      <4>2. i > c
        <5>1. i \in 1..Len(rows) /\ Len(rows) \in Nat /\ c \in Nat /\ i \notin 1..c
          BY <1>2, <2>2, <4>1
        <5> QED
          BY <5>1
      <4>3. i = Limit + 1 /\ c = Limit /\ Len(rows) = Limit + 1 /\ Limit \in DOMAIN rows
        <5>1. i \in 1..Len(rows) /\ Len(rows) \in Nat /\ c \in Nat
          BY <1>2
        <5>2. Len(rows) > c
          BY <4>2, <5>1
        <5>3. c = Limit /\ Len(rows) = Limit + 1 /\ Limit \in Nat /\ 1 <= Limit
          BY <1>2, <5>2
        <5>4. i = Limit + 1 /\ Limit \in 1..Len(rows)
          BY <4>2, <5>1, <5>3
        <5> QED
          BY <1>2, <5>3, <5>4
      <4>4. rows[Limit] > rows[i]
        BY <1>2, <4>3 DEF Sorted, Descending
      <4> QED
        BY <4>1, <4>3, <4>4
    <3>2. CASE v \notin ToSet(rows)
      <4>1. Len(rows) = Limit + 1 /\ \A i \in DOMAIN rows : rows[i] > v
        BY <3>2 DEF Reaches
      <4> QED
        BY <1>2, <4>1
    <3> QED
      BY <3>1, <3>2
  <2>4. shown[Limit] = rows[Limit] /\ Limit \in DOMAIN rows
    BY <1>2, <1>3, <2>3
  <2>5. v < shown[Limit]
    BY <1>2, <2>1, <2>3, <2>4
  <2> QED
    BY <1>2, <2>1, <2>3, <2>5
<1>6. lost = {}
  <2> HIDE DEF wrong, older
  <2> QED
    BY <1>4, <1>5
<1> HIDE DEF lost
<1> QED
  BY <1>1, <1>6 DEF NoPage

LEMMA IdlePageInv == page' = NoPage => PageInv'
<1> SUFFICES ASSUME page' = NoPage PROVE PageInv'
  OBVIOUS
<1>1. Sources(<<>>, Limit + 1)
  BY DEF Sources
<1> QED
  BY <1>1, VideoAssumption DEF NoPage, PageInv, Reading

LEMMA SourceIsAsked ==
  ASSUME PageTypeOK, Reading
  PROVE  SourceAuthors = Asked(Source)
BY DEF SourceAuthors, Asked

\* What the source that is read owes, its rows have or are full before.
LEMMA GivesComplete ==
  ASSUME IndexTypeOK, PageTypeOK, PageInv, Reading, stored' = stored, queue' = queue,
         NEW o \in SUBSET page.owed, NEW rows,
         Sorted(rows), Len(rows) <= Limit + 1,
         \A v \in o : AuthorOf[v] \in SourceAuthors => Reaches(rows, Limit + 1, v),
         page' = Gives([page EXCEPT !.owed = o], rows)
  PROVE  PageInv'
<1> DEFINE p   == [page EXCEPT !.owed = o]
           all == Append(page.rows, rows)
<1>1. p = [pc |-> page.pc, cursor |-> page.cursor, authors |-> page.authors,
           normal |-> page.normal, todo |-> page.todo, rows |-> page.rows,
           owed |-> o, unseen |-> page.unseen]
  BY DEF PageTypeOK
<1>2. page' = Gives(p, rows)
  OBVIOUS
<1> HIDE DEF p
<1>3. /\ page.rows \in Seq(Seq(Videos)) /\ Len(page.rows) \in Nat
      /\ DOMAIN page.rows = 1..Len(page.rows)
      /\ \A i \in DOMAIN page.rows : Sorted(page.rows[i]) /\ Len(page.rows[i]) <= Limit + 1
      /\ rows \in Seq(Videos)
  BY DEF PageInv, Sources, Sorted
<1>4. /\ all \in Seq(Seq(Videos))
      /\ DOMAIN all = 1..(Len(page.rows) + 1)
      /\ \A i \in DOMAIN page.rows : i \in DOMAIN all /\ all[i] = page.rows[i]
      /\ Len(page.rows) + 1 \in DOMAIN all /\ all[Len(page.rows) + 1] = rows
      /\ \A i \in DOMAIN all : i \in DOMAIN page.rows \/ i = Len(page.rows) + 1
  BY <1>3
<1>5. all = Append(p.rows, rows)
  BY <1>1
<1> HIDE DEF all
<1>6. Sources(all, Limit + 1)
  BY <1>3, <1>4 DEF Sources
<1>7. ASSUME NEW v \in o
      PROVE  \/ \E i \in DOMAIN all : Reaches(all[i], Limit + 1, v)
             \/ \E k \in page.todo \ {Source} : AuthorOf[v] \in Asked(k)
  <2>1. CASE Given(v)
    BY <1>4, <2>1 DEF Given
  <2>2. CASE \E k \in page.todo : AuthorOf[v] \in Asked(k)
    <3>1. PICK k \in page.todo : AuthorOf[v] \in Asked(k)
      BY <2>2
    <3>2. CASE k = Source
      BY <1>4, <3>1, <3>2, SourceIsAsked
    <3>3. CASE k # Source
      BY <3>1, <3>3
    <3> QED
      BY <3>2, <3>3
  <2> QED
    BY <2>1, <2>2 DEF PageInv
<1>8. CASE page.todo = {Source}
  <2>1. page' = Answer(p, Merge(all, Limit + 1))
    BY <1>1, <1>2, <1>5, <1>8 DEF Gives
  <2>2. p.owed = o /\ o \subseteq Videos
    BY <1>1 DEF PageInv, Below, IndexTypeOK
  <2>3. Limit + 1 \in Nat
    BY LimitAssumption
  <2>4. /\ Sorted(Merge(all, Limit + 1)) /\ Len(Merge(all, Limit + 1)) <= Limit + 1
        /\ \A v \in o : Reaches(Merge(all, Limit + 1), Limit + 1, v)
    BY <1>6, <1>7, <1>8, <2>2, <2>3, MergeReaches
  <2>5. Answer(p, Merge(all, Limit + 1)) = NoPage
    BY <2>2, <2>4, AnswerComplete
  <2> QED
    BY <2>1, <2>5, IdlePageInv
<1>9. CASE page.todo # {Source}
  <2>1. page' = [p EXCEPT !.pc = "read", !.todo = @ \ {Source}, !.rows = all]
    BY <1>1, <1>2, <1>5, <1>9 DEF Gives
  <2>2. page' = [pc |-> "read", cursor |-> page.cursor, authors |-> page.authors,
                 normal |-> page.normal, todo |-> page.todo \ {Source},
                 rows |-> all, owed |-> o, unseen |-> page.unseen]
    BY <1>1, <2>1
  <2>3. \A k : Asked(k)' = Asked(k)
    BY <2>2 DEF Asked
  <2>4. \A v \in o : Given(v)' \/ \E k \in page'.todo : AuthorOf[v] \in Asked(k)'
    BY <1>7, <2>2, <2>3 DEF Given
  <2>5. /\ page'.cursor = page.cursor /\ page'.unseen = page.unseen /\ page'.rows = all
        /\ page'.owed = o /\ page'.pc = "read"
    BY <2>2
  <2> QED
    BY <1>6, <2>4, <2>5 DEF PageInv, Below
<1> QED
  BY <1>8, <1>9

\* The database gives what it has below the cursor, newest first.
LEMMA RowsReach ==
  ASSUME NEW authors, stored \subseteq Videos
  PROVE  /\ Sorted(Rows(authors)) /\ Len(Rows(authors)) <= Limit + 1
         /\ \A v \in Below(VideosOf(authors), page.cursor) : Reaches(Rows(authors), Limit + 1, v)
<1> DEFINE S == Below(VideosOf(authors), page.cursor)
           n == Limit + 1
<1>1. S \in SUBSET Videos /\ n \in Nat
  BY LimitAssumption DEF VideosOf, Below
<1>2. Rows(authors) = InOrder(Newest(S, n))
  BY DEF Rows
<1> HIDE DEF S, n
<1>3. /\ Sorted(Rows(authors)) /\ Len(Rows(authors)) <= n
      /\ \A v \in S : Reaches(Rows(authors), n, v)
  BY <1>1, <1>2, NewestReaches
<1> QED
  BY <1>3 DEF S, n

\* An index that is ready and gives enough members that are videos of its
\* authors gives those it should.
LEMMA IndexReaches ==
  ASSUME IndexTypeOK, SizesOK, MarkersOK, NEW k \in Keys, NEW cursor,
         NEW valid, valid \subseteq Newest(Below(index[k], cursor), Limit + 1),
         ~ Short(valid)
  PROVE  /\ Sorted(InOrder(valid)) /\ Len(InOrder(valid)) <= Limit + 1
         /\ \A v \in Below(VideosOf(marker[k]), cursor) \ (queue \cup missed[k]) :
               Reaches(InOrder(valid), Limit + 1, v)
<1> DEFINE S == Below(index[k], cursor)
           n == Limit + 1
           members == Newest(S, n)
<1>1. index[k] \in SUBSET Videos /\ S \in SUBSET Videos /\ S \subseteq index[k] /\ n \in Nat
  BY LimitAssumption DEF IndexTypeOK, Below
<1>2. members \in SUBSET Videos /\ members \subseteq S
  BY <1>1 DEF Newest
<1>3. Cardinality(members) <= n /\ valid \in SUBSET members
  BY <1>1, NewestCount
<1>4. Cardinality(valid) >= n
  <2>1. Cardinality(valid) \in Nat
    BY <1>2, <1>3, VideosFinite
  <2> HIDE DEF members
  <2> QED
    BY <1>1, <2>1 DEF Short
<1> HIDE DEF members, S, n
<1>5. valid = members /\ Cardinality(members) = n
  BY <1>1, <1>2, <1>3, <1>4, SmallerSet, VideosFinite
<1>6. /\ Sorted(InOrder(valid)) /\ Len(InOrder(valid)) = n /\ ToSet(InOrder(valid)) = members
  BY <1>2, <1>5, InOrderIs
<1>7. ASSUME NEW v \in Below(VideosOf(marker[k]), cursor), v \notin queue, v \notin missed[k]
      PROVE  Reaches(InOrder(valid), n, v)
  <2>1. v \in Videos /\ v \in VideosOf(marker[k]) /\ (cursor = 0 \/ v < cursor)
    BY DEF Below, VideosOf, IndexTypeOK
  <2>2. InTop(index[k], v)
    BY <2>1, <1>7 DEF MarkersOK, Known
  <2>3. CASE v \in index[k]
    <3>1. v \in S
      BY <2>1, <2>3 DEF Below, S
    <3> QED
      BY <1>1, <1>5, <3>1, NewestReaches DEF members
  <2>4. CASE v \notin index[k]
    <3>1. Cardinality(Later(index[k], v)) >= Capacity /\ Later(index[k], v) \in SUBSET index[k]
      BY <2>2, <2>4 DEF InTop, Later
    <3>2. Later(index[k], v) = index[k]
      <4>1. Cardinality(index[k]) <= Capacity
        BY DEF SizesOK
      <4>2. /\ Cardinality(Later(index[k], v)) \in Nat /\ Cardinality(index[k]) \in Nat
            /\ Capacity \in Nat
        BY <1>1, <3>1, VideosFinite, CapacityAssumption
      <4> QED
        BY <1>1, <3>1, <4>1, <4>2, SmallerSet
    <3>3. \A u \in members : u > v
      BY <1>1, <1>2, <3>2 DEF Later
    <3>4. \A i \in DOMAIN InOrder(valid) : InOrder(valid)[i] > v
      BY <1>6, <3>3 DEF ToSet
    <3> QED
      BY <1>6, <3>4 DEF Reaches
  <2> QED
    BY <2>3, <2>4
<1>8. Len(InOrder(valid)) <= n
  BY <1>1, <1>6
<1> QED
  BY <1>6, <1>7, <1>8 DEF n

LEMMA ClassifyComplete ==
  ASSUME IndexTypeOK, PageTypeOK, PageInv, Classify
  PROVE  PageInv'
<1> DEFINE stars == page.authors \cap big
           o     == page.owed \cap VideosOf(follows)
           p     == [page EXCEPT !.owed = o]
<1>1. /\ page.pc = "classify" /\ page.rows = <<>> /\ ~ Reading
      /\ \A v \in page.owed : AuthorOf[v] \in page.authors
      /\ stored' = stored /\ queue' = queue /\ stored \subseteq Videos
  BY DEF Classify, Others, PageInv, IndexTypeOK, Reading
<1>2. CASE Cardinality(stars) > MaxPullSources
  <2>1. page' = Answer(p, Rows(follows))
    BY <1>2 DEF Classify
  <2>2. p = [pc |-> page.pc, cursor |-> page.cursor, authors |-> page.authors,
             normal |-> page.normal, todo |-> page.todo, rows |-> page.rows,
             owed |-> o, unseen |-> page.unseen]
    BY DEF PageTypeOK
  <2>3. p.owed = o
    BY <2>2
  <2> HIDE DEF p
  <2>4. o \subseteq Below(VideosOf(follows), page.cursor) /\ o \subseteq Videos
    BY <1>1 DEF PageInv, Below
  <2> HIDE DEF o
  <2>5. Answer(p, Rows(follows)) = NoPage
    BY <1>1, <2>3, <2>4, RowsReach, AnswerComplete
  <2> QED
    BY <2>1, <2>5, IdlePageInv
<1>3. CASE ~ (Cardinality(stars) > MaxPullSources)
  <2>1. page' = [page EXCEPT !.pc = "read", !.normal = page.authors \ stars,
                             !.todo = stars \cup (IF stars = page.authors THEN {} ELSE {Inbox})]
    BY <1>3 DEF Classify
  <2> HIDE DEF stars
  <2>2. page' = [pc |-> "read", cursor |-> page.cursor, authors |-> page.authors,
                 normal |-> page.authors \ stars,
                 todo |-> stars \cup (IF stars = page.authors THEN {} ELSE {Inbox}),
                 rows |-> page.rows, owed |-> page.owed, unseen |-> page.unseen]
    BY <2>1 DEF PageTypeOK
  <2>3. ASSUME NEW v \in page.owed
        PROVE  \E k \in page'.todo : AuthorOf[v] \in Asked(k)'
    <3>1. AuthorOf[v] \in page.authors /\ page.authors \subseteq Authors
      BY <1>1 DEF PageTypeOK
    <3>2. CASE AuthorOf[v] \in stars
      <4>1. AuthorOf[v] \in page'.todo /\ AuthorOf[v] # Inbox
        BY <2>2, <3>1, <3>2, KeyAssumption
      <4> QED
        BY <4>1 DEF Asked
    <3>3. CASE AuthorOf[v] \notin stars
      <4>1. Inbox \in page'.todo /\ AuthorOf[v] \in page'.normal
        BY <2>2, <3>1, <3>3
      <4> QED
        BY <4>1 DEF Asked
    <3> QED
      BY <3>2, <3>3
  <2>4. /\ page'.cursor = page.cursor /\ page'.unseen = page.unseen /\ page'.rows = page.rows
        /\ page'.owed = page.owed /\ page'.pc = "read"
    BY <2>2
  <2> QED
    BY <1>1, <2>3, <2>4 DEF PageInv, Below
<1> QED
  BY <1>2, <1>3

LEMMA AskComplete ==
  ASSUME IndexTypeOK, NEW cursor \in Cursors, Ask(cursor)
  PROVE  PageInv'
<1> DEFINE o == Below(VideosOf(follows) \ queue, cursor)
<1>1. page' = [NoPage EXCEPT !.pc = "classify", !.cursor = cursor,
                             !.authors = follows, !.owed = o]
  BY DEF Ask
<1>2. page' = [pc |-> "classify", cursor |-> cursor, authors |-> follows, normal |-> {},
               todo |-> {}, rows |-> <<>>, owed |-> o, unseen |-> {}]
  BY <1>1 DEF NoPage
<1>3. cursor \in 0..MaxVideo
  BY VideoAssumption DEF Cursors, VideosOf, Videos, IndexTypeOK
<1>4. o \subseteq Below(stored, cursor) \ queue /\ \A v \in o : AuthorOf[v] \in follows
  BY DEF Below, VideosOf
<1>5. stored' = stored /\ queue' = queue
  BY DEF Ask, Others
<1>6. Sources(<<>>, Limit + 1)
  BY DEF Sources
<1> HIDE DEF o
<1> QED
  BY <1>2, <1>3, <1>4, <1>5, <1>6 DEF PageInv, Reading, Below

LEMMA QuerySourceComplete ==
  ASSUME IndexTypeOK, PageTypeOK, PageInv, QuerySource
  PROVE  PageInv'
<1>1. Reading /\ stored' = stored /\ queue' = queue /\ stored \subseteq Videos
  BY DEF QuerySource, Others, Reading, IndexTypeOK
<1>2. page' = Gives([page EXCEPT !.owed = page.owed], Rows(SourceAuthors))
  <2>1. page = [page EXCEPT !.owed = page.owed]
    BY DEF PageTypeOK
  <2>2. page' = Gives(page, Rows(SourceAuthors))
    BY DEF QuerySource
  <2> QED
    BY <2>1, <2>2
<1>3. \A v \in page.owed : AuthorOf[v] \in SourceAuthors
                              => v \in Below(VideosOf(SourceAuthors), page.cursor)
  BY DEF PageInv, Below, VideosOf
<1>4. \A v \in page.owed : AuthorOf[v] \in SourceAuthors
                              => Reaches(Rows(SourceAuthors), Limit + 1, v)
  BY <1>1, <1>3, RowsReach
<1> QED
  BY <1>1, <1>2, <1>4, RowsReach, GivesComplete

LEMMA SameRowsComplete ==
  ASSUME PageTypeOK, PageInv, Reading, NEW at \in {"query", "rebuild"},
         page' = [page EXCEPT !.pc = at], stored' = stored, queue' = queue
  PROVE  PageInv'
<1>1. page' = [pc |-> at, cursor |-> page.cursor, authors |-> page.authors,
               normal |-> page.normal, todo |-> page.todo, rows |-> page.rows,
               owed |-> page.owed, unseen |-> page.unseen]
  BY DEF PageTypeOK
<1>2. \A k : Asked(k)' = Asked(k)
  BY <1>1 DEF Asked
<1>3. \A v : Given(v)' = Given(v)
  BY <1>1 DEF Given
<1>4. /\ page'.cursor = page.cursor /\ page'.unseen = page.unseen /\ page'.rows = page.rows
      /\ page'.owed = page.owed /\ page'.todo = page.todo /\ page'.pc # "classify"
  BY <1>1
<1> QED
  BY <1>2, <1>3, <1>4 DEF PageInv, Below

LEMMA ReadSourceComplete ==
  ASSUME IndexTypeOK, PageTypeOK, SizesOK, MarkersOK, PageInv, ReadSource
  PROVE  PageInv'
<1> DEFINE members == Newest(Below(index[Source], page.cursor), Limit + 1)
           o == page.owed \ (missed[Source] \cap VideosOf(SourceAuthors))
<1>1. Reading /\ stored' = stored /\ queue' = queue
  BY DEF ReadSource, Others, Reading
<1>2. \/ page' = [page EXCEPT !.pc = "query"]
      \/ page' = [page EXCEPT !.pc = "rebuild"]
      \/ /\ marker[Source] = SourceAuthors
         /\ ~ Short(Valid(members))
         /\ page' = Gives([page EXCEPT !.owed = o], InOrder(Valid(members)))
  BY DEF ReadSource
<1>3. CASE page' = [page EXCEPT !.pc = "query"]
  BY <1>1, <1>3, SameRowsComplete
<1>4. CASE page' = [page EXCEPT !.pc = "rebuild"]
  BY <1>1, <1>4, SameRowsComplete
<1>5. CASE /\ marker[Source] = SourceAuthors
           /\ ~ Short(Valid(members))
           /\ page' = Gives([page EXCEPT !.owed = o], InOrder(Valid(members)))
  <2> DEFINE valid == Valid(members)
             rows  == InOrder(valid)
  <2>1. valid \subseteq members
    BY DEF Valid
  <2>2. Source \in Keys
    BY <1>1, SourceIsKey
  <2>3. ~ Short(valid)
    BY <1>5
  <2> HIDE DEF valid
  <2>4. /\ Sorted(rows) /\ Len(rows) <= Limit + 1
        /\ \A v \in Below(VideosOf(marker[Source]), page.cursor) \ (queue \cup missed[Source]) :
              Reaches(rows, Limit + 1, v)
    BY <2>1, <2>2, <2>3, IndexReaches
  <2>5. \A v \in o : AuthorOf[v] \in SourceAuthors =>
           v \in Below(VideosOf(marker[Source]), page.cursor) \ (queue \cup missed[Source])
    BY <1>5 DEF PageInv, Below, VideosOf
  <2>6. o \in SUBSET page.owed
    OBVIOUS
  <2>7. page' = Gives([page EXCEPT !.owed = o], rows)
    BY <1>5 DEF valid
  <2> HIDE DEF rows, o
  <2> QED
    BY <1>1, <2>4, <2>5, <2>6, <2>7, GivesComplete
<1> QED
  BY <1>2, <1>3, <1>4, <1>5

-----------------------------------------------------------------------------
(***************************************************************************)
(* The page and the sizes of the indexes, at every step.                   *)
(***************************************************************************)
LEMMA OthersLeavePage ==
  ASSUME IndexTypeOK, PageInv, UNCHANGED page,
         stored \subseteq stored', queue' \cap stored \subseteq queue
  PROVE  PageInv'
<1>1. \A v : Given(v)' = Given(v)
  BY DEF Given
<1>2. \A k : Asked(k)' = Asked(k)
  BY DEF Asked
<1> QED
  BY <1>1, <1>2 DEF PageInv, Below, Reading

LEMMA StepPageInv ==
  ASSUME FInv, SizesOK, PageInv, [Next]_vars
  PROVE  PageInv'
<1> USE DEF FInv
<1>1. CASE \/ \E v \in Videos : Commit(v) \/ TakeEvent(v)
           \/ \E a \in Authors : Change(a)
           \/ CountFollowers \/ ReadBatch \/ AppendBatch \/ FanoutFails
           \/ \E k \in Keys : Expire(k)
           \/ \E k \in big : OthersRead(k)
           \/ LoseData
           \/ \E r \in rebuilds : Land(r)
           \/ UNCHANGED vars
  <2>1. UNCHANGED page /\ stored \subseteq stored' /\ queue' \cap stored \subseteq queue
    BY <1>1 DEF Commit, TakeEvent, Change, CountFollowers, ReadBatch, Proceed, AppendBatch,
                Acknowledge, FanoutFails, Expire, OthersRead, LoseData, Land, vars
  <2> QED
    BY <2>1, OthersLeavePage
<1>2. CASE \E cursor \in Cursors : Ask(cursor)
  BY <1>2, AskComplete
<1>3. CASE Classify
  BY <1>3, ClassifyComplete
<1>4. CASE ReadSource
  BY <1>4, ReadSourceComplete
<1>5. CASE QuerySource
  BY <1>5, QuerySourceComplete
<1>6. CASE PageFails
  BY <1>6, IdlePageInv DEF PageFails
<1> QED
  BY <1>1, <1>2, <1>3, <1>4, <1>5, <1>6 DEF Next

LEMMA StepSizes ==
  ASSUME IndexTypeOK, IndexTypeOK', SizesOK, [Next]_vars
  PROVE  SizesOK'
<1>1. changes' + faults' <= MaxUpsets
  <2>1. \/ UNCHANGED <<changes, faults>>
        \/ Fault /\ UNCHANGED changes
        \/ changes + faults < MaxUpsets /\ changes' = changes + 1 /\ UNCHANGED faults
    BY DEF Next, Commit, TakeEvent, Change, CountFollowers, ReadBatch, Proceed, AppendBatch,
           FanoutFails, Expire, OthersRead, LoseData, Land, Ask, Classify, ReadSource,
           QuerySource, PageFails, Others, vars
  <2> QED
    <3>1. /\ changes \in Nat /\ faults \in Nat /\ MaxUpsets \in Nat
          /\ changes + faults <= MaxUpsets
      BY FeedBoundAssumption DEF IndexTypeOK, SizesOK
    <3>2. CASE UNCHANGED <<changes, faults>>
      BY <3>1, <3>2
    <3>3. CASE Fault /\ UNCHANGED changes
      BY <3>1, <3>3 DEF Fault
    <3>4. CASE changes + faults < MaxUpsets /\ changes' = changes + 1 /\ UNCHANGED faults
      BY <3>1, <3>4
    <3> QED
      BY <2>1, <3>2, <3>3, <3>4
<1>2. ASSUME NEW k \in Keys, NEW S \in SUBSET Videos,
             index' = [index EXCEPT ![k] = Newest(S, Capacity)]
      PROVE  \A j \in Keys : Cardinality(index'[j]) <= Capacity
  <2> DEFINE T == Newest(S, Capacity)
  <2>1. Cardinality(T) <= Capacity
    BY NewestCount, CapacityAssumption
  <2>2. index' = [index EXCEPT ![k] = T] /\ index \in [Keys -> SUBSET stored]
    BY <1>2 DEF IndexTypeOK
  <2> HIDE DEF T
  <2>3. \A j \in Keys : index'[j] = IF j = k THEN T ELSE index[j]
    BY <2>2
  <2> QED
    BY <2>1, <2>3 DEF SizesOK
<1>3. CASE UNCHANGED index
  BY <1>1, <1>3 DEF SizesOK
<1>4. ASSUME NEW k \in Keys, NEW v \in Videos, Push(k, v)
      PROVE  \A j \in Keys : Cardinality(index'[j]) <= Capacity
  <2> DEFINE S == index[k] \cup {v}
  <2>1. S \in SUBSET Videos
    BY DEF IndexTypeOK
  <2>2. index' = [index EXCEPT ![k] = Newest(S, Capacity)]
    BY <1>4 DEF Push
  <2> HIDE DEF S
  <2> QED
    BY <1>2, <2>1, <2>2
<1>5. ASSUME NEW v \in Videos, TakeEvent(v)
      PROVE  SizesOK'
  <2>1. AuthorOf[v] \in Keys /\ Push(AuthorOf[v], v)
    BY <1>5, VideoAssumption DEF TakeEvent, Keys
  <2> QED
    BY <1>1, <1>4, <2>1 DEF SizesOK
<1>6. CASE fan # None /\ Push(Inbox, fan.video)
  <2>1. Inbox \in Keys /\ fan.video \in Videos
    BY <1>6 DEF IndexTypeOK, Keys
  <2> QED
    BY <1>1, <1>4, <1>6, <2>1 DEF SizesOK
<1>7. CASE LoseData
  <2>1. \A k \in Keys : index'[k] = {}
    BY <1>7 DEF LoseData
  <2> QED
    BY <1>1, <2>1, FS_EmptySet, CapacityAssumption DEF SizesOK
<1>8. ASSUME NEW r \in rebuilds, Land(r), ~ UNCHANGED index
      PROVE  SizesOK'
  <2> DEFINE S == index[r.key] \cup Newest(r.found, Capacity)
  <2>1. r.key \in Keys /\ S \in SUBSET Videos
    BY DEF IndexTypeOK, Newest
  <2>2. index' = [index EXCEPT ![r.key] = Newest(S, Capacity)]
    BY <1>8 DEF Land, Rebuilt
  <2> HIDE DEF S
  <2> QED
    BY <1>1, <1>2, <2>1, <2>2 DEF SizesOK
<1>9. \/ UNCHANGED index
      \/ \E v \in Videos : TakeEvent(v)
      \/ fan # None /\ Push(Inbox, fan.video)
      \/ LoseData
      \/ \E r \in rebuilds : Land(r)
  BY DEF Next, Commit, Change, CountFollowers, ReadBatch, Proceed, AppendBatch,
         FanoutFails, Expire, OthersRead, Ask, Classify, ReadSource,
         QuerySource, PageFails, Others, vars
<1> QED
  BY <1>3, <1>5, <1>6, <1>7, <1>8, <1>9

LEMMA InitPageAndSizes == Init => PageInv /\ SizesOK
<1> SUFFICES ASSUME Init PROVE PageInv /\ SizesOK
  OBVIOUS
<1>1. Sources(<<>>, Limit + 1)
  BY DEF Sources
<1>2. PageInv
  BY <1>1, VideoAssumption DEF Init, NoPage, PageInv, Reading
<1>3. \A k \in Keys : Cardinality(index[k]) = 0
  BY FS_EmptySet DEF Init
<1> QED
  BY <1>2, <1>3, CapacityAssumption, FeedBoundAssumption DEF Init, SizesOK

LEMMA FeedTypes == FInv /\ SizesOK /\ PageInv => TypeOK
<1> SUFFICES ASSUME FInv, SizesOK, PageInv PROVE TypeOK
  OBVIOUS
<1>1. IndexTypeOK /\ PageTypeOK
  BY DEF FInv
<1>2. page \in Page
  <2>1. page.owed \in SUBSET Videos /\ page.unseen \in SUBSET Videos
    BY <1>1 DEF PageInv, Below, IndexTypeOK
  <2>2. page.rows \in Seq(Seq(Videos)) /\ page.cursor \in 0..MaxVideo
    BY DEF PageInv, Sources
  <2> QED
    BY <1>1, <2>1, <2>2 DEF PageTypeOK, Page
<1> QED
  BY <1>1, <1>2 DEF IndexTypeOK, SizesOK, TypeOK

LEMMA SpecKeepsPage == Spec => [](FInv /\ SizesOK /\ PageInv)
<1>1. Init => FInv /\ SizesOK /\ PageInv
  BY InitFInv, InitPageAndSizes
<1>2. FInv /\ SizesOK /\ PageInv /\ [Next]_vars => FInv' /\ SizesOK' /\ PageInv'
  <2> SUFFICES ASSUME FInv, SizesOK, PageInv, [Next]_vars
               PROVE  FInv' /\ SizesOK' /\ PageInv'
    OBVIOUS
  <2>1. FInv'
    BY StepFInv
  <2>2. SizesOK'
    BY <2>1, StepSizes DEF FInv
  <2>3. PageInv'
    BY StepPageInv
  <2> QED
    BY <2>1, <2>2, <2>3
<1> QED
  BY <1>1, <1>2, PTL DEF Spec

\* The variables of the feed keep their types, no index outgrows its capacity
\* and the rows of a page are videos.
THEOREM FeedTypeCorrect == Spec => []TypeOK
<1>1. FInv /\ SizesOK /\ PageInv => TypeOK
  BY FeedTypes
<1> QED
  BY <1>1, SpecKeepsPage, PTL

\* Whatever the merge of inbox, celebrities' indexes and database queries is
\* interleaved with, a page shows newest first and nothing twice, and leaves
\* out none of the videos it owed but older ones, when it says there is more.
THEOREM PagesAreComplete == Spec => []PageIsComplete
<1>1. FInv /\ SizesOK /\ PageInv => PageIsComplete
  BY DEF PageInv, PageIsComplete
<1> QED
  BY <1>1, SpecKeepsPage, PTL
=============================================================================
