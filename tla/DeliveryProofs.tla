--------------------------- MODULE DeliveryProofs ---------------------------
(***************************************************************************)
(* Theorems about the two ends of a heat event's way: OutboxPoller, which  *)
(* sends it (its type, that a row is sent twice only after a failed        *)
(* dispatch, and that its steps are steps of Relay), and HotRank, which    *)
(* counts it; for any number of rows, pollers and events.                  *)
(***************************************************************************)
EXTENDS OutboxPoller, HotRank, TLAPS, FiniteSetTheorems, WellFoundedInduction

\* A task has a row locked from its choice to the end of its transaction, and an
\* answer only while it waits for one.
Working ==
    \A p \in Pollers :
        /\ claimed[p] = 0 <=> pc[p] \in {"down", "polling"}
        /\ answer[p] # "none" => pc[p] = "waiting"

\* A locked row is committed and still in the table, and locked once.
LocksOK ==
    \A p \in Pollers : claimed[p] # 0 =>
        /\ row[claimed[p]] = "pending"
        /\ \A q \in Pollers \ {p} : claimed[q] # claimed[p]

\* What reaches the broker comes from a committed row; a copy given up by its
\* publisher from a failed dispatch.
CopiesOK ==
    /\ \A r \in Rows : stored[r] > 0 \/ r \in orphans => row[r] \in {"pending", "retired"}
    /\ orphans \subseteq aborted

\* A confirmed message, and so that of a row that was deleted, is stored.
ConfirmsOK ==
    /\ \A p \in Pollers : answer[p] = "ack" => stored[claimed[p]] > 0
    /\ \A r \in Rows : row[r] = "retired" => stored[r] > 0

\* The copy of a row without a failed dispatch is its only one, and the row is
\* gone or about to be deleted by the poller that sent the copy.
SentOnce ==
    \A r \in Rows \ aborted : stored[r] > 0 =>
        /\ stored[r] = 1
        /\ row[r] = "retired" \/ \E p \in Pollers : claimed[p] = r /\ answer[p] = "ack"

OInv == TypeOK /\ Working /\ LocksOK /\ CopiesOK /\ ConfirmsOK /\ SentOnce

LEMMA InitOInv == Init => OInv
<1> SUFFICES ASSUME Init PROVE OInv
  OBVIOUS
<1>1. TypeOK
  <2>1. bound \in BOOLEAN
    BY DEF Init
  <2>2. stored \in [Rows -> 0..MaxStored]
    BY BoundsAssumption DEF Init
  <2> QED
    BY <2>1, <2>2 DEF Init, TypeOK, RowStatus
<1>2. Working /\ LocksOK
  BY DEF Init, Working, LocksOK
<1>3. CopiesOK /\ ConfirmsOK /\ SentOnce
  BY DEF Init, CopiesOK, ConfirmsOK, SentOnce
<1> QED
  BY <1>1, <1>2, <1>3 DEF OInv

LEMMA RowsArePositive == \A r \in Rows : r \in Int /\ r # 0
  BY BoundsAssumption DEF Rows

\* What a poller has locked is a row.
LEMMA LockedRow ==
    ASSUME OInv, NEW p \in Pollers, pc[p] \in {"claimed", "waiting"}
    PROVE  /\ claimed[p] \in Rows /\ claimed[p] # 0
           /\ row[claimed[p]] = "pending"
           /\ \A q \in Pollers \ {p} : claimed[q] # claimed[p]
  BY DEF OInv, TypeOK, Working, LocksOK

\* Another copy of a row.
LEMMA CopyAdded ==
    ASSUME OInv, NEW r \in Rows, AddCopy(r)
    PROVE  /\ stored' \in [Rows -> 0..MaxStored]
           /\ stored'[r] > 0
           /\ stored[r] = 0 => stored'[r] = 1
           /\ \A q \in Rows \ {r} : stored'[q] = stored[q]
<1>1. stored[r] \in 0..MaxStored /\ MaxStored \in Nat /\ MaxStored >= 2
  BY BoundsAssumption DEF OInv, TypeOK
<1>2. stored' = [stored EXCEPT ![r] = IF @ = MaxStored THEN @ ELSE @ + 1]
  BY DEF AddCopy
<1> QED
  BY <1>1, <1>2 DEF OInv, TypeOK

LEMMA StepOInv == OInv /\ [Next]_vars => OInv'
<1> SUFFICES ASSUME OInv, [Next]_vars PROVE OInv'
  OBVIOUS
<1> USE RowsArePositive
<1>1. ASSUME NEW r \in Rows, Insert(r) PROVE OInv'
  <2>1. row[r] = "unused" /\ row' = [row EXCEPT ![r] = "inserted"]
        /\ UNCHANGED <<pc, claimed, answer, stored, orphans, bound, aborted>>
    BY <1>1 DEF Insert
  <2> QED
    BY <2>1 DEF OInv, TypeOK, RowStatus, Working, LocksOK, CopiesOK, ConfirmsOK, SentOnce
<1>2. ASSUME NEW r \in Rows, EndInsert(r) PROVE OInv'
  <2>1. PICK s \in {"pending", "undone"} : row' = [row EXCEPT ![r] = s]
    BY <1>2 DEF EndInsert
  <2>2. row[r] = "inserted" /\ UNCHANGED <<pc, claimed, answer, stored, orphans, bound, aborted>>
    BY <1>2 DEF EndInsert
  <2> QED
    BY <2>1, <2>2 DEF OInv, TypeOK, RowStatus, Working, LocksOK, CopiesOK, ConfirmsOK, SentOnce
<1>3. ASSUME NEW p \in Pollers, Start(p) PROVE OInv'
  BY <1>3 DEF Start, OInv, TypeOK, Working, LocksOK, CopiesOK, ConfirmsOK, SentOnce
<1>4. ASSUME NEW p \in Pollers, Claim(p) PROVE OInv'
  <2>1. PICK r \in Free : claimed' = [claimed EXCEPT ![p] = r]
    BY <1>4 DEF Claim
  <2>2. r \in Rows /\ r # 0 /\ row[r] = "pending" /\ \A q \in Pollers : claimed[q] # r
    BY <2>1 DEF Free
  <2>3. /\ pc[p] = "polling" /\ pc' = [pc EXCEPT ![p] = "claimed"]
        /\ claimed[p] = 0 /\ answer[p] = "none"
        /\ UNCHANGED <<row, answer, stored, orphans, bound, aborted>>
    BY <1>4 DEF Claim, OInv, Working, TypeOK
  <2>4. TypeOK' /\ Working'
    BY <2>1, <2>2, <2>3 DEF OInv, TypeOK, Working
  <2>5. LocksOK'
    BY <2>1, <2>2, <2>3 DEF OInv, TypeOK, LocksOK
  <2>6. CopiesOK' /\ ConfirmsOK' /\ SentOnce'
    BY <2>1, <2>2, <2>3 DEF OInv, TypeOK, CopiesOK, ConfirmsOK, SentOnce
  <2> QED
    BY <2>4, <2>5, <2>6 DEF OInv
<1>5. ASSUME NEW p \in Pollers, Publish(p) PROVE OInv'
  BY <1>5 DEF Publish, OInv, TypeOK, Working, LocksOK, CopiesOK, ConfirmsOK, SentOnce
<1>6. ASSUME NEW p \in Pollers, Accept(p) PROVE OInv'
  <2> DEFINE r == claimed[p]
  <2>1. /\ pc[p] = "waiting" /\ answer[p] = "none" /\ AddCopy(r)
        /\ answer' = [answer EXCEPT ![p] = "ack"]
        /\ UNCHANGED <<row, pc, claimed, orphans, bound, aborted>>
    BY <1>6 DEF Accept, Unanswered
  <2>2. /\ r \in Rows /\ row[r] = "pending"
        /\ \A q \in Pollers \ {p} : claimed[q] # r
    BY <2>1, LockedRow
  <2>3. /\ stored' \in [Rows -> 0..MaxStored] /\ stored'[r] > 0
        /\ stored[r] = 0 => stored'[r] = 1
        /\ \A q \in Rows \ {r} : stored'[q] = stored[q]
    BY <2>1, <2>2, CopyAdded
  <2>4. TypeOK' /\ Working' /\ LocksOK'
    BY <2>1, <2>3 DEF OInv, TypeOK, Working, LocksOK
  <2>5. CopiesOK' /\ ConfirmsOK'
    BY <2>1, <2>2, <2>3 DEF OInv, TypeOK, Working, CopiesOK, ConfirmsOK
  <2>6. r \notin aborted => stored[r] = 0
    BY <2>1, <2>2 DEF OInv, TypeOK, SentOnce
  <2>7. SentOnce'
    BY <2>1, <2>2, <2>3, <2>6 DEF OInv, TypeOK, SentOnce
  <2> QED
    BY <2>4, <2>5, <2>7 DEF OInv
<1>7. ASSUME NEW p \in Pollers, Refuse(p) PROVE OInv'
  <2>1. PICK a \in {"returned", "nack"} : answer' = [answer EXCEPT ![p] = a]
    BY <1>7 DEF Refuse
  <2>2. /\ pc[p] = "waiting" /\ answer[p] = "none"
        /\ UNCHANGED <<row, pc, claimed, stored, orphans, bound, aborted>>
    BY <1>7 DEF Refuse, Unanswered
  <2> QED
    BY <2>1, <2>2 DEF OInv, TypeOK, Working, LocksOK, CopiesOK, ConfirmsOK, SentOnce
<1>8. ASSUME NEW p \in Pollers, Retire(p) PROVE OInv'
  <2> DEFINE r == claimed[p]
  <2>1. /\ pc[p] = "waiting" /\ answer[p] = "ack"
        /\ row' = [row EXCEPT ![r] = "retired"] /\ pc' = [pc EXCEPT ![p] = "polling"]
        /\ claimed' = [claimed EXCEPT ![p] = 0] /\ answer' = [answer EXCEPT ![p] = "none"]
        /\ UNCHANGED <<stored, orphans, bound, aborted>>
    BY <1>8 DEF Retire
  <2>2. /\ r \in Rows /\ row[r] = "pending" /\ stored[r] > 0
        /\ \A q \in Pollers \ {p} : claimed[q] # r
    BY <2>1, LockedRow DEF OInv, ConfirmsOK
  <2>3. TypeOK' /\ Working'
    BY <2>1, <2>2 DEF OInv, TypeOK, RowStatus, Working
  <2>4. LocksOK'
    BY <2>1, <2>2 DEF OInv, TypeOK, LocksOK
  <2>5. CopiesOK' /\ ConfirmsOK'
    BY <2>1, <2>2 DEF OInv, TypeOK, CopiesOK, ConfirmsOK
  <2>6. SentOnce'
    BY <2>1, <2>2 DEF OInv, TypeOK, SentOnce
  <2> QED
    BY <2>3, <2>4, <2>5, <2>6 DEF OInv
<1>9. ASSUME NEW p \in Pollers, Abort(p) PROVE OInv'
  <2> DEFINE r == claimed[p]
  <2>1. /\ pc[p] \in {"claimed", "waiting"}
        /\ orphans' \subseteq orphans \cup {r} /\ aborted' = aborted \cup {r}
        /\ pc' = [pc EXCEPT ![p] = "down"]
        /\ claimed' = [claimed EXCEPT ![p] = 0] /\ answer' = [answer EXCEPT ![p] = "none"]
        /\ UNCHANGED <<row, stored, bound>>
    BY <1>9 DEF Abort
  <2>2. /\ r \in Rows /\ row[r] = "pending"
        /\ \A q \in Pollers \ {p} : claimed[q] # r
    BY <2>1, LockedRow
  <2>3. TypeOK' /\ Working' /\ LocksOK'
    BY <2>1, <2>2 DEF OInv, TypeOK, Working, LocksOK
  <2>4. CopiesOK' /\ ConfirmsOK'
    BY <2>1, <2>2 DEF OInv, TypeOK, CopiesOK, ConfirmsOK
  <2>5. SentOnce'
    BY <2>1, <2>2 DEF OInv, TypeOK, SentOnce
  <2> QED
    BY <2>3, <2>4, <2>5 DEF OInv
<1>10. ASSUME NEW r \in Rows, LateCopy(r) PROVE OInv'
  <2>1. /\ r \in orphans /\ orphans' = orphans \ {r}
        /\ AddCopy(r) \/ UNCHANGED stored
        /\ UNCHANGED <<row, pc, claimed, answer, bound, aborted>>
    BY <1>10 DEF LateCopy
  <2>2. r \in aborted /\ row[r] \in {"pending", "retired"}
    BY <2>1 DEF OInv, CopiesOK
  <2>3. /\ stored' \in [Rows -> 0..MaxStored]
        /\ stored'[r] >= stored[r] /\ \A q \in Rows \ {r} : stored'[q] = stored[q]
        /\ stored[r] > 0 => stored'[r] > 0
    BY <2>1, CopyAdded, BoundsAssumption DEF OInv, TypeOK, AddCopy
  <2>4. TypeOK' /\ Working' /\ LocksOK'
    BY <2>1, <2>3 DEF OInv, TypeOK, Working, LocksOK
  <2>5. CopiesOK' /\ ConfirmsOK'
    BY <2>1, <2>2, <2>3 DEF OInv, TypeOK, Working, CopiesOK, ConfirmsOK
  <2>6. SentOnce'
    BY <2>1, <2>2, <2>3 DEF OInv, TypeOK, SentOnce
  <2> QED
    BY <2>4, <2>5, <2>6 DEF OInv
<1>11. CASE Unbind
  <2>1. bound' \in BOOLEAN
    BY <1>11 DEF Unbind
  <2>2. UNCHANGED <<row, pc, claimed, answer, stored, orphans, aborted>>
    BY <1>11 DEF Unbind
  <2> QED
    BY <2>1, <2>2 DEF OInv, TypeOK, Working, LocksOK, CopiesOK, ConfirmsOK, SentOnce
<1>12. CASE UNCHANGED vars
  BY <1>12 DEF vars, OInv, TypeOK, Working, LocksOK, CopiesOK, ConfirmsOK, SentOnce
<1> QED
  BY <1>1, <1>2, <1>3, <1>4, <1>5, <1>6, <1>7, <1>8, <1>9, <1>10, <1>11, <1>12 DEF Next

LEMMA AlwaysOInv == Spec => []OInv
<1> QED
  BY InitOInv, StepOInv, PTL DEF Spec

\* Type correctness of OutboxPoller.
THEOREM TypeCorrect == Spec => []TypeOK
<1>1. OInv => TypeOK
  BY DEF OInv
<1> QED
  BY <1>1, AlwaysOInv, PTL

\* Whatever pollers and brokers do, a row none of whose dispatches failed has
\* one copy at most.
THEOREM OneCopyWithoutFailure == Spec => []DuplicatesNeedFailure
<1>1. OInv => DuplicatesNeedFailure
  <2> SUFFICES ASSUME OInv, NEW r \in Rows, r \notin aborted PROVE stored[r] <= 1
    BY DEF DuplicatesNeedFailure
  <2>1. stored[r] \in Nat
    BY BoundsAssumption DEF OInv, TypeOK
  <2> QED
    BY <2>1 DEF OInv, SentOnce
<1> QED
  BY <1>1, AlwaysOInv, PTL

-----------------------------------------------------------------------------
\* Outbox rows as Relay sees them.
Pending   == {r \in Rows : row[r] = "pending"}
Delivered == {r \in Rows : stored[r] > 0}
Retired   == {r \in Rows : row[r] = "retired"}

LEMMA StartsAsRelay == Init => R!Init
  BY DEF Init, R!Init

\* Commits are Commit, the first copy of a row is Deliver, deletions are Retire.
\* Nothing else shows.
LEMMA StepsAsRelay == OInv /\ [Next]_vars => [R!Next]_(R!vars)
<1> SUFFICES ASSUME OInv, [Next]_vars
             PROVE  \/ R!Next
                    \/ UNCHANGED <<Pending, Delivered, Retired>>
  BY DEF R!vars, Pending, Delivered, Retired
<1>1. ASSUME NEW r \in Rows, Insert(r) PROVE UNCHANGED <<Pending, Delivered, Retired>>
  BY <1>1 DEF Insert, Pending, Delivered, Retired, OInv, TypeOK
<1>2. ASSUME NEW r \in Rows, EndInsert(r)
      PROVE  R!Commit(r) \/ UNCHANGED <<Pending, Delivered, Retired>>
  <2>1. PICK s \in {"pending", "undone"} : row' = [row EXCEPT ![r] = s]
    BY <1>2 DEF EndInsert
  <2>2. row[r] = "inserted" /\ UNCHANGED stored
    BY <1>2 DEF EndInsert
  <2>3. CASE s = "pending"
    <3>1. r \notin Pending \cup Retired /\ Pending' = Pending \cup {r}
          /\ UNCHANGED <<Delivered, Retired>>
      BY <2>1, <2>2, <2>3 DEF Pending, Delivered, Retired, OInv, TypeOK
    <3> QED
      BY <3>1 DEF R!Commit, Pending, Delivered, Retired
  <2>4. CASE s = "undone"
    BY <2>1, <2>2, <2>4 DEF Pending, Delivered, Retired, OInv, TypeOK
  <2> QED
    BY <2>3, <2>4
\* A copy arrives: of a committed row, and if it is deleted not for the first time.
<1>3. ASSUME NEW r \in Rows, AddCopy(r), row[r] \in {"pending", "retired"}, UNCHANGED row
      PROVE  R!Deliver(r) \/ UNCHANGED <<Pending, Delivered, Retired>>
  <2>1. /\ stored'[r] > 0 /\ stored' \in [Rows -> 0..MaxStored]
        /\ \A q \in Rows \ {r} : stored'[q] = stored[q]
    BY <1>3, CopyAdded
  <2>2. Delivered' = Delivered \cup {r} /\ UNCHANGED <<Pending, Retired>>
    BY <1>3, <2>1 DEF Delivered, Pending, Retired
  <2>3. CASE row[r] = "pending"
    BY <2>2, <2>3 DEF R!Deliver, Pending, Delivered, Retired
  <2>4. CASE row[r] = "retired"
    <3>1. r \in Delivered
      BY <2>4 DEF Delivered, OInv, ConfirmsOK
    <3> QED
      BY <2>2, <3>1
  <2> QED
    BY <1>3, <2>3, <2>4
<1>4. ASSUME NEW p \in Pollers, Accept(p)
      PROVE  \E r \in Rows : R!Deliver(r) \/ UNCHANGED <<Pending, Delivered, Retired>>
  <2>1. /\ claimed[p] \in Rows /\ row[claimed[p]] = "pending"
        /\ AddCopy(claimed[p]) /\ UNCHANGED row
    BY <1>4, LockedRow DEF Accept, Unanswered
  <2> QED
    BY <2>1, <1>3
<1>5. ASSUME NEW p \in Pollers, Retire(p) PROVE \E r \in Rows : R!Retire(r)
  <2> PICK r \in Rows : r = claimed[p]
    BY <1>5, LockedRow DEF Retire
  <2>1. row[r] = "pending" /\ stored[r] > 0
        /\ row' = [row EXCEPT ![r] = "retired"] /\ UNCHANGED stored
    BY <1>5, LockedRow DEF Retire, OInv, ConfirmsOK
  <2>2. /\ r \in Pending \cap Delivered
        /\ Pending' = Pending \ {r} /\ Retired' = Retired \cup {r} /\ UNCHANGED Delivered
    BY <2>1 DEF Pending, Delivered, Retired, OInv, TypeOK
  <2>3. R!Retire(r)
    BY <2>2 DEF R!Retire, Pending, Delivered, Retired
  <2> QED
    BY <2>3
<1>6. ASSUME NEW r \in Rows, LateCopy(r)
      PROVE  R!Deliver(r) \/ UNCHANGED <<Pending, Delivered, Retired>>
  <2>1. row[r] \in {"pending", "retired"} /\ UNCHANGED row
    BY <1>6 DEF LateCopy, OInv, CopiesOK
  <2>2. CASE AddCopy(r)
    BY <2>1, <2>2, <1>3
  <2>3. CASE UNCHANGED stored
    BY <2>1, <2>3 DEF Pending, Delivered, Retired
  <2> QED
    BY <1>6, <2>2, <2>3 DEF LateCopy
<1>7. CASE UNCHANGED <<row, stored>>
  BY <1>7 DEF Pending, Delivered, Retired
<1> QED
  BY <1>1, <1>2, <1>4, <1>5, <1>6, <1>7
  DEF Next, Start, Claim, Publish, Refuse, Abort, Unbind, vars, R!Next

\* Locks, confirms, returns, time-outs and restarts add up to relaying each
\* committed row at least once before it disappears, and nothing else.
THEOREM RelaysAtLeastOnce == Spec => ImplementsRelay
<1> QED
  BY StartsAsRelay, StepsAsRelay, AlwaysOInv, PTL DEF Spec, ImplementsRelay, R!Spec

-----------------------------------------------------------------------------

(***************************************************************************)
(* HotRank.  An event that was counted is still marked or past its         *)
(* deadline: the marker and the script's test of the deadline take over    *)
(* from each other without a gap.                                          *)
(***************************************************************************)
CountedStaysCounted ==
    \A e \in Events :
        /\ counted[e] \in Nat
        /\ e \in marked \/ counted[e] > 0 => event[e] \in Heat
        /\ counted[e] > 0 => e \in marked \/ event[e].minute + Life <= now

HotInv ==
    /\ now \in Nat
    /\ event \in [Events -> Heat \cup {None}]
    /\ marked \subseteq Events
    /\ counted \in [Events -> Nat]
    /\ CountedStaysCounted
    /\ CountedOnce

LEMMA InitHotInv == HotInit => HotInv
  BY DEF HotInit, HotInv, CountedStaysCounted, CountedOnce

LEMMA StepHotInv == HotInv /\ [HotNext]_hotVars => HotInv'
<1> SUFFICES ASSUME HotInv, [HotNext]_hotVars PROVE HotInv'
  OBVIOUS
<1> USE TimesAssumption, NoneAssumption DEF HotInv
<1>0. \A h \in Heat : h.minute \in Nat
  BY DEF Heat, Minutes
<1>1. ASSUME NEW e \in Events, AddHeat(e) PROVE HotInv'
  <2>1. event[e] \in Heat /\ counted[e] = 0
    BY <1>1, <1>0 DEF AddHeat, CountedStaysCounted
  <2>2. /\ counted' = [counted EXCEPT ![e] = 1]
        /\ marked' = marked \cup {e}
        /\ UNCHANGED <<now, event>>
    BY <1>1, <2>1 DEF AddHeat, written
  <2> QED
    BY <2>1, <2>2 DEF CountedStaysCounted, CountedOnce
<1>2. ASSUME NEW e \in Events, NEW h \in Heat, Write(e, h) PROVE HotInv'
  BY <1>2 DEF Write, hot, CountedStaysCounted, CountedOnce
<1>3. CASE Tick
  <2>1. /\ now' = now + 1
        /\ marked' = {e \in marked : event[e].minute + Life > now'}
        /\ UNCHANGED <<event, counted>>
    BY <1>3 DEF Tick, MarkerLives
  <2> QED
    BY <2>1, <1>0 DEF CountedStaysCounted, CountedOnce
<1>4. CASE UNCHANGED <<written, hot>>
  BY <1>4 DEF written, hot, CountedStaysCounted, CountedOnce
<1> QED
  BY <1>1, <1>2, <1>3, <1>4 DEF HotNext, hotVars, Exists, Union, Expire, Read, Forget

LEMMA AlwaysHotInv == HotSpec => []HotInv
<1>1. HotInit => HotInv
  BY InitHotInv
<1>2. HotInv /\ [HotNext]_hotVars => HotInv'
  BY StepHotInv
<1> QED
  BY <1>1, <1>2, PTL DEF HotSpec

\* No heat event is ever counted twice, whatever the lifetime of buckets and
\* however late and often it is delivered.
THEOREM EventsCountOnce == HotSpec => []CountedOnce
<1>1. HotInv => CountedOnce
  BY DEF HotInv
<1> QED
  BY <1>1, AlwaysHotInv, PTL

-----------------------------------------------------------------------------
LEMMA SumOfNone == Sum({}) = 0
<1>1. /\ {e \in {} : event[e].change = 1} = {}
      /\ {e \in {} : event[e].change = -1} = {}
  OBVIOUS
<1> QED
  BY <1>1, FS_EmptySet DEF Sum

LEMMA SumWithOneMore ==
    ASSUME NEW S \in SUBSET Events, NEW x \in Events \ S, event[x].change \in {-1, 1}
    PROVE  Sum(S \cup {x}) = Sum(S) + event[x].change
<1> DEFINE Plus(T)  == {e \in T : event[e].change = 1}
           Minus(T) == {e \in T : event[e].change = -1}
<1>1. /\ IsFiniteSet(Plus(S)) /\ IsFiniteSet(Minus(S))
      /\ Cardinality(Plus(S)) \in Nat /\ Cardinality(Minus(S)) \in Nat
  <2>1. Plus(S) \in SUBSET Events /\ Minus(S) \in SUBSET Events
    OBVIOUS
  <2> HIDE DEF Plus, Minus
  <2>2. IsFiniteSet(Plus(S)) /\ IsFiniteSet(Minus(S))
    BY <2>1, TimesAssumption, FS_Subset
  <2> QED
    BY <2>2, FS_CardinalityType
<1>2. CASE event[x].change = 1
  <2>1. Plus(S \cup {x}) = Plus(S) \cup {x} /\ Minus(S \cup {x}) = Minus(S) /\ x \notin Plus(S)
    BY <1>2
  <2> HIDE DEF Plus, Minus
  <2>2. Cardinality(Plus(S \cup {x})) = Cardinality(Plus(S)) + 1
    BY <2>1, <1>1, FS_AddElement
  <2>3. Cardinality(Plus(S \cup {x})) - Cardinality(Minus(S \cup {x}))
          = Cardinality(Plus(S)) - Cardinality(Minus(S)) + 1
    BY <2>1, <2>2, <1>1
  <2> QED
    BY <2>3, <1>2 DEF Sum, Plus, Minus
<1>3. CASE event[x].change = -1
  <2>1. Minus(S \cup {x}) = Minus(S) \cup {x} /\ Plus(S \cup {x}) = Plus(S) /\ x \notin Minus(S)
    BY <1>3
  <2> HIDE DEF Plus, Minus
  <2>2. Cardinality(Minus(S \cup {x})) = Cardinality(Minus(S)) + 1
    BY <2>1, <1>1, FS_AddElement
  <2>3. Cardinality(Plus(S \cup {x})) - Cardinality(Minus(S \cup {x}))
          = Cardinality(Plus(S)) - Cardinality(Minus(S)) + (-1)
    BY <2>1, <2>2, <1>1
  <2> QED
    BY <2>3, <1>3 DEF Sum, Plus, Minus
<1> QED
  BY <1>2, <1>3

\* The markers of a minute and a video.
Marks(m, v) == {e \in marked : event[e].minute = m /\ event[e].video = v}

BucketInv ==
    /\ HotInv
    /\ DOMAIN bucket = Minutes
    /\ \A m \in Minutes : IsZSet(bucket[m])
    /\ BucketsMatchMarkers

LEMMA InitBucketInv == HotInit => BucketInv
<1> SUFFICES ASSUME HotInit PROVE BucketInv
  OBVIOUS
<1>1. \A m \in Minutes : IsZSet(bucket[m])
  BY DEF HotInit, IsZSet, Empty
<1>2. BucketsMatchMarkers
  <2>1. \A m \in Minutes, v \in Videos : Score(bucket[m], v) = 0 /\ Marks(m, v) = {}
    BY DEF HotInit, Score, Empty, Marks
  <2> QED
    BY <2>1, SumOfNone DEF BucketsMatchMarkers, Marks
<1> QED
  BY <1>1, <1>2, InitHotInv DEF BucketInv, HotInit

LEMMA StepBucketInv == BucketInv /\ [HotNext]_hotVars => BucketInv'
<1> SUFFICES ASSUME BucketInv, [HotNext]_hotVars PROVE BucketInv'
  OBVIOUS
<1> USE TimesAssumption, NoneAssumption
<1>0. /\ HotInv /\ HotInv'
      /\ DOMAIN bucket = Minutes
      /\ \A m \in Minutes : IsZSet(bucket[m])
      /\ \A m \in Minutes, v \in Videos : Score(bucket[m], v) = Sum(Marks(m, v))
  BY StepHotInv DEF BucketInv, BucketsMatchMarkers, Marks
<1> SUFFICES /\ DOMAIN bucket' = Minutes
             /\ \A m \in Minutes : IsZSet(bucket'[m])
             /\ \A m \in Minutes, v \in Videos : Score(bucket'[m], v) = Sum(Marks(m, v))'
  BY <1>0 DEF BucketInv, BucketsMatchMarkers, Marks, IsZSet, Score
<1>1. ASSUME NEW e \in Events, AddHeat(e)
      PROVE  /\ DOMAIN bucket' = Minutes
             /\ \A m \in Minutes : IsZSet(bucket'[m])
             /\ \A m \in Minutes, v \in Videos : Score(bucket'[m], v) = Sum(Marks(m, v))'
  <2> DEFINE m0 == event[e].minute
             v0 == event[e].video
             c  == event[e].change
  <2>1. /\ m0 \in Minutes /\ v0 \in Videos /\ c \in {-1, 1}
        /\ e \notin marked /\ marked' = marked \cup {e} /\ event' = event
        /\ bucket' = [bucket EXCEPT ![m0] = ZIncrBy(@, v0, c)]
    BY <1>1, <1>0 DEF AddHeat, HotInv, Heat, written
  <2>2. /\ IsZSet(ZIncrBy(bucket[m0], v0, c))
        /\ Score(ZIncrBy(bucket[m0], v0, c), v0) = Score(bucket[m0], v0) + c
        /\ \A v \in Videos \ {v0} : Score(ZIncrBy(bucket[m0], v0, c), v) = Score(bucket[m0], v)
    <3>1. IsZSet(bucket[m0])
      BY <2>1, <1>0
    <3> HIDE DEF m0, v0, c
    <3>2. \A v \in Videos : Score(bucket[m0], v) \in Int
      BY <3>1 DEF Score, IsZSet
    <3> QED
      BY <2>1, <3>1, <3>2 DEF ZIncrBy, Score, IsZSet
  <2>3. /\ Marks(m0, v0)' = Marks(m0, v0) \cup {e}
        /\ \A m \in Minutes, v \in Videos : <<m, v>> # <<m0, v0>> => Marks(m, v)' = Marks(m, v)
    BY <2>1 DEF Marks
  <2>4. Sum(Marks(m0, v0) \cup {e}) = Sum(Marks(m0, v0)) + c
    <3>1. Marks(m0, v0) \in SUBSET Events /\ e \in Events \ Marks(m0, v0)
      BY <2>1, <1>0 DEF Marks, HotInv
    <3> QED
      BY <3>1, <2>1, SumWithOneMore
  <2>5. \A m \in Minutes, v \in Videos : Sum(Marks(m, v))' =
            IF <<m, v>> = <<m0, v0>> THEN Sum(Marks(m, v)) + c ELSE Sum(Marks(m, v))
    BY <2>1, <2>3, <2>4 DEF Sum
  <2> HIDE DEF m0, v0, c
  <2> QED
    BY <1>0, <2>1, <2>2, <2>5
<1>2. ASSUME NEW e \in Events, NEW h \in Heat, Write(e, h)
      PROVE  /\ DOMAIN bucket' = Minutes
             /\ \A m \in Minutes : IsZSet(bucket'[m])
             /\ \A m \in Minutes, v \in Videos : Score(bucket'[m], v) = Sum(Marks(m, v))'
  <2>1. /\ bucket' = bucket /\ marked' = marked
        /\ \A x \in marked : event'[x] = event[x]
    BY <1>2, <1>0 DEF Write, hot, HotInv, CountedStaysCounted
  <2>2. ASSUME NEW m \in Minutes, NEW v \in Videos PROVE Sum(Marks(m, v))' = Sum(Marks(m, v))
    <3>1. /\ Marks(m, v)' = Marks(m, v)
          /\ {x \in Marks(m, v) : event'[x].change = 1} = {x \in Marks(m, v) : event[x].change = 1}
          /\ {x \in Marks(m, v) : event'[x].change = -1}
               = {x \in Marks(m, v) : event[x].change = -1}
      BY <2>1 DEF Marks
    <3> QED
      BY <3>1 DEF Sum
  <2> QED
    BY <2>1, <2>2, <1>0
<1>3. ASSUME Tick
      PROVE  /\ DOMAIN bucket' = Minutes
             /\ \A m \in Minutes : IsZSet(bucket'[m])
             /\ \A m \in Minutes, v \in Videos : Score(bucket'[m], v) = Sum(Marks(m, v))'
  <2>1. /\ event' = event
        /\ marked' = {e \in marked : event[e].minute + Life > now + 1}
        /\ bucket' = [m \in Minutes |-> IF m + Life > now + 1 THEN bucket[m] ELSE Empty]
    BY <1>3 DEF Tick, MarkerLives, BucketLives
  <2>2. IsZSet(Empty) /\ \A v \in Videos : Score(Empty, v) = 0
    BY DEF IsZSet, Empty, Score
  <2>3. ASSUME NEW m \in Minutes, NEW v \in Videos, m + Life > now + 1
        PROVE  Sum(Marks(m, v))' = Sum(Marks(m, v))
    <3>1. Marks(m, v)' = Marks(m, v)
      BY <2>1, <2>3 DEF Marks
    <3> QED
      BY <3>1, <2>1 DEF Sum
  <2>4. ASSUME NEW m \in Minutes, NEW v \in Videos, ~(m + Life > now + 1)
        PROVE  Sum(Marks(m, v))' = 0
    <3>1. Marks(m, v)' = {}
      BY <2>1, <2>4 DEF Marks
    <3>2. Sum({})' = 0
      BY SumOfNone, <2>1 DEF Sum
    <3> QED
      BY <3>1, <3>2 DEF Sum
  <2> QED
    BY <2>1, <2>2, <2>3, <2>4, <1>0
<1>4. ASSUME UNCHANGED <<written, hot>>
      PROVE  /\ DOMAIN bucket' = Minutes
             /\ \A m \in Minutes : IsZSet(bucket'[m])
             /\ \A m \in Minutes, v \in Videos : Score(bucket'[m], v) = Sum(Marks(m, v))'
  <2>1. bucket' = bucket /\ marked' = marked /\ event' = event
    BY <1>4 DEF written, hot
  <2> QED
    BY <2>1, <1>0 DEF Marks, Sum
<1> QED
  BY <1>1, <1>2, <1>3, <1>4 DEF HotNext, hotVars, Exists, Union, Expire, Read, Forget

\* The score of a video in a minute's bucket is the sum of the events whose
\* markers are alive, at every moment: buckets and markers expire together.
THEOREM BucketsAndMarkersAgree == HotSpec => []BucketsMatchMarkers
<1>1. HotInit => BucketInv
  BY InitBucketInv
<1>2. BucketInv /\ [HotNext]_hotVars => BucketInv'
  BY StepBucketInv
<1>3. BucketInv => BucketsMatchMarkers
  BY DEF BucketInv
<1> QED
  BY <1>1, <1>2, <1>3, PTL DEF HotSpec

-----------------------------------------------------------------------------
(***************************************************************************)
(* What a snapshot adds up.  MapThenSumSet folds over a set; that a        *)
(* recursive definition has one solution follows when a solution is        *)
(* known (OneTotal), here the sums of the markers of any set of minutes.   *)
(***************************************************************************)
\* A nonempty set of subsets of a finite set has a minimal member.
LEMMA MinimalSet ==
  ASSUME NEW S, IsFiniteSet(S), NEW F, F \subseteq SUBSET S, F # {}
  PROVE  \E A \in F : \A B \in F : ~ (B \subseteq A /\ B # A)
<1> DEFINE less == StrictSubsetOrdering(S)
<1>1. F \subseteq FiniteSubsetsOf(S)
  BY FS_Subset DEF FiniteSubsetsOf
<1>2. IsWellFoundedOn(less, FiniteSubsetsOf(S))
  BY FS_StrictSubsetOrderingWellFounded
<1>3. PICK A \in F : \A B \in F : ~ (<<B, A>> \in less)
  BY <1>1, <1>2, WFMin
<1>4. ASSUME NEW B \in F, B \subseteq A, B # A PROVE FALSE
  BY <1>3, <1>4 DEF StrictSubsetOrdering
<1> QED
  BY <1>4

LEMMA SumIsInt == \A S \in SUBSET Events : Sum(S) \in Int
<1> SUFFICES ASSUME NEW S \in SUBSET Events PROVE Sum(S) \in Int
  OBVIOUS
<1> DEFINE P == {e \in S : event[e].change = 1}
           N == {e \in S : event[e].change = -1}
<1>1. IsFiniteSet(P) /\ IsFiniteSet(N)
  BY TimesAssumption, FS_Subset
<1> HIDE DEF P, N
<1>2. Cardinality(P) - Cardinality(N) \in Int
  BY <1>1, FS_CardinalityType
<1> QED
  BY <1>2 DEF Sum, P, N

LEMMA SumOfTwo ==
    ASSUME NEW S \in SUBSET Events, NEW T \in SUBSET Events, S \cap T = {}
    PROVE  Sum(S \cup T) = Sum(S) + Sum(T)
<1> DEFINE P(U) == {e \in U : event[e].change = 1}
           N(U) == {e \in U : event[e].change = -1}
<1>1. /\ IsFiniteSet(P(S)) /\ IsFiniteSet(P(T)) /\ IsFiniteSet(N(S)) /\ IsFiniteSet(N(T))
      /\ P(S) \cap P(T) = {} /\ N(S) \cap N(T) = {}
      /\ P(S \cup T) = P(S) \cup P(T) /\ N(S \cup T) = N(S) \cup N(T)
  BY TimesAssumption, FS_Subset
<1> HIDE DEF P, N
<1>2. /\ Cardinality(P(S \cup T)) = Cardinality(P(S)) + Cardinality(P(T))
      /\ Cardinality(N(S \cup T)) = Cardinality(N(S)) + Cardinality(N(T))
      /\ Cardinality(P(S)) \in Nat /\ Cardinality(P(T)) \in Nat
      /\ Cardinality(N(S)) \in Nat /\ Cardinality(N(T)) \in Nat
  <2>1. ASSUME NEW A, NEW B, IsFiniteSet(A), IsFiniteSet(B), A \cap B = {}
        PROVE  Cardinality(A \cup B) = Cardinality(A) + Cardinality(B)
    <3>1. Cardinality(A \cap B) = 0
      BY <2>1, FS_EmptySet
    <3>2. Cardinality(A \cup B) = Cardinality(A) + Cardinality(B) - Cardinality(A \cap B)
      BY <2>1, FS_Union
    <3> QED
      BY <3>1, <3>2, <2>1, FS_CardinalityType
  <2> QED
    BY <2>1, <1>1, FS_CardinalityType
<1>3. Cardinality(P(S \cup T)) - Cardinality(N(S \cup T))
        = (Cardinality(P(S)) - Cardinality(N(S))) + (Cardinality(P(T)) - Cardinality(N(T)))
  BY <1>2
<1> QED
  BY <1>3 DEF Sum, P, N

\* J adds up the scores of v in the buckets of any of the minutes S.
AddsUp(J, v, S) ==
    /\ J \in [SUBSET S -> Int]
    /\ J[{}] = 0
    /\ \A s \in SUBSET S : \A m \in s : J[s] = Score(bucket[m], v) + J[s \ {m}]

LEMMA OneTotal ==
    ASSUME NEW v, NEW S \in SUBSET Minutes, NEW J, AddsUp(J, v, S)
    PROVE  Total(v, S) = J[S]
<1> DEFINE first(s) == CHOOSE m \in s : TRUE
           Fold(f) == [s \in SUBSET S |->
                          IF s = {} THEN 0 ELSE Score(bucket[first(s)], v) + f[s \ {first(s)}]]
           iter == CHOOSE f : f = Fold(f)
<1>1. Total(v, S) = iter[S]
  BY DEF Total, MapThenSumSet, MapThenFoldSet
<1>2. \A s \in SUBSET S : s # {} => first(s) \in s
  OBVIOUS
<1> HIDE DEF first
<1>3. J = Fold(J)
  <2>1. \A s \in SUBSET S : J[s] = Fold(J)[s]
    BY <1>2 DEF AddsUp
  <2> QED
    BY <2>1 DEF AddsUp
<1>4. iter = Fold(iter)
  BY <1>3
<1> DEFINE Wrong == {s \in SUBSET S : iter[s] # J[s]}
<1>5. Wrong = {}
  <2> SUFFICES ASSUME Wrong # {} PROVE FALSE
    OBVIOUS
  <2>0. IsFiniteSet(S)
    <3>1. IsFiniteSet(Minutes)
      BY TimesAssumption, FS_Interval DEF Minutes
    <3> QED
      BY <3>1, FS_Subset
  <2> HIDE DEF iter
  <2>1. PICK s \in Wrong : \A t \in Wrong : ~ (t \subseteq s /\ t # s)
    <3>1. Wrong \subseteq SUBSET S
      OBVIOUS
    <3> HIDE DEF Wrong
    <3> QED
      BY <3>1, <2>0, MinimalSet
  <2>2. iter[s] = Fold(iter)[s] /\ J[s] = Fold(J)[s]
    BY <1>3, <1>4
  <2>3. s # {} /\ first(s) \in s /\ s \ {first(s)} \notin Wrong
    BY <2>1, <2>2, <1>2
  <2> QED
    BY <2>1, <2>2, <2>3
<1> QED
  BY <1>1, <1>5

\* The markers of a video in the minutes of S.
MarksOf(S, v) == {e \in marked : event[e].video = v /\ event[e].minute \in S}

LEMMA MarksAddUp ==
    ASSUME BucketInv, NEW v \in Videos, NEW S \in SUBSET Minutes
    PROVE  /\ Total(v, S) = Sum(MarksOf(S, v))
           /\ v \notin UNION {DOMAIN bucket[m] : m \in S} => Sum(MarksOf(S, v)) = 0
<1> DEFINE J == [s \in SUBSET S |-> Sum(MarksOf(s, v))]
           Z == [s \in SUBSET S |-> 0]
<1>0. marked \subseteq Events
  BY DEF BucketInv, HotInv
<1>1. J \in [SUBSET S -> Int]
  <2>1. \A s \in SUBSET S : MarksOf(s, v) \in SUBSET Events
    BY <1>0 DEF MarksOf
  <2> QED
    BY <2>1, SumIsInt
<1>2. J[{}] = 0
  <2>1. MarksOf({}, v) = {}
    BY DEF MarksOf
  <2> QED
    BY <2>1, SumOfNone
<1>3. ASSUME NEW s \in SUBSET S, NEW m \in s
      PROVE  J[s] = Score(bucket[m], v) + J[s \ {m}]
  <2>1. /\ MarksOf(s, v) = Marks(m, v) \cup MarksOf(s \ {m}, v)
        /\ Marks(m, v) \cap MarksOf(s \ {m}, v) = {}
        /\ Marks(m, v) \in SUBSET Events /\ MarksOf(s \ {m}, v) \in SUBSET Events
    BY <1>0 DEF Marks, MarksOf
  <2>2. Sum(MarksOf(s, v)) = Sum(Marks(m, v)) + Sum(MarksOf(s \ {m}, v))
    BY <2>1, SumOfTwo
  <2>3. Score(bucket[m], v) = Sum(Marks(m, v))
    BY DEF BucketInv, BucketsMatchMarkers, Marks
  <2> QED
    BY <2>2, <2>3
<1>4. Total(v, S) = J[S]
  <2>1. AddsUp(J, v, S)
    BY <1>1, <1>2, <1>3 DEF AddsUp
  <2> HIDE DEF J
  <2> QED
    BY <2>1, OneTotal
<1>5. ASSUME v \notin UNION {DOMAIN bucket[m] : m \in S}
      PROVE  Total(v, S) = 0
  <2>1. \A m \in S : Score(bucket[m], v) = 0
    BY <1>5 DEF Score
  <2>2. AddsUp(Z, v, S)
    BY <2>1 DEF AddsUp
  <2>3. Total(v, S) = Z[S]
    <3> HIDE DEF Z
    <3> QED
      BY <2>2, OneTotal
  <2> QED
    BY <2>3
<1> QED
  BY <1>4, <1>5

\* The minutes of a snapshot.
Span(asOf) == {m \in Minutes : Covers(asOf, m)}

LEMMA MergedIsZSet ==
    ASSUME BucketInv, NEW asOf \in Minutes
    PROVE  /\ IsZSet(Merged(asOf))
           /\ \A v \in Videos : Score(Merged(asOf), v) = Sum(MarksOf(Span(asOf), v))
<1> DEFINE D == UNION {DOMAIN bucket[m] : m \in Span(asOf)}
<1>1. D \subseteq Videos /\ DOMAIN Merged(asOf) = D
  BY DEF BucketInv, IsZSet, Span, Merged
<1>2. ASSUME NEW v \in D
      PROVE  Merged(asOf)[v] = Sum(MarksOf(Span(asOf), v)) /\ Merged(asOf)[v] \in Int
  <2>1. Merged(asOf)[v] = Total(v, Span(asOf))
    BY <1>2 DEF Merged, Span
  <2>2. Merged(asOf)[v] = Sum(MarksOf(Span(asOf), v))
    BY <2>1, <1>1, MarksAddUp DEF Span
  <2>3. MarksOf(Span(asOf), v) \in SUBSET Events
    BY DEF MarksOf, BucketInv, HotInv
  <2> QED
    BY <2>2, <2>3, SumIsInt
<1>3. ASSUME NEW v \in Videos \ D PROVE Sum(MarksOf(Span(asOf), v)) = 0
  BY MarksAddUp DEF Span
<1> QED
  BY <1>1, <1>2, <1>3 DEF IsZSet, Score

\* What is marked was counted, and no event is ahead of the clock.
CountedInTime ==
    \A e \in Events : /\ e \in marked => counted[e] > 0
                      /\ event[e] # None => event[e].minute <= now

PagesInv == BucketInv /\ HotTypeOK /\ CountedInTime

LEMMA InitPagesInv == HotInit => PagesInv
<1> SUFFICES ASSUME HotInit PROVE PagesInv
  OBVIOUS
<1>1. HotTypeOK /\ CountedInTime
  BY TimesAssumption DEF HotInit, HotTypeOK, CountedInTime, IsZSet, Empty, Minutes
<1> QED
  BY <1>1, InitBucketInv DEF PagesInv

LEMMA StepPagesInv == PagesInv /\ [HotNext]_hotVars => PagesInv'
<1> SUFFICES ASSUME PagesInv, [HotNext]_hotVars PROVE PagesInv'
  OBVIOUS
<1> USE TimesAssumption, NoneAssumption
<1>0. /\ BucketInv /\ BucketInv' /\ HotTypeOK /\ CountedInTime
      /\ now \in Minutes /\ Minutes \subseteq Nat
  BY StepBucketInv DEF PagesInv, HotTypeOK, Minutes
<1>00. IsZSet(Empty)
  BY DEF IsZSet, Empty
<1> DEFINE PagesOK ==
             /\ DOMAIN snapshot = Minutes /\ \A m \in Minutes : IsZSet(snapshot[m])
             /\ timed \subseteq {m \in Minutes : snapshot[m] # Empty}
             /\ asked \in [Readers -> Minutes]
             /\ command \in [Readers -> {"exists", "union", "expire", "read"}]
<1>01. PagesOK
  BY <1>0 DEF HotTypeOK
<1> SUFFICES now' \in Minutes /\ CountedInTime' /\ PagesOK'
  BY <1>0 DEF PagesInv, HotTypeOK, BucketInv, HotInv, IsZSet
<1>1. ASSUME NEW e \in Events, AddHeat(e) PROVE now' \in Minutes /\ CountedInTime' /\ PagesOK'
  <2>1. PagesOK'
    BY <1>1, <1>01 DEF AddHeat, pages, IsZSet
  <2>2. now' = now /\ CountedInTime'
    <3>1. \A x \in Events : counted[x] \in Nat
      BY <1>0 DEF HotTypeOK
    <3> QED
      BY <1>1, <1>0, <3>1 DEF AddHeat, written, CountedInTime, HotTypeOK
  <2> QED
    BY <2>1, <2>2, <1>0
<1>2. ASSUME NEW e \in Events, NEW h \in Heat, Write(e, h)
      PROVE  now' \in Minutes /\ CountedInTime' /\ PagesOK'
  <2>1. PagesOK'
    BY <1>2, <1>01 DEF Write, pages, IsZSet
  <2> QED
    BY <2>1, <1>2, <1>0 DEF Write, hot, CountedInTime, HotTypeOK
<1>3. CASE Tick
  <2>1. PagesOK'
    BY <1>3, <1>01 DEF Tick, pages, IsZSet
  <2>2. now' \in Minutes /\ now <= now'
    BY <1>3, <1>0 DEF Tick, Minutes
  <2>3. CountedInTime'
    <3>1. \A e \in Events : event[e] # None => event[e].minute \in Nat
      BY <1>0 DEF HotTypeOK, Heat
    <3>2. /\ marked' \subseteq marked /\ event' = event /\ counted' = counted
          /\ now \in Nat /\ now' \in Nat
      BY <2>2, <1>3, <1>0 DEF Tick
    <3> QED
      BY <3>1, <3>2, <2>2, <1>0 DEF CountedInTime
  <2> QED
    BY <2>1, <2>2, <2>3
<1>4. CASE UNCHANGED <<written, hot>> /\ PagesOK'
  BY <1>4, <1>0 DEF written, hot, CountedInTime
<1>5. ASSUME NEW r \in Readers, NEW m \in Minutes, Exists(r, m) PROVE PagesOK'
  BY <1>5, <1>01 DEF Exists, IsZSet
<1>6. ASSUME NEW r \in Readers, Union(r) PROVE PagesOK'
  <2>1. asked[r] \in Minutes /\ IsZSet(Merged(asked[r]))
    BY <1>0, <1>01, MergedIsZSet
  <2>2. command' \in [Readers -> {"exists", "union", "expire", "read"}] /\ asked' = asked
    BY <1>6, <1>01 DEF Union
  <2>3. CASE UNCHANGED <<snapshot, timed>>
    BY <2>2, <2>3, <1>01 DEF IsZSet
  <2>4. CASE /\ snapshot' = [snapshot EXCEPT ![asked[r]] = Merged(asked[r])]
             /\ timed' = timed \ {asked[r]}
    <3>1. /\ DOMAIN snapshot' = Minutes
          /\ \A m \in Minutes : snapshot'[m] = IF m = asked[r] THEN Merged(asked[r])
                                                              ELSE snapshot[m]
      BY <2>1, <2>4, <1>01
    <3>2. timed' \subseteq {m \in Minutes : snapshot'[m] # Empty}
      BY <3>1, <2>4, <1>01
    <3>3. \A m \in Minutes : IsZSet(snapshot'[m])
      BY <3>1, <2>1, <1>01
    <3> QED
      BY <3>1, <3>2, <3>3, <2>2, <1>01 DEF IsZSet, Empty
  <2> QED
    BY <2>3, <2>4, <1>6 DEF Union
<1>7. ASSUME NEW r \in Readers, Expire(r) PROVE PagesOK'
  BY <1>7, <1>01 DEF Expire, IsZSet, Empty
<1>8. ASSUME NEW r \in Readers, Read(r) PROVE PagesOK'
  BY <1>8, <1>01 DEF Read, IsZSet, Empty
<1>9. ASSUME NEW m \in Minutes, Forget(m) PROVE PagesOK'
  <2>1. /\ DOMAIN snapshot' = Minutes
        /\ \A n \in Minutes : snapshot'[n] = IF n = m THEN Empty ELSE snapshot[n]
    BY <1>9, <1>01 DEF Forget
  <2>2. \A n \in Minutes : IsZSet(snapshot'[n])
    BY <2>1, <1>00, <1>01
  <2>3. timed' \subseteq {n \in Minutes : snapshot'[n] # Empty}
    BY <2>1, <1>9, <1>01 DEF Forget
  <2> QED
    BY <2>1, <2>2, <2>3, <1>9, <1>01 DEF Forget, IsZSet, Empty
<1>10. CASE UNCHANGED hotVars
  BY <1>10, <1>01, <1>4 DEF hotVars, pages, IsZSet, Empty
<1> HIDE DEF PagesOK
<1> QED
  BY <1>1, <1>2, <1>3, <1>4, <1>5, <1>6, <1>7, <1>8, <1>9, <1>10
  DEF HotNext, Exists, Union, Expire, Read, Forget

LEMMA AlwaysPagesInv == HotSpec => []PagesInv
BY InitPagesInv, StepPagesInv, PTL DEF HotSpec

\* Type correctness: the snapshots, too, are sorted sets of videos, whatever buckets
\* were merged into them, and only a snapshot that is there has an expiry.
THEOREM HotTypeCorrect == HotSpec => []HotTypeOK
<1>1. PagesInv => HotTypeOK
  BY DEF PagesInv
<1> QED
  BY <1>1, AlwaysPagesInv, PTL

LEMMA MergedIsTheWindow ==
    ASSUME PagesInv, NEW v \in Videos
    PROVE  Score(Merged(now), v) = Sum(InWindow(v))
<1>1. BucketInv /\ now \in Minutes /\ Minutes = 0..LastMinute
  BY DEF PagesInv, HotTypeOK, Minutes
<1>2. ASSUME NEW e \in Events
      PROVE  e \in MarksOf(Span(now), v) <=> e \in InWindow(v)
  <2>1. /\ counted[e] \in Nat
        /\ e \in marked => counted[e] > 0
        /\ counted[e] > 0 => event[e] \in Heat /\ event[e].minute <= now
        /\ counted[e] > 0 => e \in marked \/ event[e].minute + Life <= now
    BY NoneAssumption
    DEF PagesInv, CountedInTime, BucketInv, HotInv, CountedStaysCounted
  <2>2. event[e] \in Heat => event[e].minute \in Minutes
    BY DEF Heat
  <2> QED
    BY <2>1, <2>2, <1>1, TimesAssumption DEF MarksOf, Span, Covers, InWindow
<1>3. MarksOf(Span(now), v) = InWindow(v)
  <2>1. marked \subseteq Events
    BY <1>1 DEF BucketInv, HotInv
  <2> QED
    BY <1>2, <2>1 DEF MarksOf, InWindow
<1> QED
  BY <1>1, <1>3, MergedIsZSet

\* A snapshot built for the present minute holds for each video the sum of the events
\* counted in its window, each once: no bucket of the window has expired, and none
\* from before it is merged.
THEOREM SnapshotsAreTheWindow == HotSpec => SnapshotIsTheWindow
<1> DEFINE Right ==
             \A r \in Readers :
               Union(r) /\ asked[r] = now /\ snapshot'[now] # snapshot[now]
                 => \A v \in Videos : Score(snapshot'[now], v) = Sum(InWindow(v))
<1>1. PagesInv => Right
  <2> SUFFICES ASSUME PagesInv, NEW r \in Readers,
                      Union(r), asked[r] = now, snapshot'[now] # snapshot[now],
                      NEW v \in Videos
               PROVE  Score(snapshot'[now], v) = Sum(InWindow(v))
    OBVIOUS
  <2>1. snapshot'[now] = Merged(now)
    BY DEF Union, PagesInv, HotTypeOK
  <2> QED
    BY <2>1, MergedIsTheWindow
<1>2. PagesInv /\ [HotNext]_hotVars => [Right]_hotVars
  BY <1>1
<1> HIDE DEF Right
<1>3. HotSpec => [][Right]_hotVars
  BY <1>2, AlwaysPagesInv, PTL DEF HotSpec
<1> QED
  BY <1>3 DEF Right, SnapshotIsTheWindow
=============================================================================
