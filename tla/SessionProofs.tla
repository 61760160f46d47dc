---------------------------- MODULE SessionProofs ----------------------------
(***************************************************************************)
(* Theorems about Session, for all tabs, requests, tokens and faults.      *)
(***************************************************************************)
EXTENDS Session, TLAPS

\* The requests that are at a step of their tab's refresh before its new token.
RefreshSteps == {"lookup", "find", "update", "scan", "rescan"}

Login(c) == Busy(c) /\ call[c].kind = "login"

\* A request that has gone out again.
Retried(c) == call[c].pc \in {"check", "row"} /\ call[c].retried

\* A request that has changed the row's token and not yet written Redis.
Writing(c) == call[c].pc \in {"set", "store"}

\* Whatever has disturbed the session: a tab that logs in has no refresh token,
\* and only one request logs it in.
RequestsOK ==
    /\ token = 0 => refresh = 0
    /\ \A t \in Tabs : tab[t].token = 0 => tab[t].refresh = 0
    /\ \A c \in Calls : Writing(c) => call[c].new # 0
    /\ \A c \in Calls : call[c].pc = "store" => call[c].new > expired
    /\ \A c \in Calls : Login(c) => call[c].pc \in {"act", "set"} /\ tab[call[c].tab].refresh = 0
    /\ \A c, d \in Calls : Login(c) /\ Login(d) /\ call[c].tab = call[d].tab => c = d

\* A request that writes Redis, now or later, writes the row's token.
WritesTheRow ==
    /\ \A c \in Calls : Writing(c) => call[c].new = token
    /\ \A c \in Calls : call[c].pc = "fill" => call[c].token = token
    /\ \A c \in Calls : call[c].pc = "clear" => cached = 0
    /\ (\A c \in Calls : ~ Writing(c)) => cached \in {0, token}

\* A request that has gone out again is not refused.
RetriedHolds ==
    \A c \in Calls : Retried(c) => call[c].token = token /\ token > expired /\ cached \in {0, token}

\* A refresh asks with its tab's refresh token, unless that is gone.
AsksForItsTab ==
    /\ \A c \in Calls : call[c].pc \in RefreshSteps /\ tab[call[c].tab].refresh # 0
           => call[c].new = tab[call[c].tab].refresh
    /\ \A c, d \in Calls : Login(c) /\ call[c].pc = "set" /\ call[d].pc \in RefreshSteps
           => call[c].tab # call[d].tab

CalmOK == calm => WritesTheRow /\ RetriedHolds /\ AsksForItsTab

SInv == TypeOK /\ RequestsOK /\ CalmOK

-----------------------------------------------------------------------------
(***************************************************************************)
(* What the helpers do to the requests and the tabs.                       *)
(***************************************************************************)
Tab == [token : Tokens, refresh : Tokens, busy : BOOLEAN]

Others(c) == \A d \in Calls \ {c} : call'[d] = call[d]

\* c is at another step of the same request.
Moved(c, step) ==
    /\ Others(c)
    /\ call'[c] \in Request /\ call'[c].pc = step
    /\ call'[c].tab = call[c].tab /\ call'[c].kind = call[c].kind

Ended(c) == Others(c) /\ call'[c] = NoCall

Typed == call' \in [Calls -> {NoCall} \cup Request] /\ tab' \in [Tabs -> Tab]

OtherTabs(t) == \A s \in Tabs \ {t} : tab'[s] = tab[s]

Forgotten(t) == OtherTabs(t) /\ tab'[t].token = 0 /\ tab'[t].refresh = 0

LEMMA ZeroToken == 0 \in Tokens
BY IssuedAssumption DEF Tokens

\* A request in progress is one.
LEMMA ARequest ==
  ASSUME TypeOK, NEW c \in Calls, Busy(c)
  PROVE  call[c] \in Request
BY DEF TypeOK, Busy, NoCall

LEMMA NoCallIsIdle == NoCall.pc = "idle" /\ \A r \in Request : r.pc \in Steps /\ r.pc # "idle"
BY DEF NoCall, Request, Steps

\* To
LEMMA ToMoves ==
  ASSUME TypeOK, NEW c \in Calls, Busy(c), NEW step \in Steps, To(c, step)
  PROVE  /\ call' \in [Calls -> {NoCall} \cup Request]
         /\ Moved(c, step)
         /\ call'[c].token = call[c].token /\ call'[c].retried = call[c].retried
         /\ call'[c].new = call[c].new
<1>1. call[c] \in Request
  BY ARequest
<1>2. [call[c] EXCEPT !.pc = step] \in Request
  BY <1>1 DEF Request
<1> QED
  BY <1>1, <1>2 DEF To, Moved, Others, TypeOK, Request

\* Over
LEMMA OverEnds ==
  ASSUME TypeOK, NEW c \in Calls, Over(c)
  PROVE  call' \in [Calls -> {NoCall} \cup Request] /\ Ended(c)
BY DEF TypeOK, Over, Ended, Others

\* Finish
LEMMA FinishEnds ==
  ASSUME TypeOK, NEW c \in Calls, Busy(c), Finish(c)
  PROVE  /\ Typed /\ Ended(c)
         /\ \/ tab' = tab
            \/ call[c].kind = "logout" /\ Forgotten(call[c].tab)
<1>1. call[c].tab \in Tabs /\ tab[call[c].tab] \in Tab
  BY ARequest DEF Request, TypeOK, Tab
<1>2. [tab[call[c].tab] EXCEPT !.token = 0, !.refresh = 0] \in Tab
  BY <1>1, ZeroToken DEF Tab
<1>3. Over(c) /\ Ended(c) /\ call' \in [Calls -> {NoCall} \cup Request]
  BY OverEnds DEF Finish
<1>4. CASE call[c].kind # "logout"
  BY <1>3, <1>4 DEF Finish, Typed, TypeOK, Tab
<1>5. CASE call[c].kind = "logout"
  <2>1. tab' = [tab EXCEPT ![call[c].tab] = [tab[call[c].tab] EXCEPT !.token = 0, !.refresh = 0]]
    BY <1>1, <1>5 DEF Finish, TypeOK
  <2>2. tab' \in [Tabs -> Tab] /\ Forgotten(call[c].tab)
    BY <1>1, <1>2, <2>1 DEF Forgotten, OtherTabs, TypeOK, Tab
  <2> QED
    BY <1>3, <1>5, <2>2 DEF Typed
<1> QED
  BY <1>4, <1>5

\* Accepted
LEMMA AcceptedMoves ==
  ASSUME TypeOK, NEW c \in Calls, Busy(c), Accepted(c)
  PROVE  /\ Typed /\ tab' = tab
         /\ Moved(c, "act") /\ call'[c].new = call[c].new
<1>1. call[c] \in Request
  BY ARequest
<1>2. [call[c] EXCEPT !.pc = "act", !.token = 0, !.retried = FALSE] \in Request
  BY <1>1, ZeroToken DEF Request, Steps
<1>3. call' = [call EXCEPT ![c] = [call[c] EXCEPT !.pc = "act", !.token = 0, !.retried = FALSE]]
  BY DEF Accepted, TypeOK
<1> QED
  BY <1>1, <1>2, <1>3 DEF Accepted, Typed, Moved, Others, TypeOK, Request, Tab

\* Refused: the request ends and the tab forgets its tokens, or the request
\* joins its tab's refresh, or begins it.
LEMMA RefusedDoes ==
  ASSUME TypeOK, NEW c \in Calls, Busy(c), Refused(c)
  PROVE  /\ Typed
         /\ \/ /\ Ended(c) /\ Forgotten(call[c].tab)
               /\ call[c].retried \/ tab[call[c].tab].refresh = 0
            \/ Moved(c, "await") /\ tab' = tab /\ tab[call[c].tab].refresh # 0
            \/ /\ Moved(c, "lookup") /\ call'[c].new = tab[call[c].tab].refresh
               /\ tab[call[c].tab].refresh # 0
               /\ \A t \in Tabs : tab'[t].token = tab[t].token /\ tab'[t].refresh = tab[t].refresh
<1> DEFINE t == call[c].tab
<1>1. call[c] \in Request /\ t \in Tabs /\ tab[t] \in Tab
  BY ARequest DEF Request, TypeOK, Tab
<1>2. CASE ~ call[c].retried /\ tab[t].refresh # 0 /\ tab[t].busy
  <2>1. [call[c] EXCEPT !.pc = "await", !.token = 0] \in Request
    BY <1>1, ZeroToken DEF Request, Steps
  <2>2. call' = [call EXCEPT ![c] = [call[c] EXCEPT !.pc = "await", !.token = 0]] /\ tab' = tab
    BY <1>2 DEF Refused, TypeOK
  <2> QED
    BY <1>1, <1>2, <2>1, <2>2 DEF Typed, Moved, Others, TypeOK, Request, Tab
<1>3. CASE ~ call[c].retried /\ tab[t].refresh # 0 /\ ~ tab[t].busy
  <2>1. [call[c] EXCEPT !.pc = "lookup", !.token = 0, !.new = tab[t].refresh] \in Request
    BY <1>1, ZeroToken DEF Request, Steps, Tab
  <2>2. [tab[t] EXCEPT !.busy = TRUE] \in Tab
    BY <1>1 DEF Tab
  <2>3. /\ call' = [call EXCEPT ![c] = [call[c] EXCEPT !.pc = "lookup", !.token = 0,
                                                     !.new = tab[t].refresh]]
        /\ tab' = [tab EXCEPT ![t] = [tab[t] EXCEPT !.busy = TRUE]]
    BY <1>1, <1>3 DEF Refused, TypeOK
  <2>4. Typed /\ Moved(c, "lookup") /\ call'[c].new = tab[t].refresh
    BY <1>1, <2>1, <2>2, <2>3 DEF Typed, Moved, Others, TypeOK, Request, Tab
  <2>5. \A s \in Tabs : tab'[s].token = tab[s].token /\ tab'[s].refresh = tab[s].refresh
    BY <1>1, <2>3 DEF TypeOK, Tab
  <2> QED
    BY <1>3, <2>4, <2>5
<1>4. CASE call[c].retried \/ tab[t].refresh = 0
  <2>1. Over(c) /\ tab' = [tab EXCEPT ![t] = [tab[t] EXCEPT !.token = 0, !.refresh = 0]]
    BY <1>1, <1>4 DEF Refused, TypeOK
  <2>2. [tab[t] EXCEPT !.token = 0, !.refresh = 0] \in Tab
    BY <1>1, ZeroToken DEF Tab
  <2>3. tab' \in [Tabs -> Tab] /\ Forgotten(t)
    BY <1>1, <2>1, <2>2 DEF Forgotten, OtherTabs, TypeOK, Tab
  <2> QED
    BY <1>4, <2>1, <2>3, OverEnds DEF Typed
<1> QED
  BY <1>1, <1>2, <1>3, <1>4 DEF Request, Tab

\* Refreshed: the requests of the refresh go out again with the new token.
LEMMA RefreshedDoes ==
  ASSUME TypeOK, NEW c \in Calls, Busy(c), NEW n \in Tokens, Refreshed(c, n)
  PROVE  /\ Typed
         /\ OtherTabs(call[c].tab)
         /\ tab'[call[c].tab].token = n /\ tab'[call[c].tab].refresh = tab[call[c].tab].refresh
         /\ \A d \in Calls : Waits(d, c) =>
               /\ call'[d] \in Request /\ call'[d].pc = "check" /\ call'[d].retried
               /\ call'[d].token = n /\ call'[d].kind = call[d].kind
         /\ \A d \in Calls : ~ Waits(d, c) => call'[d] = call[d]
         /\ Waits(c, c)
<1> DEFINE t == call[c].tab
<1>1. t \in Tabs /\ tab[t] \in Tab
  BY ARequest DEF Request, TypeOK, Tab
<1>2. [tab[t] EXCEPT !.token = n, !.busy = FALSE] \in Tab
  BY <1>1 DEF Tab
<1>3. tab' = [tab EXCEPT ![t] = [tab[t] EXCEPT !.token = n, !.busy = FALSE]]
  BY <1>1 DEF Refreshed, TypeOK
<1>4. /\ tab' \in [Tabs -> Tab] /\ OtherTabs(t)
      /\ tab'[t].token = n /\ tab'[t].refresh = tab[t].refresh
  BY <1>1, <1>2, <1>3 DEF OtherTabs, TypeOK, Tab
<1>5. Waits(c, c)
  BY DEF Waits
<1>6. ASSUME NEW d \in Calls, Waits(d, c)
      PROVE  /\ Again(d, n) \in Request /\ Again(d, n).pc = "check" /\ Again(d, n).retried
             /\ Again(d, n).token = n /\ Again(d, n).kind = call[d].kind
  <2>1. call[d] \in Request
    BY <1>6, ARequest DEF Waits
  <2> QED
    BY <2>1, ZeroToken DEF Again, Request, Steps
<1>7. call' = [d \in Calls |-> IF Waits(d, c) THEN Again(d, n) ELSE call[d]]
  BY DEF Refreshed
<1>8. ASSUME NEW d \in Calls PROVE call'[d] = IF Waits(d, c) THEN Again(d, n) ELSE call[d]
  BY <1>7
<1>9. call' \in [Calls -> {NoCall} \cup Request]
  BY <1>6, <1>7 DEF TypeOK
<1> QED
  BY <1>4, <1>5, <1>6, <1>8, <1>9 DEF Typed

\* NotRefreshed: they end, and the tab forgets its tokens.
LEMMA NotRefreshedDoes ==
  ASSUME TypeOK, NEW c \in Calls, Busy(c), NotRefreshed(c)
  PROVE  /\ Typed
         /\ Forgotten(call[c].tab)
         /\ \A d \in Calls : call'[d] = IF Waits(d, c) THEN NoCall ELSE call[d]
<1>1. call[c].tab \in Tabs
  BY ARequest DEF Request
<1>2. NoTokens \in Tab /\ NoTokens.token = 0 /\ NoTokens.refresh = 0
  BY ZeroToken DEF NoTokens, Tab
<1>3. tab' \in [Tabs -> Tab] /\ Forgotten(call[c].tab)
  BY <1>1, <1>2 DEF NotRefreshed, Forgotten, OtherTabs, TypeOK, Tab
<1>4. \A d \in Calls : call'[d] = IF Waits(d, c) THEN NoCall ELSE call[d]
  BY DEF NotRefreshed
<1>5. call' \in [Calls -> {NoCall} \cup Request]
  BY DEF NotRefreshed, TypeOK
<1> QED
  BY <1>3, <1>4, <1>5 DEF Typed

\* Nothing of the row or of the clock changes, and a disturbed session stays so.
Quiet == UNCHANGED <<token, refresh, issued, expired>> /\ (calm' => calm)

LEMMA RefusedKeeps ==
  ASSUME SInv, NEW c \in Calls, call[c].pc \in {"check", "row"}, Refused(c),
         Quiet, cached' = cached
  PROVE  RequestsOK' /\ CalmOK'
<1>1. TypeOK /\ RequestsOK /\ Busy(c) /\ ~ Login(c)
  BY DEF SInv, RequestsOK, Busy, Login
<1>2. \/ Ended(c) /\ Forgotten(call[c].tab)
      \/ Moved(c, "await") /\ tab' = tab
      \/ /\ Moved(c, "lookup") /\ call'[c].new = tab[call[c].tab].refresh
         /\ tab[call[c].tab].refresh # 0
         /\ \A t \in Tabs : tab'[t].token = tab[t].token /\ tab'[t].refresh = tab[t].refresh
  BY <1>1, RefusedDoes
<1>3. call[c].tab \in Tabs /\ \A d \in Calls : Busy(d) => call[d].tab \in Tabs
  BY <1>1, ARequest DEF Request
<1>4. RequestsOK'
  BY <1>2, <1>1, <1>3, NoCallIsIdle
  DEF RequestsOK, Login, Busy, Writing, Moved, Ended, Others, Forgotten, OtherTabs, Quiet
<1>5. ASSUME calm' PROVE (WritesTheRow /\ RetriedHolds /\ AsksForItsTab)'
  <2>1. WritesTheRow /\ RetriedHolds /\ AsksForItsTab
    BY <1>2, <1>5 DEF SInv, CalmOK, Quiet
  <2>2. WritesTheRow'
    BY <1>2, <1>5, <2>1, NoCallIsIdle DEF WritesTheRow, Writing, Busy, Moved, Ended, Others, Quiet
  <2>3. RetriedHolds'
    BY <1>2, <1>5, <2>1, NoCallIsIdle
    DEF RetriedHolds, WritesTheRow, Writing, Retried, Busy, Moved, Ended, Others, Quiet
  <2>4. AsksForItsTab'
    BY <1>2, <1>1, <1>3, <1>5, <2>1, NoCallIsIdle
    DEF AsksForItsTab, RequestsOK, RefreshSteps, Login, Busy, Moved, Ended, Others, Forgotten,
        OtherTabs, Quiet
  <2> QED
    BY <2>2, <2>3, <2>4
<1> QED
  BY <1>4, <1>5 DEF CalmOK

LEMMA ToKeeps ==
  ASSUME SInv, NEW c \in Calls, NEW step \in Steps, To(c, step),
         <<call[c].pc, step>> \in
             {<<"check", "row">>, <<"row", "fill">>, <<"del", "clear">>, <<"scan", "rescan">>}
             \cup ({"lookup", "find"} \X {"find", "update", "scan"}),
         step = "fill" => call[c].token = token,
         cached' \in {0, cached}, step = "clear" /\ calm' => cached' = 0,
         Quiet, tab' = tab
  PROVE  RequestsOK' /\ CalmOK'
<1>1. TypeOK /\ RequestsOK /\ Busy(c) /\ ~ Login(c) /\ ~ Writing(c)
  BY DEF SInv, RequestsOK, Busy, Login, Writing
<1>2. /\ Moved(c, step) /\ call'[c].token = call[c].token /\ call'[c].retried = call[c].retried
      /\ call'[c].new = call[c].new
      /\ step \notin {"check", "act", "set", "store"}
      /\ step = "row" => call[c].pc = "check"
      /\ step \in RefreshSteps => call[c].pc \in RefreshSteps
  BY <1>1, ToMoves DEF RefreshSteps
<1>3. RequestsOK'
  BY <1>2, <1>1, NoCallIsIdle
  DEF RequestsOK, Login, Busy, Writing, Moved, Others, Quiet
<1>4. ASSUME calm' PROVE (WritesTheRow /\ RetriedHolds /\ AsksForItsTab)'
  <2>1. WritesTheRow /\ RetriedHolds /\ AsksForItsTab
    BY <1>2, <1>4 DEF SInv, CalmOK, Quiet
  <2>2. WritesTheRow'
    BY <1>2, <1>4, <2>1, NoCallIsIdle DEF WritesTheRow, Writing, Busy, Moved, Others, Quiet
  <2>3. RetriedHolds'
    BY <1>2, <1>4, <2>1, NoCallIsIdle
    DEF RetriedHolds, WritesTheRow, Writing, Retried, Busy, Moved, Others, Quiet
  <2>4. AsksForItsTab'
    BY <1>2, <1>1, <1>4, <2>1, NoCallIsIdle
    DEF AsksForItsTab, RequestsOK, RefreshSteps, Login, Busy, Moved, Others, Quiet
  <2> QED
    BY <2>2, <2>3, <2>4
<1> QED
  BY <1>3, <1>4 DEF CalmOK

LEMMA FinishKeeps ==
  ASSUME SInv, NEW c \in Calls, Busy(c), Finish(c), Writing(c) => ~ calm', Quiet, cached' = cached
  PROVE  RequestsOK' /\ CalmOK'
<1>1. TypeOK /\ RequestsOK
  BY DEF SInv
<1>2. Ended(c) /\ (tab' = tab \/ Forgotten(call[c].tab))
  BY <1>1, FinishEnds
<1>3. call[c].tab \in Tabs /\ \A d \in Calls : Busy(d) => call[d].tab \in Tabs
  BY <1>1, ARequest DEF Request
<1>4. RequestsOK'
  BY <1>2, <1>1, <1>3, NoCallIsIdle
  DEF RequestsOK, Login, Busy, Writing, Ended, Others, Forgotten, OtherTabs, Quiet
<1>5. ASSUME calm' PROVE (WritesTheRow /\ RetriedHolds /\ AsksForItsTab)'
  <2>1. WritesTheRow /\ RetriedHolds /\ AsksForItsTab
    BY <1>2, <1>5 DEF SInv, CalmOK, Quiet
  <2>2. WritesTheRow'
    BY <1>2, <1>5, <2>1, NoCallIsIdle DEF WritesTheRow, Writing, Busy, Ended, Others, Quiet
  <2>3. RetriedHolds'
    BY <1>2, <1>5, <2>1, NoCallIsIdle
    DEF RetriedHolds, WritesTheRow, Writing, Retried, Busy, Ended, Others, Quiet
  <2>4. AsksForItsTab'
    BY <1>2, <1>1, <1>3, <1>5, <2>1, NoCallIsIdle
    DEF AsksForItsTab, RequestsOK, RefreshSteps, Login, Busy, Ended, Others, Forgotten,
        OtherTabs, Quiet
  <2> QED
    BY <2>2, <2>3, <2>4
<1> QED
  BY <1>4, <1>5 DEF CalmOK

LEMMA NotRefreshedKeeps ==
  ASSUME SInv, NEW c \in Calls, Busy(c), NotRefreshed(c), Writing(c) => ~ calm',
         Quiet, cached' = cached
  PROVE  RequestsOK' /\ CalmOK'
<1>1. TypeOK /\ RequestsOK
  BY DEF SInv
<1>2. /\ Forgotten(call[c].tab)
      /\ \A d \in Calls : call'[d] = call[d] \/ (call'[d] = NoCall /\ (Writing(d) => d = c))
  BY <1>1, NotRefreshedDoes DEF Waits, Writing
<1>3. call[c].tab \in Tabs /\ \A d \in Calls : Busy(d) => call[d].tab \in Tabs
  BY <1>1, ARequest DEF Request
<1>4. RequestsOK'
  BY <1>2, <1>1, <1>3, NoCallIsIdle
  DEF RequestsOK, Login, Busy, Writing, Forgotten, OtherTabs, Quiet
<1>5. ASSUME calm' PROVE (WritesTheRow /\ RetriedHolds /\ AsksForItsTab)'
  <2>1. WritesTheRow /\ RetriedHolds /\ AsksForItsTab
    BY <1>2, <1>5 DEF SInv, CalmOK, Quiet
  <2>2. WritesTheRow'
    BY <1>2, <1>5, <2>1, NoCallIsIdle DEF WritesTheRow, Writing, Busy, Quiet
  <2>3. RetriedHolds'
    BY <1>2, <1>5, <2>1, NoCallIsIdle DEF RetriedHolds, WritesTheRow, Writing, Retried, Busy, Quiet
  <2>4. AsksForItsTab'
    BY <1>2, <1>1, <1>3, <1>5, <2>1, NoCallIsIdle
    DEF AsksForItsTab, RequestsOK, RefreshSteps, Login, Busy, Forgotten, OtherTabs, Quiet
  <2> QED
    BY <2>2, <2>3, <2>4
<1> QED
  BY <1>4, <1>5 DEF CalmOK

\* A request goes on to its handler, where Redis may have been filled, or on in it.
LEMMA HandledKeeps ==
  ASSUME SInv, NEW c \in Calls, call[c].pc \in {"check", "fill", "act"}, ~ Login(c),
         NEW step \in {"act", "del"}, Moved(c, step), tab' = tab, Quiet,
         \/ cached' = cached
         \/ calm' => cached' = token /\ \A d \in Calls : call[d].pc # "clear"
  PROVE  RequestsOK' /\ CalmOK'
<1>1. RequestsOK
  BY DEF SInv
<1>2. ~ Writing(c) /\ Moved(c, step) /\ tab' = tab
  BY DEF Writing
<1>3. RequestsOK'
  BY <1>2, <1>1, NoCallIsIdle
  DEF RequestsOK, Login, Busy, Writing, Moved, Others, Quiet
<1>4. ASSUME calm' PROVE (WritesTheRow /\ RetriedHolds /\ AsksForItsTab)'
  <2>1. WritesTheRow /\ RetriedHolds /\ AsksForItsTab
    BY <1>2, <1>4 DEF SInv, CalmOK, Quiet
  <2>2. WritesTheRow'
    BY <1>2, <1>4, <2>1, NoCallIsIdle DEF WritesTheRow, Writing, Busy, Moved, Others, Quiet
  <2>3. RetriedHolds'
    BY <1>2, <1>4, <2>1, NoCallIsIdle
    DEF RetriedHolds, WritesTheRow, Writing, Retried, Busy, Moved, Others, Quiet
  <2>4. AsksForItsTab'
    BY <1>2, <1>1, <1>4, <2>1, NoCallIsIdle
    DEF AsksForItsTab, RequestsOK, RefreshSteps, Login, Busy, Moved, Others, Quiet
  <2> QED
    BY <2>2, <2>3, <2>4
<1> QED
  BY <1>3, <1>4 DEF CalmOK

-----------------------------------------------------------------------------
(***************************************************************************)
(* Every step keeps the parts of the invariant.                            *)
(***************************************************************************)
LEMMA BeginKeeps ==
  ASSUME SInv, NEW c \in Calls, NEW t \in Tabs, NEW kind \in Kinds, Begin(c, t, kind)
  PROVE  RequestsOK' /\ CalmOK'
<1> DEFINE r == [pc |-> IF kind \in {"login", "password"} THEN "act" ELSE "check",
                 tab |-> t, kind |-> kind,
                 token |-> IF kind = "password" THEN 0 ELSE tab[t].token,
                 retried |-> FALSE, new |-> 0]
<1>1. TypeOK /\ RequestsOK
  BY DEF SInv
<1>2. r \in Request
  BY <1>1, ZeroToken DEF TypeOK, Request, Steps
<1>3. call' = [call EXCEPT ![c] = r]
  BY DEF Begin
<1>4. /\ ~ Busy(c) /\ Others(c) /\ call'[c].pc \in {"act", "check"}
      /\ call'[c].tab = t /\ call'[c].kind = kind /\ ~ call'[c].retried
      /\ kind = "login" => /\ call'[c].pc = "act" /\ tab[t].token = 0
                           /\ \A d \in Calls : Busy(d) => call[d].tab # t \/ call[d].kind # "login"
      /\ UNCHANGED <<token, refresh, cached, expired, tab, calm>>
  BY <1>1, <1>2, <1>3 DEF Begin, TypeOK, Others, row
<1> HIDE DEF r
<1>5. RequestsOK'
  BY <1>4, <1>1, NoCallIsIdle
  DEF RequestsOK, Login, Busy, Writing, Others
<1>6. ASSUME calm' PROVE (WritesTheRow /\ RetriedHolds /\ AsksForItsTab)'
  <2>1. WritesTheRow /\ RetriedHolds /\ AsksForItsTab
    BY <1>4, <1>6 DEF SInv, CalmOK
  <2>2. WritesTheRow'
    BY <1>4, <1>6, <2>1, NoCallIsIdle DEF WritesTheRow, Writing, Busy, Others
  <2>3. RetriedHolds'
    BY <1>4, <1>6, <2>1, NoCallIsIdle DEF RetriedHolds, WritesTheRow, Writing, Retried, Busy, Others
  <2>4. AsksForItsTab'
    BY <1>4, <1>1, <1>6, <2>1, NoCallIsIdle
    DEF AsksForItsTab, RequestsOK, RefreshSteps, Login, Busy, Others
  <2> QED
    BY <2>2, <2>3, <2>4
<1> QED
  BY <1>5, <1>6 DEF CalmOK

LEMMA CheckKeeps ==
  ASSUME SInv, NEW c \in Calls, Check(c)
  PROVE  RequestsOK' /\ CalmOK'
<1>1. /\ call[c].pc = "check" /\ Busy(c) /\ Quiet /\ cached' = cached
      /\ Refused(c) \/ Accepted(c) \/ (To(c, "row") /\ tab' = tab)
  BY DEF Check, Busy, Quiet, NoFault, Fault, row
<1>2. TypeOK /\ ~ Login(c)
  BY <1>1 DEF SInv, RequestsOK, Login
<1>3. CASE Refused(c)
  BY <1>1, <1>3, RefusedKeeps
<1>4. CASE Accepted(c)
  BY <1>1, <1>4, <1>2, AcceptedMoves, HandledKeeps
<1>5. CASE To(c, "row") /\ tab' = tab
  BY <1>1, <1>5, ToKeeps DEF Steps
<1> QED
  BY <1>1, <1>3, <1>4, <1>5

LEMMA CheckRowKeeps ==
  ASSUME SInv, NEW c \in Calls, CheckRow(c)
  PROVE  RequestsOK' /\ CalmOK'
<1>1. call[c].pc = "row" /\ Quiet /\ cached' = cached
  BY DEF CheckRow, Quiet, row
<1>2. CASE token # call[c].token
  BY <1>1, <1>2, RefusedKeeps DEF CheckRow
<1>3. CASE token = call[c].token
  <2>1. To(c, "fill") /\ tab' = tab
    BY <1>3 DEF CheckRow
  <2> QED
    BY <1>1, <1>3, <2>1, ToKeeps DEF Steps
<1> QED
  BY <1>2, <1>3

LEMMA FillKeeps ==
  ASSUME SInv, NEW c \in Calls, Fill(c)
  PROVE  RequestsOK' /\ CalmOK'
<1>1. call[c].pc = "fill" /\ Busy(c) /\ Accepted(c)
      /\ UNCHANGED <<token, refresh, issued, expired>>
  BY DEF Fill, Busy, row
<1>2. calm' => calm /\ cached' = call[c].token /\ \A d \in Calls : call[d].pc # "clear"
  BY DEF Fill, Cache, NoLogout, Fault
<1>3. calm => call[c].token = token
  BY <1>1 DEF SInv, CalmOK, WritesTheRow
<1>4. TypeOK /\ ~ Login(c)
  BY <1>1 DEF SInv, RequestsOK, Login
<1>5. tab' = tab /\ Moved(c, "act")
  BY <1>1, <1>4, AcceptedMoves
<1> QED
  BY <1>1, <1>2, <1>3, <1>4, <1>5, HandledKeeps DEF Quiet

\* The handler.
LEMMA IssueDoes ==
  ASSUME TypeOK, NEW c \in Calls, Issue(c)
  PROVE  /\ issued + 1 \in Tokens /\ issued + 1 # 0 /\ issued + 1 > expired
         /\ issued' = issued + 1 /\ token' = issued + 1
         /\ expired' = expired /\ faults' = faults
         /\ issued' \in Tokens /\ (expired' \in 0..issued')
<1>1. /\ issued \in 0..MaxIssued /\ expired \in 0..issued
      /\ MaxIssued \in Nat
  BY IssuedAssumption DEF TypeOK, Tokens
<1>2. /\ issued < MaxIssued /\ issued' = issued + 1 /\ token' = issued + 1
      /\ expired' = expired /\ faults' = faults
  BY DEF Issue
<1>3. issued + 1 \in Tokens /\ issued + 1 # 0 /\ issued + 1 > expired
  BY <1>1, <1>2 DEF Tokens
<1>4. issued' \in Tokens /\ expired' \in 0..issued'
  BY <1>1, <1>2 DEF Tokens
<1> QED
  BY <1>2, <1>3, <1>4

\* Login and Rename.
LEMMA IssuingKeeps ==
  ASSUME SInv, NEW c \in Calls, call[c].pc = "act", Issue(c), refresh' \in {refresh, issued + 1},
         calm' => Alone(c), tab' = tab, cached' = cached,
         Moved(c, "set"), call'[c].new = issued + 1
  PROVE  RequestsOK' /\ CalmOK'
<1>1. TypeOK /\ RequestsOK /\ Busy(c)
  BY DEF SInv, Busy
<1>2. /\ Others(c) /\ call'[c].pc = "set" /\ call'[c].tab = call[c].tab
      /\ call'[c].kind = call[c].kind /\ call'[c].new = token'
      /\ token' # 0 /\ expired' = expired
  BY <1>1, IssueDoes DEF Moved
<1>3. RequestsOK'
  BY <1>2, <1>1 DEF RequestsOK, Login, Busy, Writing, Others
<1>4. ASSUME calm' PROVE (WritesTheRow /\ RetriedHolds /\ AsksForItsTab)'
  <2>1. \A d \in Calls \ {c} : call'[d].pc \in {"idle", "await"}
    BY <1>2, <1>4 DEF Alone, Busy, Others
  <2> QED
    BY <1>2, <2>1 DEF WritesTheRow, RetriedHolds, AsksForItsTab, Writing, Retried, RefreshSteps
<1> QED
  BY <1>3, <1>4 DEF CalmOK

LEMMA ActKeeps ==
  ASSUME SInv, NEW c \in Calls, Act(c)
  PROVE  RequestsOK' /\ CalmOK'
<1>1. call[c].pc = "act" /\ Busy(c) /\ cached' = cached /\ ~ Writing(c)
  BY DEF Act, Busy, Writing
<1>2. call[c] \in Request /\ TypeOK
  BY <1>1, ARequest DEF SInv
<1>3. CASE call[c].kind = "api"
  <2>1. Finish(c) /\ Quiet
    BY <1>3 DEF Act, Finish, Quiet, row
  <2> QED
    BY <1>1, <2>1, FinishKeeps
<1>4. CASE call[c].kind \in {"logout", "password"} /\ token = 0
  <2>1. Finish(c) /\ Quiet
    BY <1>4 DEF Act, Quiet, row
  <2> QED
    BY <1>1, <2>1, FinishKeeps
<1>5. CASE call[c].kind \in {"logout", "password"} /\ token # 0
  <2>1. call' = [call EXCEPT ![c].pc = "del", ![c].new = refresh] /\ tab' = tab /\ Quiet
    BY <1>5 DEF Act, Quiet, row
  <2>2. [call[c] EXCEPT !.pc = "del", !.new = refresh] \in Request
    BY <1>2 DEF Request, Steps, TypeOK
  <2>3. call' = [call EXCEPT ![c] = [call[c] EXCEPT !.pc = "del", !.new = refresh]]
    BY <1>2, <2>1 DEF TypeOK
  <2>4. Moved(c, "del")
    BY <1>2, <2>2, <2>3 DEF Moved, Others, TypeOK, Request
  <2> QED
    BY <1>1, <1>5, <2>1, <2>4, HandledKeeps DEF Login
<1>6. CASE call[c].kind \in {"login", "rename"}
  <2>1. /\ Issue(c) /\ refresh' \in {refresh, issued + 1} /\ (calm' => Alone(c)) /\ tab' = tab
        /\ call' = [call EXCEPT ![c].pc = "set", ![c].new = issued + 1]
    BY <1>6 DEF Act
  <2>2. issued + 1 \in Tokens
    BY <1>2, <2>1, IssueDoes
  <2>3. [call[c] EXCEPT !.pc = "set", !.new = issued + 1] \in Request
    BY <1>2, <2>2 DEF Request, Steps
  <2>4. call' = [call EXCEPT ![c] = [call[c] EXCEPT !.pc = "set", !.new = issued + 1]]
    BY <1>2, <2>1 DEF TypeOK
  <2>5. Moved(c, "set") /\ call'[c].new = issued + 1
    BY <1>2, <2>3, <2>4 DEF Moved, Others, TypeOK, Request
  <2> QED
    BY <1>1, <2>1, <2>5, IssuingKeeps
<1> QED
  BY <1>2, <1>3, <1>4, <1>5, <1>6 DEF Request, Kinds

LEMMA SetKeeps ==
  ASSUME SInv, NEW c \in Calls, Set(c)
  PROVE  RequestsOK' /\ CalmOK'
<1> DEFINE t == call[c].tab
<1>1. TypeOK /\ RequestsOK /\ Busy(c) /\ Writing(c) /\ call[c].pc = "set"
  BY DEF SInv, Set, Busy, Writing
<1>2. call[c] \in Request /\ \A d \in Calls : Busy(d) => call[d].tab \in Tabs
  BY <1>1, ARequest DEF Request
<1>3. Ended(c) /\ UNCHANGED <<token, refresh, expired>> /\ call[c].new # 0
  BY <1>1, OverEnds DEF Set, RequestsOK, row
<1>4. /\ OtherTabs(t) /\ tab'[t].token = call[c].new
      /\ tab'[t].refresh = IF Login(c) THEN call[c].new ELSE tab[t].refresh
  <2>1. tab[t] \in Tab /\ t \in Tabs
    BY <1>1, <1>2 DEF TypeOK, Tab, Request
  <2>2. CASE Login(c)
    <3>1. tab' = [tab EXCEPT ![t] = [tab[t] EXCEPT !.token = call[c].new, !.refresh = call[c].new]]
      BY <2>1, <2>2, <1>1 DEF Set, Login, TypeOK
    <3> QED
      BY <1>1, <2>1, <2>2, <3>1 DEF OtherTabs, TypeOK, Tab
  <2>3. CASE ~ Login(c)
    <3>1. tab' = [tab EXCEPT ![t] = [tab[t] EXCEPT !.token = call[c].new, !.refresh = tab[t].refresh]]
      BY <2>1, <2>3, <1>1 DEF Set, Login, TypeOK
    <3> QED
      BY <1>1, <2>1, <2>3, <3>1 DEF OtherTabs, TypeOK, Tab
  <2> QED
    BY <2>2, <2>3
<1>5. calm' => calm /\ cached' = call[c].new /\ \A d \in Calls : call[d].pc # "clear"
  BY DEF Set, NoLogout, Fault
<1> HIDE DEF t
<1>6. /\ Ended(c) /\ UNCHANGED <<token, refresh, expired>>
      /\ OtherTabs(t) /\ tab'[t].token = call[c].new /\ t = call[c].tab
      /\ tab'[t].refresh = IF Login(c) THEN call[c].new ELSE tab[t].refresh
  BY <1>3, <1>4 DEF t
<1>7. RequestsOK'
  <2>1. \A d \in Calls : Login(d)' => /\ d # c /\ Login(d) /\ call'[d] = call[d]
                                      /\ (call[d].tab = t => ~ Login(c))
    BY <1>6, <1>1, NoCallIsIdle DEF Ended, Others, Login, Busy, RequestsOK
  <2>2. \A d \in Calls : Login(d)' => call'[d].pc \in {"act", "set"} /\ tab'[call'[d].tab].refresh = 0
    BY <1>6, <1>1, <1>2, <2>1 DEF OtherTabs, RequestsOK, Login
  <2> QED
    BY <1>6, <1>1, <1>3, <2>1, <2>2, NoCallIsIdle
    DEF RequestsOK, Writing, Ended, Others, OtherTabs
<1>8. ASSUME calm' PROVE (WritesTheRow /\ RetriedHolds /\ AsksForItsTab)'
  <2>1. /\ calm /\ WritesTheRow /\ RetriedHolds /\ AsksForItsTab
        /\ cached' = token /\ \A d \in Calls : call[d].pc # "clear"
    BY <1>1, <1>5, <1>8 DEF SInv, CalmOK, WritesTheRow
  <2>2. WritesTheRow'
    BY <1>6, <2>1, NoCallIsIdle DEF WritesTheRow, Writing, Ended, Others
  <2>3. RetriedHolds'
    BY <1>6, <2>1, NoCallIsIdle DEF RetriedHolds, Retried, Ended, Others
  <2>4. AsksForItsTab'
    <3>1. ASSUME NEW d \in Calls, call'[d].pc \in RefreshSteps, tab'[call'[d].tab].refresh # 0
          PROVE  call'[d].new = tab'[call'[d].tab].refresh
      <4>1. d # c /\ call'[d] = call[d] /\ Busy(d) /\ call[d].pc \in RefreshSteps
        BY <1>6, <3>1, NoCallIsIdle DEF Ended, Others, RefreshSteps, Busy
      <4>2. Login(c) => call[d].tab # t
        BY <1>6, <1>1, <2>1, <4>1 DEF AsksForItsTab
      <4>3. tab'[call[d].tab].refresh = tab[call[d].tab].refresh
        BY <1>6, <1>2, <4>1, <4>2 DEF OtherTabs
      <4> QED
        BY <2>1, <3>1, <4>1, <4>3 DEF AsksForItsTab
    <3>2. ASSUME NEW d \in Calls, NEW e \in Calls, Login(d)', call'[d].pc = "set",
                 call'[e].pc \in RefreshSteps
          PROVE  call'[d].tab # call'[e].tab
      <4>1. call'[d] = call[d] /\ call'[e] = call[e]
        BY <1>6, <3>2, NoCallIsIdle DEF Ended, Others, RefreshSteps
      <4> QED
        BY <2>1, <3>2, <4>1 DEF AsksForItsTab, Login, Busy
    <3> QED
      BY <3>1, <3>2 DEF AsksForItsTab
  <2> QED
    BY <2>2, <2>3, <2>4
<1> QED
  BY <1>7, <1>8 DEF CalmOK

LEMMA DelKeeps ==
  ASSUME SInv, NEW c \in Calls, Del(c)
  PROVE  RequestsOK' /\ CalmOK'
<1>1. /\ call[c].pc = "del" /\ To(c, "clear") /\ tab' = tab /\ Quiet
      /\ cached' \in {0, cached} /\ (calm' => cached' = 0)
  BY DEF Del, Deleted, NoFault, Fault, Quiet, row
<1> QED
  BY <1>1, ToKeeps DEF Steps

LEMMA ClearKeeps ==
  ASSUME SInv, NEW c \in Calls, Clear(c)
  PROVE  RequestsOK' /\ CalmOK'
<1>1. TypeOK /\ RequestsOK /\ Busy(c)
  BY DEF SInv, Clear, Busy
<1>2. /\ call[c].pc = "clear" /\ Ended(c) /\ (tab' = tab \/ Forgotten(call[c].tab))
      /\ token' = 0 /\ refresh' = 0 /\ UNCHANGED <<cached, expired>>
      /\ calm' => calm /\ Alone(c)
  BY <1>1, FinishEnds DEF Clear
<1>3. call[c].tab \in Tabs /\ \A d \in Calls : Busy(d) => call[d].tab \in Tabs
  BY <1>1, ARequest DEF Request
<1>4. RequestsOK'
  BY <1>2, <1>1, <1>3, NoCallIsIdle
  DEF RequestsOK, Login, Busy, Writing, Ended, Others, Forgotten, OtherTabs
<1>5. ASSUME calm' PROVE (WritesTheRow /\ RetriedHolds /\ AsksForItsTab)'
  <2>1. \A d \in Calls : call'[d].pc \in {"idle", "await"}
    BY <1>2, <1>5, NoCallIsIdle DEF Alone, Busy, Ended, Others
  <2>2. cached' = 0
    BY <1>2, <1>5 DEF SInv, CalmOK, WritesTheRow
  <2> QED
    BY <2>1, <2>2 DEF WritesTheRow, RetriedHolds, AsksForItsTab, Writing, Retried, RefreshSteps
<1> QED
  BY <1>4, <1>5 DEF CalmOK

\* The refresh.
LEMMA AskingKeeps ==
  ASSUME SInv, NEW c \in Calls, Lookup(c) \/ Find(c)
  PROVE  RequestsOK' /\ CalmOK'
<1>1. PICK step \in {"find", "update", "scan"} : To(c, step)
  BY DEF Lookup, Find
<1>2. call[c].pc \in {"lookup", "find"} /\ cached' = cached /\ tab' = tab /\ Quiet
  BY DEF Lookup, Find, NoFault, Fault, Quiet, row
<1> QED
  BY <1>1, <1>2, ToKeeps DEF Steps

LEMMA UpdateKeeps ==
  ASSUME SInv, NEW c \in Calls, Update(c)
  PROVE  RequestsOK' /\ CalmOK'
<1>1. TypeOK /\ RequestsOK /\ Busy(c) /\ ~ Login(c) /\ call[c].pc = "update"
  BY DEF SInv, Update, Busy, Login, RequestsOK
<1>2. call[c] \in Request
  BY <1>1, ARequest
<1>3. Issue(c) /\ call' = [call EXCEPT ![c] = [call[c] EXCEPT !.pc = "store", !.new = issued + 1]]
  BY <1>1 DEF Update, TypeOK
<1>4. /\ Others(c) /\ call'[c].pc = "store" /\ call'[c].kind = call[c].kind /\ call'[c].new = token'
      /\ token' # 0 /\ token' > expired /\ expired' = expired /\ UNCHANGED <<refresh, cached, tab>>
      /\ calm' => Alone(c)
  <2>1. UNCHANGED <<refresh, cached, tab>> /\ (calm' => Alone(c))
    BY DEF Update
  <2>2. token' = issued + 1 /\ token' # 0 /\ token' > expired /\ expired' = expired
    BY <1>1, <1>3, IssueDoes
  <2>3. /\ Others(c) /\ call'[c].pc = "store" /\ call'[c].kind = call[c].kind
        /\ call'[c].new = issued + 1
    BY <1>1, <1>2, <1>3 DEF TypeOK, Others, Request
  <2> QED
    BY <2>1, <2>2, <2>3
<1>5. RequestsOK'
  BY <1>4, <1>1 DEF RequestsOK, Login, Busy, Writing, Others
<1>6. ASSUME calm' PROVE (WritesTheRow /\ RetriedHolds /\ AsksForItsTab)'
  <2>1. \A d \in Calls \ {c} : call'[d].pc \in {"idle", "await"}
    BY <1>4, <1>6 DEF Alone, Busy, Others
  <2> QED
    BY <1>4, <2>1 DEF WritesTheRow, RetriedHolds, AsksForItsTab, Writing, Retried, RefreshSteps
<1> QED
  BY <1>5, <1>6 DEF CalmOK

\* The requests of a refresh go out again with the row's new token: Store and
\* Rescan.
LEMMA RefreshedKeeps ==
  ASSUME SInv, NEW c \in Calls, Busy(c), ~ Login(c), NEW n \in Tokens, Refreshed(c, n),
         n # 0, n > expired, expired' = expired, token' = 0 => refresh' = 0,
         calm' => /\ calm
                  /\ token' = n /\ cached' \in {0, n}
                  /\ \/ token' = token /\ \A d \in Calls : call[d].pc # "clear"
                     \/ Alone(c)
  PROVE  RequestsOK' /\ CalmOK'
<1> DEFINE t == call[c].tab
<1>1. TypeOK /\ RequestsOK
  BY DEF SInv
<1>2. t \in Tabs /\ \A d \in Calls : Busy(d) => call[d].tab \in Tabs
  BY <1>1, ARequest DEF Request
<1> HIDE DEF t
<1>3. /\ OtherTabs(t) /\ tab'[t].token = n /\ tab'[t].refresh = tab[t].refresh
      /\ \A d \in Calls : Waits(d, c) => /\ call'[d].pc = "check" /\ call'[d].retried
                                         /\ call'[d].token = n /\ call'[d].kind = call[d].kind
      /\ \A d \in Calls : ~ Waits(d, c) => call'[d] = call[d] /\ d # c
  BY <1>1, RefreshedDoes DEF t, Waits
<1>4. \A s \in Tabs : tab'[s].refresh = tab[s].refresh
  BY <1>3, <1>2 DEF OtherTabs
<1>5. \A d \in Calls : Login(d)' => Login(d) /\ call'[d] = call[d]
  <2>1. \A d \in Calls : Waits(d, c) => Busy(d) /\ ~ Login(d)
    BY <1>1 DEF Waits, RequestsOK, Login, Busy
  <2> QED
    BY <1>3, <2>1 DEF Login, Busy
<1>6. RequestsOK'
  <2>1. \A d \in Calls : Writing(d)' => Writing(d) /\ call'[d] = call[d]
    BY <1>3 DEF Writing
  <2>2. \A d \in Calls : call'[d].pc = "store" => call'[d] = call[d]
    BY <1>3
  <2>3. \A s \in Tabs : tab'[s].token = 0 => tab'[s].refresh = 0
    BY <1>3, <1>1, <1>4 DEF OtherTabs, RequestsOK
  <2>4. \A d \in Calls : Login(d) => call[d].tab \in Tabs
    BY <1>2 DEF Login
  <2> QED
    BY <1>1, <1>4, <1>5, <2>1, <2>2, <2>3, <2>4 DEF RequestsOK
<1>7. ASSUME calm' PROVE (WritesTheRow /\ RetriedHolds /\ AsksForItsTab)'
  <2>1. WritesTheRow /\ RetriedHolds /\ AsksForItsTab /\ token' = n /\ cached' \in {0, n}
    BY <1>7 DEF SInv, CalmOK
  <2>2. \A d \in Calls : call'[d].pc \in {"set", "store", "fill", "clear", "row"} => call'[d] = call[d] /\ d # c
    BY <1>3
  <2>3. ASSUME NEW d \in Calls, call'[d] = call[d], d # c, Alone(c)
        PROVE  call'[d].pc \in {"idle", "await"}
    BY <2>3 DEF Alone, Busy
  <2>4. WritesTheRow'
    BY <1>7, <2>1, <2>2, <2>3 DEF WritesTheRow, Writing
  <2>5. RetriedHolds'
    <3>1. ASSUME NEW d \in Calls, Waits(d, c)
          PROVE  call'[d].token = token' /\ token' > expired' /\ cached' \in {0, token'}
      BY <1>3, <2>1, <3>1
    <3>2. ASSUME NEW d \in Calls, ~ Waits(d, c), Retried(d)'
          PROVE  call'[d].token = token' /\ token' > expired' /\ cached' \in {0, token'}
      <4>1. call'[d] = call[d] /\ d # c /\ Retried(d)
        BY <1>3, <3>2 DEF Retried
      <4>2. token' = token
        BY <1>7, <2>3, <4>1 DEF Retried
      <4> QED
        BY <2>1, <4>1, <4>2 DEF RetriedHolds
    <3> QED
      BY <3>1, <3>2 DEF RetriedHolds
  <2>6. AsksForItsTab'
    <3>1. \A d \in Calls : call'[d].pc \in RefreshSteps => call'[d] = call[d] /\ Busy(d)
      BY <1>3 DEF RefreshSteps, Busy
    <3> QED
      BY <1>2, <1>4, <1>5, <2>1, <3>1 DEF AsksForItsTab
  <2> QED
    BY <2>4, <2>5, <2>6
<1> QED
  BY <1>6, <1>7 DEF CalmOK

LEMMA StoreKeeps ==
  ASSUME SInv, NEW c \in Calls, Store(c)
  PROVE  RequestsOK' /\ CalmOK'
<1>1. /\ call[c].pc = "store" /\ Busy(c) /\ Refreshed(c, call[c].new)
      /\ UNCHANGED <<token, refresh, expired>>
      /\ calm' => calm /\ cached' = call[c].new /\ \A d \in Calls : call[d].pc # "clear"
  BY DEF Store, Busy, Cache, NoLogout, Fault, row
<1>2. TypeOK /\ ~ Login(c) /\ call[c].new # 0 /\ call[c].new > expired
  BY <1>1 DEF SInv, RequestsOK, Login, Writing
<1>3. call[c].new \in Tokens
  BY <1>1, <1>2, ARequest DEF Request
<1>4. calm => token = call[c].new
  BY <1>1 DEF SInv, CalmOK, WritesTheRow, Writing
<1>5. token = 0 => refresh = 0
  BY DEF SInv, RequestsOK
<1> QED
  BY <1>1, <1>2, <1>3, <1>4, <1>5, RefreshedKeeps

LEMMA ScanKeeps ==
  ASSUME SInv, NEW c \in Calls, Scan(c)
  PROVE  RequestsOK' /\ CalmOK'
<1>1. /\ call[c].pc = "scan" /\ Busy(c) /\ ~ Writing(c) /\ Quiet /\ cached' = cached
      /\ NotRefreshed(c) \/ (To(c, "rescan") /\ tab' = tab)
  BY DEF Scan, Busy, Writing, Quiet, row
<1>2. CASE NotRefreshed(c)
  BY <1>1, <1>2, NotRefreshedKeeps
<1>3. CASE To(c, "rescan") /\ tab' = tab
  BY <1>1, <1>3, ToKeeps DEF Steps
<1> QED
  BY <1>1, <1>2, <1>3

LEMMA RescanKeeps ==
  ASSUME SInv, NEW c \in Calls, Rescan(c)
  PROVE  RequestsOK' /\ CalmOK'
<1>1. /\ call[c].pc = "rescan" /\ Busy(c) /\ Issue(c) /\ Refreshed(c, issued + 1)
      /\ UNCHANGED <<refresh, cached>>
      /\ calm' => calm /\ Alone(c) /\ cached = 0
  BY DEF Rescan, Busy
<1>2. TypeOK /\ ~ Login(c)
  BY <1>1 DEF SInv, RequestsOK, Login
<1>3. /\ issued + 1 \in Tokens /\ issued + 1 # 0 /\ issued + 1 > expired
      /\ token' = issued + 1 /\ expired' = expired
  BY <1>1, <1>2, IssueDoes
<1> QED
  BY <1>1, <1>2, <1>3, RefreshedKeeps

LEMMA FailsKeeps ==
  ASSUME SInv, NEW c \in Calls, Fails(c)
  PROVE  RequestsOK' /\ CalmOK'
<1>1. /\ Busy(c) /\ ~ calm' /\ Quiet /\ cached' = cached
      /\ NotRefreshed(c) \/ (call[c].pc = "row" /\ Refused(c)) \/ Finish(c)
  BY DEF Fails, Fault, Quiet, row
<1>2. CASE NotRefreshed(c)
  BY <1>1, <1>2, NotRefreshedKeeps
<1>3. CASE call[c].pc = "row" /\ Refused(c)
  BY <1>1, <1>3, RefusedKeeps
<1>4. CASE Finish(c)
  BY <1>1, <1>4, FinishKeeps
<1> QED
  BY <1>1, <1>2, <1>3, <1>4

LEMMA ExpiryKeeps ==
  ASSUME SInv, ExpireAccess \/ ExpireCached \/ (\E r \in lookup : ExpireLookup(r))
  PROVE  RequestsOK' /\ CalmOK'
<1>1. UNCHANGED <<token, refresh, tab, call, calm>> /\ cached' \in {0, cached}
  BY DEF ExpireAccess, ExpireCached, ExpireLookup, row
<1>2. \/ expired' = expired
      \/ \A c \in Calls : call[c].pc \in {"idle", "check"} /\ ~ Retried(c)
  BY DEF ExpireAccess, ExpireCached, ExpireLookup, row, Busy, Retried
<1>3. RequestsOK'
  BY <1>1, <1>2 DEF SInv, RequestsOK, Login, Busy, Writing
<1>4. CalmOK'
  BY <1>1, <1>2
  DEF SInv, CalmOK, WritesTheRow, RetriedHolds, AsksForItsTab, Login, Busy, Writing, Retried
<1> QED
  BY <1>3, <1>4

-----------------------------------------------------------------------------
(***************************************************************************)
(* Type correctness needs no more than itself.                             *)
(***************************************************************************)
LEMMA TypeStep == TypeOK /\ [Next]_vars => TypeOK'
<1> SUFFICES ASSUME TypeOK, [Next]_vars PROVE TypeOK'
  OBVIOUS
<1> USE DEF row
<1>1. CASE UNCHANGED vars
  BY <1>1 DEF vars, TypeOK
<1>2. CASE ExpireAccess \/ ExpireCached \/ (\E r \in lookup : ExpireLookup(r))
  <2>1. expired' \in {expired, issued}
    BY <1>2 DEF ExpireAccess, ExpireCached, ExpireLookup
  <2>2. issued \in 0..issued
    BY IssuedAssumption DEF TypeOK, Tokens
  <2>3. cached' \in Tokens /\ lookup' \subseteq Tokens /\ expired' \in 0..issued
    BY <1>2, <2>1, <2>2, ZeroToken DEF TypeOK, ExpireAccess, ExpireCached, ExpireLookup
  <2> QED
    BY <1>2, <2>3 DEF TypeOK, ExpireAccess, ExpireCached, ExpireLookup
<1>3. ASSUME NEW c \in Calls, NEW t \in Tabs, NEW kind \in Kinds, Begin(c, t, kind)
      PROVE  TypeOK'
  <2> DEFINE r == [pc |-> IF kind \in {"login", "password"} THEN "act" ELSE "check",
                   tab |-> t, kind |-> kind,
                   token |-> IF kind = "password" THEN 0 ELSE tab[t].token,
                   retried |-> FALSE, new |-> 0]
  <2>1. r \in Request
    BY ZeroToken DEF TypeOK, Request, Steps
  <2>2. call' = [call EXCEPT ![c] = r]
    BY <1>3 DEF Begin
  <2> HIDE DEF r
  <2> QED
    BY <1>3, <2>1, <2>2 DEF Begin, TypeOK
<1>4. ASSUME NEW c \in Calls, calm' \in BOOLEAN, faults' \in 0..MaxFaults,
             cached' \in Tokens, lookup' \subseteq Tokens, token' \in Tokens, refresh' \in Tokens,
             issued' \in Tokens, expired' \in 0..issued', Typed
      PROVE  TypeOK'
  BY <1>4 DEF Typed, TypeOK, Tab
<1>5. ASSUME Fault \/ NoFault \/ NoLogout PROVE calm' \in BOOLEAN /\ faults' \in 0..MaxFaults
  <2>1. calm' \in BOOLEAN
    BY <1>5 DEF Fault, NoFault, NoLogout, TypeOK
  <2>2. faults' = faults \/ (faults < MaxFaults /\ faults' = faults + 1)
    BY <1>5 DEF Fault, NoFault, NoLogout
  <2>3. faults \in 0..MaxFaults
    BY DEF TypeOK
  <2> QED
    BY <2>1, <2>2, <2>3, IssuedAssumption
<1>6. ASSUME NEW n \in Tokens, Cache(n)
      PROVE  calm' \in BOOLEAN /\ faults' \in 0..MaxFaults /\ cached' \in Tokens
  BY <1>5, <1>6 DEF Cache, TypeOK
<1>7. ASSUME NEW c \in Calls, Busy(c), Refused(c) \/ Finish(c) \/ Accepted(c) \/ NotRefreshed(c)
      PROVE  Typed
  BY <1>7, RefusedDoes, FinishEnds, AcceptedMoves, NotRefreshedDoes
<1>8. ASSUME NEW c \in Calls, Busy(c), NEW step \in Steps, To(c, step), tab' = tab
      PROVE  Typed
  BY <1>8, ToMoves DEF Typed, TypeOK, Tab
<1>9. ASSUME NEW c \in Calls, Check(c) PROVE TypeOK'
  <2>1. Busy(c) /\ UNCHANGED <<row, cached, lookup, issued, expired>> /\ (Fault \/ NoFault)
    BY <1>9 DEF Check, Busy
  <2>2. Typed
    BY <1>7, <1>8, <1>9, <2>1 DEF Check, Steps
  <2> QED
    BY <1>4, <1>5, <2>1, <2>2 DEF TypeOK
<1>10. ASSUME NEW c \in Calls, CheckRow(c) PROVE TypeOK'
  <2>1. Busy(c) /\ UNCHANGED <<row, cached, lookup, issued, expired, calm, faults>>
    BY <1>10 DEF CheckRow, Busy
  <2>2. Typed
    BY <1>7, <1>8, <1>10, <2>1 DEF CheckRow, Steps
  <2> QED
    BY <1>4, <2>1, <2>2 DEF TypeOK
<1>11. ASSUME NEW c \in Calls, Fill(c) PROVE TypeOK'
  <2>1. Busy(c) /\ UNCHANGED <<row, lookup, issued, expired>> /\ Accepted(c) /\ Cache(call[c].token)
    BY <1>11 DEF Fill, Busy
  <2>2. call[c].token \in Tokens
    BY <2>1, ARequest DEF Request
  <2>3. Typed /\ calm' \in BOOLEAN /\ faults' \in 0..MaxFaults /\ cached' \in Tokens
    BY <1>6, <1>7, <2>1, <2>2
  <2> QED
    BY <1>4, <2>1, <2>3 DEF TypeOK
<1>12. ASSUME NEW c \in Calls, Act(c) PROVE TypeOK'
  <2>1. Busy(c) /\ UNCHANGED <<cached, lookup>>
    BY <1>12 DEF Act, Busy
  <2>2. call[c] \in Request
    BY <2>1, ARequest
  <2>3. CASE call[c].kind \in {"api", "logout", "password"}
    <3>1. UNCHANGED <<row, issued, expired, calm, faults>>
      BY <1>12, <2>3 DEF Act
    <3>2. CASE token # 0 /\ call[c].kind # "api"
      <4>1. call' = [call EXCEPT ![c] = [call[c] EXCEPT !.pc = "del", !.new = refresh]] /\ tab' = tab
        BY <1>12, <2>3, <3>2 DEF Act, TypeOK
      <4>2. [call[c] EXCEPT !.pc = "del", !.new = refresh] \in Request
        BY <2>2 DEF Request, Steps, TypeOK
      <4> QED
        BY <1>4, <2>1, <3>1, <4>1, <4>2 DEF Typed, TypeOK, Tab
    <3>3. CASE token = 0 \/ call[c].kind = "api"
      <4>1. Finish(c)
        BY <1>12, <2>3, <3>3 DEF Act, Finish
      <4> QED
        BY <1>4, <1>7, <2>1, <3>1, <4>1 DEF TypeOK
    <3> QED
      BY <3>2, <3>3
  <2>4. CASE call[c].kind \in {"login", "rename"}
    <3>1. /\ Issue(c) /\ refresh' \in {refresh, issued + 1} /\ calm' \in BOOLEAN /\ tab' = tab
          /\ call' = [call EXCEPT ![c] = [call[c] EXCEPT !.pc = "set", !.new = issued + 1]]
      BY <1>12, <2>4 DEF Act, TypeOK, Alone
    <3>2. /\ issued + 1 \in Tokens /\ token' = issued + 1 /\ faults' = faults
          /\ issued' \in Tokens /\ expired' \in 0..issued'
      BY <3>1, IssueDoes
    <3>3. [call[c] EXCEPT !.pc = "set", !.new = issued + 1] \in Request
      BY <2>2, <3>2 DEF Request, Steps
    <3>4. call' \in [Calls -> {NoCall} \cup Request]
      BY <3>1, <3>3 DEF TypeOK
    <3> QED
      BY <1>4, <2>1, <3>1, <3>2, <3>4 DEF Typed, TypeOK, Tab
  <2> QED
    BY <2>2, <2>3, <2>4 DEF Request, Kinds
<1>13. ASSUME NEW c \in Calls, Set(c) PROVE TypeOK'
  <2>1. Busy(c) /\ UNCHANGED <<row, issued, expired>> /\ Over(c) /\ (NoLogout \/ Fault)
    BY <1>13 DEF Set, Busy
  <2>2. call[c].new \in Tokens /\ call[c].tab \in Tabs /\ tab[call[c].tab] \in Tab
    BY <2>1, ARequest DEF Request, TypeOK, Tab
  <2>3. cached' \in Tokens /\ lookup' \subseteq Tokens
    BY <1>13, <2>2 DEF Set, TypeOK
  <2>4. [tab[call[c].tab] EXCEPT !.token = call[c].new,
                                 !.refresh = IF call[c].kind = "login" THEN call[c].new ELSE @] \in Tab
    BY <2>2 DEF Tab
  <2>5. tab' \in [Tabs -> Tab]
    <3>1. tab' = [tab EXCEPT ![call[c].tab] =
                    [tab[call[c].tab] EXCEPT !.token = call[c].new,
                                             !.refresh = IF call[c].kind = "login" THEN call[c].new ELSE @]]
      BY <1>13, <2>2 DEF Set, TypeOK
    <3> QED
      BY <2>4, <3>1 DEF TypeOK, Tab
  <2> QED
    BY <1>4, <1>5, <2>1, <2>3, <2>5, OverEnds DEF Typed, TypeOK
<1>14. ASSUME NEW c \in Calls, Del(c) PROVE TypeOK'
  <2>1. Busy(c) /\ To(c, "clear") /\ UNCHANGED <<row, issued, expired, tab>> /\ (NoFault \/ Fault)
    BY <1>14 DEF Del, Busy
  <2>2. cached' \in Tokens /\ lookup' \subseteq Tokens
    BY <1>14, ZeroToken DEF Del, Deleted, TypeOK
  <2>3. Typed
    BY <1>8, <2>1 DEF Steps
  <2> QED
    BY <1>4, <1>5, <2>1, <2>2, <2>3 DEF TypeOK
<1>15. ASSUME NEW c \in Calls, Clear(c) PROVE TypeOK'
  <2>1. /\ Busy(c) /\ Finish(c) /\ token' = 0 /\ refresh' = 0 /\ calm' \in BOOLEAN
        /\ UNCHANGED <<cached, lookup, issued, expired, faults>>
    BY <1>15 DEF Clear, Busy, TypeOK, Alone
  <2> QED
    BY <1>4, <1>7, <2>1, ZeroToken DEF TypeOK
<1>16. ASSUME NEW c \in Calls, Lookup(c) \/ Find(c) PROVE TypeOK'
  <2>1. /\ Busy(c) /\ UNCHANGED <<row, cached, lookup, issued, expired, tab>> /\ (NoFault \/ Fault)
        /\ \E step \in {"find", "update", "scan"} : To(c, step)
    BY <1>16 DEF Lookup, Find, Busy
  <2>2. Typed
    BY <1>8, <2>1 DEF Steps
  <2> QED
    BY <1>4, <1>5, <2>1, <2>2 DEF TypeOK
<1>17. ASSUME NEW c \in Calls, Update(c) PROVE TypeOK'
  <2>1. /\ Busy(c) /\ Issue(c) /\ UNCHANGED <<refresh, cached, lookup, tab>> /\ calm' \in BOOLEAN
        /\ call' = [call EXCEPT ![c] = [call[c] EXCEPT !.pc = "store", !.new = issued + 1]]
    BY <1>17 DEF Update, Busy, TypeOK, Alone
  <2>2. /\ issued + 1 \in Tokens /\ token' = issued + 1 /\ faults' = faults
        /\ issued' \in Tokens /\ expired' \in 0..issued'
    BY <2>1, IssueDoes
  <2>3. call[c] \in Request
    BY <2>1, ARequest
  <2>4. [call[c] EXCEPT !.pc = "store", !.new = issued + 1] \in Request
    BY <2>2, <2>3 DEF Request, Steps
  <2> QED
    BY <1>4, <2>1, <2>2, <2>4 DEF Typed, TypeOK, Tab
<1>18. ASSUME NEW c \in Calls, Store(c) PROVE TypeOK'
  <2>1. /\ Busy(c) /\ Cache(call[c].new) /\ Refreshed(c, call[c].new)
        /\ UNCHANGED <<row, lookup, issued, expired>>
    BY <1>18 DEF Store, Busy
  <2>2. call[c].new \in Tokens
    BY <2>1, ARequest DEF Request
  <2>3. Typed /\ calm' \in BOOLEAN /\ faults' \in 0..MaxFaults /\ cached' \in Tokens
    BY <1>6, <2>1, <2>2, RefreshedDoes
  <2> QED
    BY <1>4, <2>1, <2>3 DEF TypeOK
<1>19. ASSUME NEW c \in Calls, Scan(c) PROVE TypeOK'
  <2>1. Busy(c) /\ UNCHANGED <<row, cached, lookup, issued, expired, calm, faults>>
    BY <1>19 DEF Scan, Busy
  <2>2. Typed
    BY <1>7, <1>8, <1>19, <2>1 DEF Scan, Steps
  <2> QED
    BY <1>4, <2>1, <2>2 DEF TypeOK
<1>20. ASSUME NEW c \in Calls, Rescan(c) PROVE TypeOK'
  <2>1. /\ Busy(c) /\ Issue(c) /\ Refreshed(c, issued + 1) /\ UNCHANGED <<refresh, cached, lookup>>
        /\ calm' \in BOOLEAN
    BY <1>20 DEF Rescan, Busy, TypeOK, Alone
  <2>2. /\ issued + 1 \in Tokens /\ token' = issued + 1 /\ faults' = faults
        /\ issued' \in Tokens /\ expired' \in 0..issued'
    BY <2>1, IssueDoes
  <2>3. Typed
    BY <2>1, <2>2, RefreshedDoes
  <2> QED
    BY <1>4, <2>1, <2>2, <2>3 DEF TypeOK
<1>21. ASSUME NEW c \in Calls, Fails(c) PROVE TypeOK'
  <2>1. Busy(c) /\ Fault /\ UNCHANGED <<row, cached, lookup, issued, expired>>
    BY <1>21 DEF Fails
  <2>2. Refused(c) \/ Finish(c) \/ NotRefreshed(c)
    BY <1>21 DEF Fails
  <2> QED
    BY <1>4, <1>5, <1>7, <2>1, <2>2 DEF TypeOK
<1> QED
  BY <1>1, <1>2, <1>3, <1>9, <1>10, <1>11, <1>12, <1>13, <1>14, <1>15, <1>16, <1>17, <1>18, <1>19,
     <1>20, <1>21 DEF Next

-----------------------------------------------------------------------------
LEMMA InvInit == Init => SInv
<1> SUFFICES ASSUME Init PROVE SInv
  OBVIOUS
<1>1. 1 \in Tokens /\ 0 \in 0..1 /\ 0 \in 0..MaxFaults
  BY IssuedAssumption DEF Tokens
<1>2. TypeOK
  <2>1. [token |-> 1, refresh |-> 1, busy |-> FALSE] \in Tab
    BY <1>1 DEF Tab
  <2>2. tab \in [Tabs -> Tab] /\ call \in [Calls -> {NoCall} \cup Request]
    BY <2>1 DEF Init
  <2> QED
    BY <1>1, <2>2 DEF Init, TypeOK, Tab
<1>3. RequestsOK /\ CalmOK
  <2>1. /\ \A c \in Calls : call[c].pc = "idle"
        /\ \A t \in Tabs : tab[t].token # 0
        /\ token = 1 /\ cached = 1
    BY DEF Init, NoCall
  <2> QED
    BY <2>1 DEF RequestsOK, CalmOK, WritesTheRow, RetriedHolds, AsksForItsTab, RefreshSteps, Login,
       Busy, Writing, Retried
<1> QED
  BY <1>2, <1>3 DEF SInv

LEMMA InvStep == SInv /\ [Next]_vars => SInv'
<1> SUFFICES ASSUME SInv, [Next]_vars PROVE SInv'
  OBVIOUS
<1>1. TypeOK'
  BY TypeStep DEF SInv
<1>2. RequestsOK' /\ CalmOK'
  <2>1. CASE UNCHANGED vars
    BY <2>1 DEF vars, row, SInv, RequestsOK, CalmOK, WritesTheRow, RetriedHolds, AsksForItsTab,
       RefreshSteps, Login, Busy, Writing, Retried
  <2>2. CASE Next
    BY <2>2, ExpiryKeeps, BeginKeeps, CheckKeeps, CheckRowKeeps, FillKeeps, ActKeeps, SetKeeps,
       DelKeeps, ClearKeeps, AskingKeeps, UpdateKeeps, StoreKeeps, ScanKeeps, RescanKeeps,
       FailsKeeps DEF Next
  <2> QED
    BY <2>1, <2>2
<1> QED
  BY <1>1, <1>2 DEF SInv

LEMMA AlwaysSInv == Spec => []SInv
<1> QED
  BY InvInit, InvStep, PTL DEF Spec

(***************************************************************************)
(* The row, Redis, the tabs and the requests in progress hold what they    *)
(* are declared to hold: numbers of tokens that were issued, and requests  *)
(* at a step of the middleware, a handler or the refresh.                  *)
(***************************************************************************)
THEOREM TypeCorrect == Spec => []TypeOK
<1> QED
  BY AlwaysSInv, PTL DEF SInv

(***************************************************************************)
(* Redis answers for the row: while nobody is between the two writes of a  *)
(* token and no failure or second request has disturbed the session, the   *)
(* account's key is absent or holds the row's token, so JWTAuth never      *)
(* accepts a token the row has replaced.                                   *)
(***************************************************************************)
THEOREM RedisAnswersForTheRow == Spec => []RedisAgrees
<1>1. SInv => RedisAgrees
  BY DEF SInv, CalmOK, WritesTheRow, Writing, RedisAgrees
<1> QED
  BY <1>1, AlwaysSInv, PTL

(***************************************************************************)
(* A tab whose refresh token is still the row's keeps its tokens: no step  *)
(* of an undisturbed session, of this tab or another, logs it out.         *)
(***************************************************************************)
THEOREM NobodyIsLoggedOut == Spec => StaysLoggedIn
<1> DEFINE Stays == \A t \in Tabs : tab[t].refresh # 0 /\ tab'[t].refresh = 0 /\ calm'
                                       => refresh' # tab[t].refresh
<1>1. SInv /\ [Next]_vars => [Stays]_vars
  <2> SUFFICES ASSUME SInv, Next, NEW t \in Tabs,
                      tab[t].refresh # 0, tab'[t].refresh = 0, calm'
               PROVE  refresh' # tab[t].refresh
    BY DEF Stays
  <2>1. TypeOK /\ RequestsOK /\ (calm => RetriedHolds /\ AsksForItsTab) /\ ~ UNCHANGED tab
    BY DEF SInv, CalmOK
  <2>2. ASSUME NEW c \in Calls, Busy(c), Refused(c)
        PROVE  call[c].retried
    BY <2>1, <2>2, RefusedDoes DEF Forgotten, OtherTabs
  <2>3. ASSUME NEW c \in Calls, Check(c) PROVE FALSE
    <3>1. /\ call[c].pc = "check" /\ calm /\ Refused(c)
          /\ call[c].token <= expired \/ (cached # 0 /\ cached # call[c].token)
      BY <2>1, <2>3 DEF Check, Accepted, NoFault, Fault
    <3>2. call[c].token = token /\ token > expired /\ cached \in {0, token}
      BY <2>1, <2>2, <3>1 DEF Busy, RetriedHolds, Retried
    <3>3. token \in Nat /\ expired \in Nat
      BY <2>1, IssuedAssumption DEF TypeOK, Tokens
    <3> QED
      BY <3>1, <3>2, <3>3
  <2>4. ASSUME NEW c \in Calls, CheckRow(c) PROVE FALSE
    <3>1. call[c].pc = "row" /\ calm /\ Refused(c) /\ token # call[c].token
      BY <2>1, <2>4 DEF CheckRow
    <3> QED
      BY <2>1, <2>2, <3>1 DEF Busy, RetriedHolds, Retried
  <2>5. ASSUME NEW c \in Calls, Act(c) PROVE refresh' # tab[t].refresh
    <3>1. token = 0 /\ refresh' = refresh
      BY <2>1, <2>5 DEF Act, row
    <3> QED
      BY <2>1, <3>1 DEF RequestsOK
  <2>6. ASSUME NEW c \in Calls, Set(c) PROVE FALSE
    <3>1. call[c].pc = "set" /\ Busy(c) /\ call[c].new # 0
      BY <2>1, <2>6 DEF Set, Busy, RequestsOK, Writing
    <3>2. call[c].tab \in Tabs
      BY <2>1, <3>1, ARequest DEF Request
    <3>3. tab' = [tab EXCEPT ![call[c].tab].token = call[c].new,
                             ![call[c].tab].refresh =
                                 IF call[c].kind = "login" THEN call[c].new ELSE tab[call[c].tab].refresh]
      BY <2>1, <2>6, <3>2 DEF Set, TypeOK
    <3> QED
      BY <2>1, <3>1, <3>2, <3>3 DEF TypeOK
  <2>7. ASSUME NEW c \in Calls, Clear(c) PROVE refresh' # tab[t].refresh
    BY <2>7 DEF Clear
  <2>8. ASSUME NEW c \in Calls, NEW n \in Tokens, Busy(c), Refreshed(c, n) PROVE FALSE
    BY <2>1, <2>8, RefreshedDoes DEF OtherTabs
  <2>9. ASSUME NEW c \in Calls, Store(c) PROVE FALSE
    <3>1. Busy(c) /\ Refreshed(c, call[c].new)
      BY <2>9 DEF Store, Busy
    <3>2. call[c].new \in Tokens
      BY <2>1, <3>1, ARequest DEF Request
    <3> QED
      BY <2>8, <3>1, <3>2
  <2>10. ASSUME NEW c \in Calls, Rescan(c) PROVE FALSE
    <3>1. Busy(c) /\ Issue(c) /\ Refreshed(c, issued + 1)
      BY <2>10 DEF Rescan, Busy
    <3> QED
      BY <2>1, <2>8, <3>1, IssueDoes
  <2>11. ASSUME NEW c \in Calls, Scan(c) PROVE refresh' # tab[t].refresh
    <3>1. /\ call[c].pc = "scan" /\ calm /\ NotRefreshed(c)
          /\ refresh # call[c].new /\ refresh' = refresh
      BY <2>1, <2>11 DEF Scan, row
    <3>2. t = call[c].tab
      BY <2>1, <3>1, NotRefreshedDoes DEF Busy, Forgotten, OtherTabs
    <3> QED
      BY <2>1, <3>1, <3>2 DEF AsksForItsTab, RefreshSteps
  <2>12. ASSUME NEW c \in Calls, Fails(c) PROVE FALSE
    BY <2>12 DEF Fails, Fault
  <2>13. ASSUME NEW c \in Calls, Fill(c) \/ Del(c) \/ Lookup(c) \/ Find(c) \/ Update(c) PROVE FALSE
    BY <2>1, <2>13 DEF Fill, Accepted, Del, Lookup, Find, Update
  <2>14. ASSUME \/ ExpireAccess \/ ExpireCached \/ \E r \in lookup : ExpireLookup(r)
                \/ \E c \in Calls, s \in Tabs, kind \in Kinds : Begin(c, s, kind)
         PROVE  FALSE
    BY <2>1, <2>14 DEF ExpireAccess, ExpireCached, ExpireLookup, Begin
  <2> QED
    BY <2>3, <2>4, <2>5, <2>6, <2>7, <2>9, <2>10, <2>11, <2>12, <2>13, <2>14 DEF Next
<1> QED
  BY <1>1, AlwaysSInv, PTL DEF Spec, StaysLoggedIn
=============================================================================
