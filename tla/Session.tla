------------------------------ MODULE Session ------------------------------
(***************************************************************************)
(* The session of one account: the row's access and refresh token, their   *)
(* copies in Redis, and the tabs of a browser that hold them.  postJson    *)
(* sends a request with the tab's token; the JWT middleware compares it    *)
(* with Redis, or with the row, and fills Redis; a refused request is sent *)
(* again after tryRefresh, which the tab's requests share; and a request   *)
(* refused again, or a refresh refused, makes the tab forget its tokens.   *)
(*                                                                         *)
(* Access tokens are numbered as they are issued, and a refresh token has  *)
(* the number of the access token it was issued with.  0 is no token.      *)
(***************************************************************************)
EXTENDS Integers, FiniteSets

CONSTANTS
    Tabs,
    Calls,        \* BOUND: requests in progress
    MaxIssued,    \* BOUND: access tokens
    MaxFaults     \* BOUND: calls of Redis or of the API that fail

ASSUME IssuedAssumption == MaxIssued \in Nat \ {0} /\ MaxFaults \in Nat

VARIABLES
    token, refresh,   \* columns of the account's row
    cached,           \* account:<id>
    lookup,           \* refresh tokens r with a key refresh:<r>
    issued,           \* access tokens issued
    expired,          \* of those, 1..expired are older than 15 minutes
    tab,              \* the tab's tokens, and whether it refreshes
    call,             \* call -> the request it is
    calm,             \* history: nothing has disturbed the session, see Alone
    faults            \* history: failures so far

row  == <<token, refresh>>
vars == <<row, cached, lookup, issued, expired, tab, call, calm, faults>>

Tokens == 0..MaxIssued
NoTokens == [token |-> 0, refresh |-> 0, busy |-> FALSE]
NoCall == [pc |-> "idle"]

\* What a request does at the server, and what its tab does with the answer.
Kinds == {"api", "rename", "logout", "password", "login"}
Steps == {"check", "row", "fill", "act", "set", "del", "clear",            \* the request
          "await", "lookup", "find", "update", "store", "scan", "rescan"}  \* its refresh

Request == [pc : Steps, tab : Tabs, kind : Kinds, token : Tokens, retried : BOOLEAN, new : Tokens]

TypeOK ==
    /\ token \in Tokens /\ refresh \in Tokens /\ cached \in Tokens /\ lookup \subseteq Tokens
    /\ issued \in Tokens /\ expired \in 0..issued
    /\ tab \in [Tabs -> [token : Tokens, refresh : Tokens, busy : BOOLEAN]]
    /\ call \in [Calls -> {NoCall} \cup Request]
    /\ calm \in BOOLEAN /\ faults \in 0..MaxFaults

\* Two tabs have been opened since the login.
Init ==
    /\ token = 1 /\ refresh = 1 /\ cached = 1 /\ lookup = {1} /\ issued = 1 /\ expired = 0
    /\ tab = [t \in Tabs |-> [token |-> 1, refresh |-> 1, busy |-> FALSE]]
    /\ call = [c \in Calls |-> NoCall]
    /\ calm = TRUE /\ faults = 0

-----------------------------------------------------------------------------
Busy(c) == call[c].pc # "idle"
To(c, step) == call' = [call EXCEPT ![c].pc = step]
Over(c) == call' = [call EXCEPT ![c] = NoCall]

\* The settings page forgets the tokens however its logout ends.
Finish(c) ==
    /\ Over(c)
    /\ tab' = IF call[c].kind # "logout" THEN tab
              ELSE [tab EXCEPT ![call[c].tab].token = 0, ![call[c].tab].refresh = 0]

\* A call of Redis fails; and so the session is disturbed.
Fault == faults < MaxFaults /\ faults' = faults + 1 /\ calm' = FALSE
NoFault == UNCHANGED <<calm, faults>>

\* A new access token for the row: the session is disturbed when another
\* request is on its way with the old one.
Alone(c) == \A d \in Calls \ {c} : ~ Busy(d) \/ call[d].pc = "await"

Issue(c) ==
    /\ issued < MaxIssued /\ issued' = issued + 1
    /\ token' = issued + 1
    /\ UNCHANGED <<expired, faults>>

\* Redis keeps what is written to it or loses it.  Between the two halves of a
\* logout it should not be written.
NoLogout == calm' = (calm /\ \A c \in Calls : call[c].pc # "clear") /\ UNCHANGED faults

Cache(t) == \/ cached' = t /\ NoLogout
            \/ Fault /\ UNCHANGED cached

-----------------------------------------------------------------------------
\* Fifteen minutes: longer than a refresh and the request after it.
ExpireAccess ==
    /\ expired < issued
    /\ \A c \in Calls : Busy(c) => call[c].pc = "check" /\ ~ call[c].retried
    /\ expired' = issued
    /\ UNCHANGED <<row, cached, lookup, issued, tab, call, calm, faults>>

\* A day for the access token's key, a week for the refresh token's.
ExpireCached ==
    /\ cached # 0 /\ cached' = 0
    /\ UNCHANGED <<row, lookup, issued, expired, tab, call, calm, faults>>

ExpireLookup(r) ==
    /\ r \in lookup /\ lookup' = lookup \ {r}
    /\ UNCHANGED <<row, cached, issued, expired, tab, call, calm, faults>>

\* A page of the tab sends a request; the login form is for who has no token,
\* and sends one login at a time.
Begin(c, t, kind) ==
    /\ ~ Busy(c)
    /\ (tab[t].token = 0) = (kind = "login")
    /\ kind = "login" => \A d \in Calls : Busy(d) => call[d].tab # t \/ call[d].kind # "login"
    /\ call' = [call EXCEPT ![c] = [pc |-> IF kind \in {"login", "password"} THEN "act" ELSE "check",
                                    tab |-> t, kind |-> kind,
                                    token |-> IF kind = "password" THEN 0 ELSE tab[t].token,
                                    retried |-> FALSE, new |-> 0]]
    /\ UNCHANGED <<row, cached, lookup, issued, expired, tab, calm, faults>>

\* tryRefresh on a first refusal: the tab's refresh, begun or joined.
\* Otherwise handleResponse forgets the tokens.
Refused(c) ==
    LET t == call[c].tab IN
    IF ~ call[c].retried /\ tab[t].refresh # 0
    THEN IF tab[t].busy THEN call' = [call EXCEPT ![c].pc = "await", ![c].token = 0] /\ UNCHANGED tab
         ELSE /\ call' = [call EXCEPT ![c].pc = "lookup", ![c].token = 0, ![c].new = tab[t].refresh]
              /\ tab' = [tab EXCEPT ![t].busy = TRUE]
    ELSE /\ Over(c)
         /\ tab' = [tab EXCEPT ![t].token = 0, ![t].refresh = 0]

\* The handler needs the token no more.
Accepted(c) ==
    /\ call' = [call EXCEPT ![c].pc = "act", ![c].token = 0, ![c].retried = FALSE]
    /\ UNCHANGED tab

\* JWTAuth: the token's own expiry, then Redis.
Check(c) ==
    /\ call[c].pc = "check"
    /\ \/ /\ call[c].token <= expired \/ (cached # 0 /\ cached # call[c].token)
          /\ Refused(c) /\ NoFault
       \/ /\ call[c].token > expired /\ cached = call[c].token
          /\ Accepted(c) /\ NoFault
       \/ /\ call[c].token > expired
          /\ (cached = 0 /\ NoFault) \/ Fault
          /\ To(c, "row") /\ UNCHANGED tab
    /\ UNCHANGED <<row, cached, lookup, issued, expired>>

\* Then the row, ...
CheckRow(c) ==
    /\ call[c].pc = "row"
    /\ IF token # call[c].token THEN Refused(c) ELSE To(c, "fill") /\ UNCHANGED tab
    /\ UNCHANGED <<row, cached, lookup, issued, expired, calm, faults>>

\* ... which Redis is filled from.
Fill(c) ==
    /\ call[c].pc = "fill"
    /\ Cache(call[c].token)
    /\ Accepted(c)
    /\ UNCHANGED <<row, lookup, issued, expired>>

\* The handler behind the check.  Logout and ChangePassword read the row first.
Act(c) ==
    /\ call[c].pc = "act"
    /\ CASE call[c].kind = "api" ->
                Over(c) /\ UNCHANGED <<row, issued, expired, tab, calm, faults>>
         [] call[c].kind \in {"logout", "password"} ->
                /\ IF token = 0 THEN Finish(c)
                   ELSE call' = [call EXCEPT ![c].pc = "del", ![c].new = refresh] /\ UNCHANGED tab
                /\ UNCHANGED <<row, issued, expired, calm, faults>>
         [] OTHER ->
                /\ Issue(c)
                /\ IF call[c].kind = "login"
                   THEN refresh' = issued + 1 /\ calm' = Alone(c)
                   ELSE UNCHANGED refresh /\ calm' = (calm /\ Alone(c))
                /\ call' = [call EXCEPT ![c].pc = "set", ![c].new = issued + 1]
                /\ UNCHANGED tab
    /\ UNCHANGED <<cached, lookup>>

\* Rename and Login write their tokens to Redis, and the tab keeps them.
Set(c) ==
    LET t == call[c].tab  new == call[c].new  login == call[c].kind = "login" IN
    /\ call[c].pc = "set"
    /\ \/ cached' = new /\ lookup' = lookup \cup (IF login THEN {new} ELSE {}) /\ NoLogout
       \/ /\ Fault
          /\ cached' \in {cached, new} /\ lookup' \in {lookup, lookup \cup (IF login THEN {new} ELSE {})}
    /\ tab' = [tab EXCEPT ![t].token = new, ![t].refresh = IF login THEN new ELSE @]
    /\ Over(c)
    /\ UNCHANGED <<row, issued, expired>>

\* Mutation: the access token's key is left to expire.
Deleted_LookupOnly(r) == UNCHANGED cached /\ lookup' = lookup \ {r}

Deleted(r) == cached' = 0 /\ lookup' = lookup \ {r}

\* Logout deletes the keys, ...
Del(c) ==
    /\ call[c].pc = "del"
    /\ To(c, "clear")
    /\ \/ Deleted(call[c].new) /\ NoFault
       \/ Fault /\ cached' \in {0, cached} /\ lookup' \in {lookup, lookup \ {call[c].new}}
    /\ UNCHANGED <<row, issued, expired, tab>>

\* ... then the columns.
Clear(c) ==
    /\ call[c].pc = "clear"
    /\ token' = 0 /\ refresh' = 0
    /\ calm' = (calm /\ Alone(c))
    /\ Finish(c)
    /\ UNCHANGED <<cached, lookup, issued, expired, faults>>

-----------------------------------------------------------------------------
\* Mutation: the request goes out again with its old token.
Again_AsItWas(d, t) == [call[d] EXCEPT !.pc = "check", !.retried = TRUE]

\* A request goes out again, with the new token.
Again(d, t) == [call[d] EXCEPT !.pc = "check", !.retried = TRUE, !.token = t, !.new = 0]

\* The refresh of a tab is over for all that wait for it.
Waits(d, c) == d = c \/ (Busy(d) /\ call[d].pc = "await" /\ call[d].tab = call[c].tab)

Refreshed(c, t) ==
    /\ tab' = [tab EXCEPT ![call[c].tab].token = t, ![call[c].tab].busy = FALSE]
    /\ call' = [d \in Calls |-> IF Waits(d, c) THEN Again(d, t) ELSE call[d]]

NotRefreshed(c) ==
    /\ tab' = [tab EXCEPT ![call[c].tab] = NoTokens]
    /\ call' = [d \in Calls |-> IF Waits(d, c) THEN NoCall ELSE call[d]]

\* RefreshAccessToken: the refresh token's key, ...
Lookup(c) ==
    /\ call[c].pc = "lookup"
    /\ \/ To(c, IF call[c].new \in lookup THEN "find" ELSE "scan") /\ NoFault
       \/ To(c, "scan") /\ Fault
    /\ UNCHANGED <<row, cached, lookup, issued, expired, tab>>

\* ... the row it leads to, ...
Find(c) ==
    /\ call[c].pc = "find"
    /\ \/ To(c, IF refresh = call[c].new THEN "update" ELSE "scan") /\ NoFault
       \/ To(c, "scan") /\ Fault
    /\ UNCHANGED <<row, cached, lookup, issued, expired, tab>>

\* ... a new access token into the row, ...
Update(c) ==
    /\ call[c].pc = "update"
    /\ Issue(c)
    /\ calm' = (calm /\ Alone(c))
    /\ call' = [call EXCEPT ![c].pc = "store", ![c].new = issued + 1]
    /\ UNCHANGED <<refresh, cached, lookup, tab>>

\* ... and into Redis.
Store(c) ==
    /\ call[c].pc = "store"
    /\ Cache(call[c].new)
    /\ Refreshed(c, call[c].new)
    /\ UNCHANGED <<row, lookup, issued, expired>>

\* Without the key all rows are looked through, ...
Scan(c) ==
    /\ call[c].pc = "scan"
    /\ IF refresh = call[c].new THEN To(c, "rescan") /\ UNCHANGED tab ELSE NotRefreshed(c)
    /\ UNCHANGED <<row, cached, lookup, issued, expired, calm, faults>>

\* ... and the new token does not go into Redis: if the old one is there the
\* session is disturbed.
Rescan(c) ==
    /\ call[c].pc = "rescan"
    /\ Issue(c)
    /\ calm' = (calm /\ Alone(c) /\ cached = 0)
    /\ Refreshed(c, issued + 1)
    /\ UNCHANGED <<refresh, cached, lookup>>

\* The connection or the database fails.  A failed refresh is a refused one,
\* and a request whose row cannot be read is refused.
Fails(c) ==
    /\ Busy(c) /\ call[c].pc # "await"
    /\ Fault
    /\ CASE call[c].pc \in {"lookup", "find", "update", "store", "scan", "rescan"} -> NotRefreshed(c)
         [] call[c].pc = "row" -> Refused(c)
         [] OTHER -> Finish(c)
    /\ UNCHANGED <<row, cached, lookup, issued, expired>>

-----------------------------------------------------------------------------
Next ==
    \/ ExpireAccess \/ ExpireCached \/ \E r \in lookup : ExpireLookup(r)
    \/ \E c \in Calls :
          \/ \E t \in Tabs, kind \in Kinds : Begin(c, t, kind)
          \/ Check(c) \/ CheckRow(c) \/ Fill(c) \/ Act(c) \/ Set(c) \/ Del(c) \/ Clear(c)
          \/ Lookup(c) \/ Find(c) \/ Update(c) \/ Store(c) \/ Scan(c) \/ Rescan(c) \/ Fails(c)

Spec == Init /\ [][Next]_vars

-----------------------------------------------------------------------------
\* Redis answers for the row: what it holds when nobody is writing it is the
\* row's token, whatever has expired, and again from the next undisturbed login
\* on.
RedisAgrees ==
    calm /\ (\A c \in Calls : call[c].pc \notin {"set", "del", "clear", "store"})
        => cached \in {0, token}

\* As long as the session is undisturbed, a tab whose refresh token is still the
\* row's is not logged out, though its access token expires, several of its
\* requests are refused together, or keys expire.  A disturbance (calm) is a
\* failing call, a token changed beside another request on its way, so a second
\* refresh too, and a refresh that finds its lookup key expired.
StaysLoggedIn ==
    [][\A t \in Tabs : tab[t].refresh # 0 /\ tab'[t].refresh = 0 /\ calm'
           => refresh' # tab[t].refresh]_vars
=============================================================================
