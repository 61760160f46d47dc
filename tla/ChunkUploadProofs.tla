-------------------------- MODULE ChunkUploadProofs --------------------------
(***************************************************************************)
(* Theorems about ChunkUpload, for any number of tabs, chunks, uploads,    *)
(* requests, lost connections and failures.                                *)
(***************************************************************************)
EXTENDS ChunkUpload, TLAPS

\* The types of requests and tabs when n uploads have been begun.
RequestType(n) ==
    [kind : {"free", "init", "chunk", "complete"}, step : Steps,
     tab : Tabs \cup {None}, cut : BOOLEAN, upload : 0..n,
     chunk : Chunks, attempt : 0..(MaxAttempts - 1),
     bits : SUBSET Chunks, linked : BOOLEAN, whole : BOOLEAN]

TabType(n) ==
    [stage : {"idle", "init", "upload", "complete", "done", "failed"},
     upload : 0..n,
     part : [Chunks -> {"todo", "sent", "have"}], whole : BOOLEAN]

ChunkSteps == {"read", "create", "write", "save"}

\* The requests of chunks are those at the steps of UploadChunk; a request past
\* its first steps has an upload; a lost connection is nobody's; only some steps
\* need the chunks read from the session; a file loses its name between its
\* opening and the end of the request.
RequestOK(q) ==
    /\ q.kind = "chunk" <=> q.step \in ChunkSteps
    /\ q.cut => q.tab = None
    /\ q.step \notin {"free", "find", "new"} => q.upload # 0
    /\ q.bits # {} => q.step \in {"refresh", "rewrite", "create", "write", "save"}
    /\ ~q.linked => q.step \in {"write", "save"} /\ q.upload \in removed

RequestsOK == \A h \in Handlers : RequestOK(handler[h])

\* A tab that sends chunks has been given an upload.
TabsOK == \A t \in Tabs : tab[t].stage \in {"upload", "complete"} => tab[t].upload # 0

TInv == TypeOK /\ RequestsOK /\ TabsOK

-----------------------------------------------------------------------------
LEMMA Bounds ==
    /\ N \in Nat \ {0} /\ MaxAttempts \in Nat \ {0} /\ MaxUploads \in Nat \ {0}
    /\ MaxHandlers \in Nat \ {0} /\ MaxLost \in Nat /\ MaxFaults \in Nat
    /\ None \notin Tabs /\ None \notin Nat
    /\ Chunks \subseteq Nat /\ 0 \in Chunks /\ NoSession \notin SUBSET Chunks
    /\ Uploads \subseteq Nat \ {0} /\ Handlers \subseteq Nat
  BY ConstantsAssumption DEF Chunks, Uploads, Handlers, NoSession

LEMMA FreeAndClosed ==
    ASSUME NEW n \in Nat
    PROVE  Free \in RequestType(n) /\ Closed \in TabType(n)
  BY Bounds DEF Free, Closed, RequestType, TabType, Steps

LEMMA InitTInv == Init => TInv
<1> SUFFICES ASSUME Init PROVE TInv
  OBVIOUS
<1>1. TypeOK
  <2>1. Free \in RequestType(0) /\ Closed \in TabType(0)
    BY FreeAndClosed
  <2>2. handler \in [Handlers -> RequestType(0)] /\ tab \in [Tabs -> TabType(0)]
    BY <2>1 DEF Init
  <2>3. /\ session \in [Uploads -> (SUBSET Chunks) \cup {NoSession}]
        /\ told \in [Uploads -> SUBSET Chunks]
    BY DEF Init
  <2>5. disk \in [Uploads -> [Chunks -> {"absent", "part", "whole"}]]
    <3>1. [c \in Chunks |-> "absent"] \in [Chunks -> {"absent", "part", "whole"}]
      OBVIOUS
    <3> QED
      BY <3>1, Zenon DEF Init
  <2>4. /\ index \in 0..used /\ removed \subseteq 1..used /\ used \in 0..MaxUploads
        /\ lost \in 0..MaxLost /\ faults \in 0..MaxFaults /\ used = 0
    BY Bounds DEF Init
  <2> QED
    BY <2>2, <2>3, <2>4, <2>5 DEF TypeOK, RequestType, TabType
<1>2. RequestsOK
  BY DEF Init, RequestsOK, RequestOK, ChunkSteps, Free
<1>3. TabsOK
  BY DEF Init, TabsOK, Closed
<1> QED
  BY <1>1, <1>2, <1>3 DEF TInv

\* The same work goes on, whoever waits for it.
SameWork(q, r) == /\ r.kind = q.kind /\ r.step = q.step /\ r.upload = q.upload
                  /\ r.chunk = q.chunk /\ r.bits = q.bits /\ r.linked = q.linked

\* A chunk that is sent again is a new request.
LEMMA SentAgainIsNew ==
    ASSUME TInv, NEW h \in Handlers, SentAgain(handler[h])
    PROVE  /\ Again(handler[h]) \in RequestType(used)
           /\ RequestOK(Again(handler[h]))
           /\ Again(handler[h]).step = "read" /\ Again(handler[h]).bits = {}
           /\ ~Again(handler[h]).cut
<1> DEFINE q == handler[h]
<1>1. /\ q \in RequestType(used) /\ RequestOK(q)
      /\ used \in Nat /\ MaxAttempts \in Nat \ {0}
  BY Bounds DEF TInv, TypeOK, RequestType, RequestsOK
<1>2. /\ q.upload \in 0..used /\ q.chunk \in Chunks /\ q.tab \in Tabs \cup {None}
      /\ q.attempt + 1 \in 0..(MaxAttempts - 1) /\ q.upload # 0
  BY <1>1 DEF SentAgain, RequestType, RequestOK, ChunkSteps
<1> HIDE DEF q
<1>3. Again(q) \in RequestType(used)
  BY <1>1, <1>2, Bounds DEF Again, Free, RequestType, Steps
<1>4. /\ RequestOK(Again(q)) /\ Again(q).step = "read" /\ Again(q).bits = {}
      /\ ~Again(q).cut
  BY <1>2 DEF Again, Free, RequestOK, ChunkSteps
<1> QED
  BY <1>3, <1>4 DEF q

\* The other requests go on when the tab has seen an error.
LEMMA ForsakenGoOn ==
    ASSUME TInv, NEW H \in SUBSET Handlers, NEW q \in RequestType(used), RequestOK(q)
    PROVE  /\ Forsaken(q, H) \in RequestType(used) /\ RequestOK(Forsaken(q, H))
           /\ SameWork(q, Forsaken(q, H))
           /\ Forsaken(q, H).tab \in {q.tab, None} /\ Forsaken(q, H).cut = q.cut
<1>1. CASE Forsaken(q, H) = q
  BY <1>1 DEF SameWork
<1>2. CASE Forsaken(q, H) = [q EXCEPT !.tab = None]
  <2> PICK r : r = [q EXCEPT !.tab = None]
    OBVIOUS
  <2>1. /\ r \in RequestType(used) /\ SameWork(q, r) /\ r.tab = None /\ r.cut = q.cut
    BY DEF RequestType, SameWork
  <2>2. RequestOK(r)
    BY <2>1 DEF RequestOK, SameWork
  <2> QED
    BY <1>2, <2>1, <2>2
<1> QED
  BY <1>1, <1>2 DEF Forsaken

\* An error ends a publication and changes nothing else a tab knows.
LEMMA ErrorsEndPublications ==
    ASSUME TInv, NEW H \in SUBSET Handlers, tab' = TabsAfter(H)
    PROVE  /\ tab' \in [Tabs -> TabType(used)]
           /\ \A t \in Tabs : /\ tab'[t].upload = tab[t].upload
                              /\ tab'[t].stage \in {tab[t].stage, "failed"}
<1>1. tab \in [Tabs -> TabType(used)]
  BY DEF TInv, TypeOK, TabType
<1>2. ASSUME NEW s \in TabType(used)
      PROVE  /\ [s EXCEPT !.stage = "failed"] \in TabType(used)
             /\ [s EXCEPT !.stage = "failed"].upload = s.upload
             /\ [s EXCEPT !.stage = "failed"].stage = "failed"
  BY DEF TabType
<1> QED
  BY <1>1, <1>2 DEF TabsAfter

\* One request goes a step further, at most one new upload id is given out.
LEMMA OneRequest ==
    ASSUME TInv, NEW h \in Handlers, NEW r, handler' = [handler EXCEPT ![h] = r],
           used' \in Nat, used <= used', r \in RequestType(used'),
           removed \subseteq removed', RequestOK(r)'
    PROVE  /\ handler' \in [Handlers -> RequestType(used')]
           /\ handler'[h] = r
           /\ \A x \in Handlers \ {h} : handler'[x] = handler[x]
           /\ RequestsOK'
<1>1. handler \in [Handlers -> RequestType(used)] /\ used \in Nat
  BY Bounds DEF TInv, TypeOK, RequestType
<1>2. RequestType(used) \subseteq RequestType(used')
  BY <1>1 DEF RequestType
<1>3. /\ handler' \in [Handlers -> RequestType(used')] /\ handler'[h] = r
      /\ \A x \in Handlers \ {h} : handler'[x] = handler[x]
  BY <1>1, <1>2
<1>4. \A x \in Handlers \ {h} : RequestOK(handler[x])'
  BY <1>3 DEF TInv, RequestsOK, RequestOK
<1>5. RequestOK(handler[h])'
  BY <1>3 DEF RequestOK
<1> QED
  BY <1>3, <1>4, <1>5 DEF RequestsOK

\* What a tab knows of an upload keeps its type.
LEMMA AnswerTypes ==
    ASSUME TInv, NEW n \in Nat, used <= n,
           NEW s \in TabType(n),
           tab' = tab \/ \E t \in Tabs : tab' = [tab EXCEPT ![t] = s],
           s.stage \in {"upload", "complete"} => s.upload # 0
    PROVE  tab' \in [Tabs -> TabType(n)] /\ TabsOK'
<1>1. tab \in [Tabs -> TabType(used)] /\ used \in Nat
  BY Bounds DEF TInv, TypeOK, TabType
<1>2. TabType(used) \subseteq TabType(n)
  BY <1>1 DEF TabType
<1>3. tab' \in [Tabs -> TabType(n)]
  BY <1>1, <1>2
<1>4. \A t \in Tabs : tab'[t] \in {tab[t], s}
  BY <1>1
<1>5. TabsOK'
  BY <1>4 DEF TInv, TabsOK
<1> QED
  BY <1>3, <1>5

\* What a tab learns from the three answers with success.
LEMMA AnswerInit ==
    ASSUME TInv, NEW h \in Handlers, NEW u \in 1..used, NEW bits \in SUBSET Chunks,
           ReplyInit(h, u, bits)
    PROVE  /\ handler' = [handler EXCEPT ![h] = Free]
           /\ tab' \in [Tabs -> TabType(used)] /\ TabsOK'
           /\ told' \in [Uploads -> SUBSET Chunks]
<1> PICK t : t = handler[h].tab
  OBVIOUS
<1>0. /\ tab \in [Tabs -> TabType(used)] /\ t \in Tabs \cup {None} /\ used \in Nat
      /\ u \in 0..used /\ u # 0 /\ used <= used
  BY Bounds DEF TInv, TypeOK, TabType
<1> PICK s : s = IF t = None THEN Closed
                 ELSE [tab[t] EXCEPT !.stage = "upload", !.upload = u,
                         !.part = [c \in Chunks |-> IF c \in bits THEN "have" ELSE "todo"]]
  OBVIOUS
<1>1. s \in TabType(used)
  BY <1>0, FreeAndClosed DEF TabType
<1>2. s.stage \in {"upload", "complete"} => s.upload # 0
  BY <1>0 DEF Closed, TabType
<1>3. /\ tab' = IF t = None THEN tab ELSE [tab EXCEPT ![t] = s]
      /\ handler' = [handler EXCEPT ![h] = Free]
      /\ told' = told \/ told' = [told EXCEPT ![u] = @ \cup bits]
  BY DEF ReplyInit, Reply
<1>4. tab' = tab \/ \E x \in Tabs : tab' = [tab EXCEPT ![x] = s]
  BY <1>0, <1>3
<1>5. tab' \in [Tabs -> TabType(used)] /\ TabsOK'
  BY <1>0, <1>1, <1>2, <1>4, AnswerTypes
<1>6. told' \in [Uploads -> SUBSET Chunks]
  BY <1>3 DEF TInv, TypeOK
<1> QED
  BY <1>3, <1>5, <1>6

LEMMA AnswerChunk ==
    ASSUME TInv, NEW h \in Handlers, ReplyChunk(h)
    PROVE  /\ handler' = [handler EXCEPT ![h] = Free]
           /\ tab' \in [Tabs -> TabType(used)] /\ TabsOK'
           /\ told' \in [Uploads -> SUBSET Chunks]
<1> DEFINE q == handler[h]
           t == handler[h].tab
<1>0. /\ tab \in [Tabs -> TabType(used)] /\ t \in Tabs \cup {None} /\ used \in Nat
      /\ q.upload \in 0..used /\ q.chunk \in Chunks
      /\ told \in [Uploads -> SUBSET Chunks]
  BY Bounds DEF TInv, TypeOK, TabType
<1>1. /\ tab' = IF t = None THEN tab ELSE [tab EXCEPT ![t].part[q.chunk] = "have"]
      /\ handler' = [handler EXCEPT ![h] = Free]
      /\ told' \in {told, [told EXCEPT ![q.upload] = @ \cup {q.chunk}]}
  BY <1>0 DEF ReplyChunk, Reply
<1>2. ASSUME NEW s \in TabType(used)
      PROVE  /\ [s EXCEPT !.part[q.chunk] = "have"] \in TabType(used)
             /\ [s EXCEPT !.part[q.chunk] = "have"].stage = s.stage
             /\ [s EXCEPT !.part[q.chunk] = "have"].upload = s.upload
  BY <1>0 DEF TabType
<1>3. tab' \in [Tabs -> TabType(used)]
  BY <1>0, <1>1, <1>2
<1>4. TabsOK'
  BY <1>0, <1>1, <1>2 DEF TInv, TabsOK
<1> QED
  BY <1>0, <1>1, <1>3, <1>4

LEMMA AnswerFile ==
    ASSUME TInv, NEW h \in Handlers, ReplyFile(h)
    PROVE  /\ handler' = [handler EXCEPT ![h] = Free]
           /\ tab' \in [Tabs -> TabType(used)] /\ TabsOK'
           /\ told' \in [Uploads -> SUBSET Chunks]
<1> DEFINE q == handler[h]
<1>0. /\ tab \in [Tabs -> TabType(used)] /\ q.tab \in Tabs \cup {None}
      /\ q.whole \in BOOLEAN /\ told \in [Uploads -> SUBSET Chunks]
  BY DEF TInv, TypeOK, TabType
<1>1. /\ tab' = IF q.tab = None THEN tab
                ELSE [tab EXCEPT ![q.tab] = [@ EXCEPT !.stage = "done", !.whole = q.whole]]
      /\ handler' = [handler EXCEPT ![h] = Free]
      /\ told' = told
  BY <1>0 DEF ReplyFile, Reply
<1>2. ASSUME NEW s \in TabType(used)
      PROVE  [s EXCEPT !.stage = "done", !.whole = q.whole] \in TabType(used)
  BY <1>0 DEF TabType
<1>3. tab' \in [Tabs -> TabType(used)]
  BY <1>0, <1>1, <1>2
<1>4. TabsOK'
  BY <1>0, <1>1 DEF TInv, TabsOK, TabType
<1> QED
  BY <1>0, <1>1, <1>3, <1>4

\* Errors of requests leave the server alone.
LEMMA ErrorTInv ==
    ASSUME TInv, NEW H \in SUBSET Handlers, tab' = TabsAfter(H),
           handler' \in [Handlers -> RequestType(used)],
           \A x \in Handlers : RequestOK(handler'[x]),
           UNCHANGED <<server, told>>, lost' \in 0..MaxLost, faults' \in 0..MaxFaults
    PROVE  TInv'
<1>0. TypeOK /\ used' = used
  BY DEF TInv, server
<1>1. /\ tab' \in [Tabs -> TabType(used)]
      /\ \A t \in Tabs : /\ tab'[t].upload = tab[t].upload
                         /\ tab'[t].stage \in {tab[t].stage, "failed"}
  BY ErrorsEndPublications
<1>2. TypeOK'
  BY <1>0, <1>1 DEF TypeOK, RequestType, TabType, server
<1>3. RequestsOK'
  BY DEF RequestsOK, RequestOK, server
<1>4. TabsOK'
  BY <1>1 DEF TInv, TabsOK
<1> QED
  BY <1>2, <1>3, <1>4 DEF TInv

\* What becomes of the requests when h is refused.
LEMMA Refused ==
    ASSUME TInv, NEW h \in Handlers, Refuse(h)
    PROVE  /\ handler' \in [Handlers -> RequestType(used)]
           /\ \A x \in Handlers : RequestOK(handler'[x])
           /\ handler'[h].step \in {"free", "read"} /\ handler'[h].bits = {}
           /\ handler[h].kind # "chunk" => handler'[h] = Free
           /\ \A x \in Handlers \ {h} : SameWork(handler[x], handler'[x])
<1>0. /\ \A x \in Handlers : handler[x] \in RequestType(used) /\ RequestOK(handler[x])
      /\ {h} \in SUBSET Handlers
      /\ handler' = [x \in Handlers |->
            IF x = h THEN IF SentAgain(handler[h]) THEN Again(handler[h]) ELSE Free
            ELSE Forsaken(handler[x], {h})]
  BY DEF TInv, TypeOK, RequestType, RequestsOK, Refuse
<1>1. /\ Free \in RequestType(used) /\ RequestOK(Free)
      /\ Free.step = "free" /\ Free.bits = {}
  <2>1. Free \in RequestType(used)
    BY Bounds, FreeAndClosed DEF TInv, TypeOK
  <2> QED
    BY <2>1 DEF RequestOK, Free, ChunkSteps
<1>2. /\ handler'[h] \in RequestType(used) /\ RequestOK(handler'[h])
      /\ handler'[h].step \in {"free", "read"} /\ handler'[h].bits = {}
      /\ handler[h].kind # "chunk" => handler'[h] = Free
  <2>1. CASE SentAgain(handler[h])
    <3>1. handler'[h] = Again(handler[h]) /\ handler[h].kind = "chunk"
      BY <1>0, <2>1 DEF SentAgain
    <3> QED
      BY <2>1, <3>1, SentAgainIsNew
  <2>2. CASE ~SentAgain(handler[h])
    <3>1. handler'[h] = Free
      BY <1>0, <2>2
    <3> QED
      BY <1>1, <3>1
  <2> QED
    BY <2>1, <2>2
<1>3. ASSUME NEW x \in Handlers, x # h
      PROVE  /\ handler'[x] \in RequestType(used) /\ RequestOK(handler'[x])
             /\ SameWork(handler[x], handler'[x])
  <2>1. handler'[x] = Forsaken(handler[x], {h})
    BY <1>0, <1>3
  <2> QED
    BY <1>0, <2>1, ForsakenGoOn
<1>4. handler' = [x \in Handlers |-> handler'[x]]
  BY <1>0
<1> QED
  BY <1>2, <1>3, <1>4

\* What becomes of the requests when one loses its connection.
LEMMA Lost ==
    ASSUME TInv, NEW h \in Handlers, Lose(h)
    PROVE  /\ handler' \in [Handlers -> RequestType(used)]
           /\ \A x \in Handlers : RequestOK(handler'[x])
           /\ \A x \in Handlers : \/ SameWork(handler[x], handler'[x])
                                  \/ /\ handler[x] = Free
                                     /\ handler'[x].step = "read" /\ handler'[x].bits = {}
<1> PICK g \in Handlers :
        /\ IF SentAgain(handler[h]) THEN FirstFree(g) ELSE g = h
        /\ handler' = [x \in Handlers |->
              IF x = h THEN [handler[h] EXCEPT !.tab = None, !.cut = TRUE]
              ELSE IF x = g THEN Again(handler[h])
              ELSE Forsaken(handler[x], {h})]
  BY DEF Lose
<1>0. /\ \A x \in Handlers : handler[x] \in RequestType(used) /\ RequestOK(handler[x])
      /\ {h} \in SUBSET Handlers /\ handler[h] # Free
  BY DEF TInv, TypeOK, RequestType, RequestsOK, Lose
<1>1. /\ handler'[h] \in RequestType(used) /\ RequestOK(handler'[h])
      /\ SameWork(handler[h], handler'[h])
  <2> PICK q \in RequestType(used) : q = handler[h] /\ RequestOK(q)
    BY <1>0
  <2> PICK r : r = [q EXCEPT !.tab = None, !.cut = TRUE]
    OBVIOUS
  <2>1. /\ r \in RequestType(used) /\ SameWork(q, r) /\ r.tab = None
    BY DEF RequestType, SameWork
  <2>2. RequestOK(r)
    BY <2>1 DEF RequestOK, SameWork
  <2> QED
    BY <2>1, <2>2
<1>2. ASSUME NEW x \in Handlers, x # h
      PROVE  /\ handler'[x] \in RequestType(used) /\ RequestOK(handler'[x])
             /\ \/ SameWork(handler[x], handler'[x])
                \/ /\ handler[x] = Free
                   /\ handler'[x].step = "read" /\ handler'[x].bits = {}
  <2>1. CASE x = g
    <3>1. SentAgain(handler[h]) /\ handler[x] = Free /\ handler'[x] = Again(handler[h])
      BY <1>2, <2>1 DEF FirstFree
    <3> QED
      BY <3>1, SentAgainIsNew
  <2>2. CASE x # g
    <3>1. handler'[x] = Forsaken(handler[x], {h})
      BY <1>2, <2>2
    <3> QED
      BY <1>0, <3>1, ForsakenGoOn
  <2> QED
    BY <2>1, <2>2
<1>3. handler' = [x \in Handlers |-> handler'[x]]
  OBVIOUS
<1> QED
  BY <1>1, <1>2, <1>3

\* What becomes of the requests when the server stops.
LEMMA Stopped ==
    ASSUME TInv, Crash
    PROVE  /\ handler' \in [Handlers -> RequestType(used)]
           /\ \A x \in Handlers : /\ RequestOK(handler'[x])
                                  /\ handler'[x].step \in {"free", "read"}
                                  /\ handler'[x].bits = {}
<1>1. ASSUME NEW x \in Handlers
      PROVE  /\ handler'[x] \in RequestType(used) /\ RequestOK(handler'[x])
             /\ handler'[x].step \in {"free", "read"} /\ handler'[x].bits = {}
  <2>1. CASE SentAgain(handler[x])
    <3> PICK q : q = Again(handler[x])
      OBVIOUS
    <3>1. handler'[x] = Forsaken(q, Handlers)
      BY <2>1 DEF Crash
    <3>2. q \in RequestType(used) /\ RequestOK(q) /\ q.step = "read" /\ q.bits = {}
      BY <2>1, SentAgainIsNew
    <3>3. /\ Forsaken(q, Handlers) \in RequestType(used)
          /\ RequestOK(Forsaken(q, Handlers)) /\ SameWork(q, Forsaken(q, Handlers))
      BY <3>2, ForsakenGoOn
    <3> QED
      BY <3>1, <3>2, <3>3 DEF SameWork
  <2>2. CASE ~SentAgain(handler[x])
    <3>1. handler'[x] = Free /\ Free \in RequestType(used)
      BY <2>2, Bounds, FreeAndClosed DEF Crash, TInv, TypeOK
    <3> QED
      BY <3>1 DEF RequestOK, Free, ChunkSteps
  <2> QED
    BY <2>1, <2>2
<1>2. handler' = [x \in Handlers |-> handler'[x]]
  BY DEF Crash
<1> QED
  BY <1>1, <1>2

LEMMA RefusedTInv ==
    ASSUME TInv, NEW h \in Handlers, Refuse(h),
           UNCHANGED <<server, lost>>, faults' \in 0..MaxFaults
    PROVE  TInv'
<1>1. /\ {h} \in SUBSET Handlers /\ tab' = TabsAfter({h}) /\ told' = told
      /\ lost' \in 0..MaxLost
  BY DEF Refuse, TInv, TypeOK
<1> QED
  BY <1>1, Refused, ErrorTInv

\* The server's state after a step of one request.
LEMMA StepTInvWork ==
    ASSUME TInv, NEW h \in Handlers, Work(h)
    PROVE  TInv'
<1> DEFINE q == handler[h]
<1>0. /\ TypeOK /\ q \in RequestType(used) /\ RequestOK(q) /\ used \in Nat
      /\ handler \in [Handlers -> RequestType(used)]
      /\ tab \in [Tabs -> TabType(used)]
      /\ session \in [Uploads -> (SUBSET Chunks) \cup {NoSession}]
      /\ disk \in [Uploads -> [Chunks -> {"absent", "part", "whole"}]]
      /\ used <= MaxUploads /\ index \in 0..used
      /\ removed \subseteq 1..used /\ used \in used..MaxUploads
      /\ faults \in 0..MaxFaults /\ lost \in 0..MaxLost
  BY Bounds DEF TInv, TypeOK, RequestsOK, RequestType, TabType
<1>00. /\ q.upload \in 0..used /\ q.chunk \in Chunks /\ q.bits \in SUBSET Chunks
       /\ q.step \in Steps
  BY <1>0 DEF RequestType
\* It is enough to look at the request, at what its tab learns, and at what is
\* written to the session and the disk.
<1>1. ASSUME NEW r, handler' = [handler EXCEPT ![h] = r], RequestOK(r)',
             used' \in used..MaxUploads, r \in RequestType(used'),
             index' \in 0..used', removed \subseteq removed', removed' \subseteq 1..used',
             session' \in [Uploads -> (SUBSET Chunks) \cup {NoSession}],
             disk' \in [Uploads -> [Chunks -> {"absent", "part", "whole"}]],
             faults' \in 0..MaxFaults, lost' = lost,
             tab' \in [Tabs -> TabType(used')], TabsOK',
             told' \in [Uploads -> SUBSET Chunks]
      PROVE  TInv'
  <2>0. /\ used' \in Nat /\ used <= used'
        /\ used' \in 0..MaxUploads /\ lost' \in 0..MaxLost
    BY <1>0, <1>1, Bounds
  <2>1. handler' \in [Handlers -> RequestType(used')] /\ RequestsOK'
    BY <1>1, <2>0, OneRequest
  <2>3. TypeOK'
    BY <1>1, <2>1, <2>0 DEF TypeOK, RequestType, TabType
  <2> QED
    BY <1>1, <2>1, <2>3 DEF TInv
<1>2. ASSUME UNCHANGED <<tab, told, used>>
      PROVE  /\ tab' \in [Tabs -> TabType(used')] /\ TabsOK'
             /\ told' \in [Uploads -> SUBSET Chunks]
  BY <1>0, <1>2 DEF TypeOK, TInv, TabsOK
<1>3. CASE Find(h)
  <2> PICK ok \in BOOLEAN :
        /\ q.step = "find" /\ Unsure(ok) /\ UNCHANGED <<server, tab, told, lost>>
        /\ handler' = IF ok /\ index # 0
                      THEN [handler EXCEPT ![h].step = "load", ![h].upload = index]
                      ELSE Go(h, "new")
    BY <1>3, Zenon DEF Find, At
  <2> PICK r : r = IF ok /\ index # 0 THEN [q EXCEPT !.step = "load", !.upload = index]
                   ELSE [q EXCEPT !.step = "new"]
    OBVIOUS
  <2>1. handler' = [handler EXCEPT ![h] = r]
    BY <1>0 DEF Go
  <2>2. r \in RequestType(used') /\ RequestOK(r)'
    BY <1>0 DEF server, RequestType, RequestOK, ChunkSteps, Steps
  <2>3. faults' \in 0..MaxFaults
    BY <1>0, Bounds DEF Unsure
  <2> QED
    BY <1>0, <1>1, <1>2, <2>1, <2>2, <2>3 DEF server
<1>4. CASE Load(h)
  <2> PICK ok \in BOOLEAN :
        /\ q.step = "load" /\ Unsure(ok) /\ UNCHANGED <<server, tab, told, lost>>
        /\ handler' = IF ok /\ OK(session[q.upload])
                      THEN [handler EXCEPT ![h].step = "refresh",
                                           ![h].bits = session[q.upload]]
                      ELSE Go(h, "new")
    BY <1>4, Zenon DEF Load, At
  <2> PICK r : r = IF ok /\ OK(session[q.upload])
                   THEN [q EXCEPT !.step = "refresh", !.bits = session[q.upload]]
                   ELSE [q EXCEPT !.step = "new"]
    OBVIOUS
  <2>1. handler' = [handler EXCEPT ![h] = r]
    BY <1>0 DEF Go
  <2>2. q.upload \in Uploads /\ (OK(session[q.upload]) => session[q.upload] \in SUBSET Chunks)
    BY <1>0, <1>00, Bounds DEF RequestOK, OK, Uploads
  <2>3. r \in RequestType(used') /\ RequestOK(r)'
    BY <1>0, <2>2 DEF server, RequestType, RequestOK, ChunkSteps, Steps
  <2>4. faults' \in 0..MaxFaults
    BY <1>0, Bounds DEF Unsure
  <2> QED
    BY <1>0, <1>1, <1>2, <2>1, <2>3, <2>4 DEF server
<1>5. CASE Refresh(h)
  <2> PICK r : r = [q EXCEPT !.step = "rewrite"]
    OBVIOUS
  <2>1. handler' = [handler EXCEPT ![h] = r]
    BY <1>0, <1>5 DEF Refresh, Go
  <2>2. r \in RequestType(used') /\ RequestOK(r)'
    BY <1>0, <1>5 DEF Refresh, At, RequestType, RequestOK, ChunkSteps, Steps
  <2>3. index' \in 0..used' /\ faults' \in 0..MaxFaults
    BY <1>0, <1>00, <1>5, Bounds DEF Refresh, Unsure
  <2> QED
    BY <1>0, <1>1, <1>2, <1>5, <2>1, <2>2, <2>3 DEF Refresh
<1>6. CASE Forget(h)
  <2> PICK r : r = [q EXCEPT !.step = "unpoint"]
    OBVIOUS
  <2>1. handler' = [handler EXCEPT ![h] = r]
    BY <1>0, <1>6 DEF Forget, Go
  <2>2. r \in RequestType(used') /\ RequestOK(r)'
    BY <1>0, <1>6 DEF Forget, At, RequestType, RequestOK, ChunkSteps, Steps
  <2>3. session' \in [Uploads -> (SUBSET Chunks) \cup {NoSession}]
    BY <1>0, <1>6 DEF Forget
  <2>4. faults' \in 0..MaxFaults
    BY <1>0, <1>6, Bounds DEF Forget, Unsure
  <2> QED
    BY <1>0, <1>1, <1>2, <1>6, <2>1, <2>2, <2>3, <2>4 DEF Forget
<1>7. CASE New(h)
  <2> PICK r : r = [q EXCEPT !.step = "point", !.upload = used + 1]
    OBVIOUS
  <2>1. used' = used + 1 /\ used' \in used..MaxUploads /\ q.step = "new"
    BY <1>0, <1>7, Bounds DEF New, At
  <2>2. handler' = [handler EXCEPT ![h] = r]
    BY <1>0, <1>7, <2>1 DEF New
  <2>3. r \in RequestType(used')
    <3>1. r.upload \in 0..used' /\ q \in RequestType(used')
      BY <1>0, <2>1 DEF RequestType
    <3> QED
      BY <3>1 DEF RequestType, Steps
  <2>4. RequestOK(r)'
    BY <1>0, <2>1 DEF RequestType, RequestOK, ChunkSteps
  <2>5. session' \in [Uploads -> (SUBSET Chunks) \cup {NoSession}]
    BY <1>0, <1>7 DEF New
  <2>6. index' \in 0..used' /\ removed' = removed /\ removed' \subseteq 1..used'
    BY <1>0, <1>7, <2>1 DEF New
  <2>7. tab' \in [Tabs -> TabType(used')] /\ TabsOK' /\ told' \in [Uploads -> SUBSET Chunks]
    BY <1>0, <1>7, <2>1 DEF New, TInv, TabsOK, TabType, TypeOK
  <2> QED
    BY <1>0, <1>1, <1>7, <2>1, <2>2, <2>3, <2>4, <2>5, <2>6, <2>7 DEF New
<1>8. CASE Create(h) \/ Write(h)
  <2> PICK r : r = [q EXCEPT !.step = IF Create(h) THEN "write" ELSE "save"]
    OBVIOUS
  <2>1. handler' = [handler EXCEPT ![h] = r]
    BY <1>0, <1>8 DEF Create, Write, Go, At
  <2>2. r \in RequestType(used') /\ RequestOK(r)'
    BY <1>0, <1>8 DEF Create, Write, At, RequestType, RequestOK, ChunkSteps, Steps
  <2>3. disk' \in [Uploads -> [Chunks -> {"absent", "part", "whole"}]]
    <3>1. ASSUME NEW s \in {"part", "whole"}, disk' = [disk EXCEPT ![q.upload][q.chunk] = s]
          PROVE  disk' \in [Uploads -> [Chunks -> {"absent", "part", "whole"}]]
      <4>1. \A u \in Uploads : [disk[u] EXCEPT ![q.chunk] = s]
                                  \in [Chunks -> {"absent", "part", "whole"}]
        BY <1>0, <1>00
      <4> QED
        BY <1>0, <3>1, <4>1
    <3> QED
      BY <1>0, <1>8, <3>1 DEF Create, Write
  <2> QED
    BY <1>0, <1>1, <1>2, <1>8, <2>1, <2>2, <2>3 DEF Create, Write
\* A request that is answered is over.
<1>9. Free \in RequestType(used) /\ RequestOK(Free)'
  BY <1>0, FreeAndClosed DEF RequestOK, ChunkSteps, Free
<1>10. ASSUME handler' = [handler EXCEPT ![h] = Free],
              UNCHANGED <<disk, removed, used, lost>>,
              index' \in 0..used, faults' \in 0..MaxFaults,
              session' \in [Uploads -> (SUBSET Chunks) \cup {NoSession}],
              tab' \in [Tabs -> TabType(used)], TabsOK',
              told' \in [Uploads -> SUBSET Chunks]
       PROVE  TInv'
  BY <1>0, <1>1, <1>9, <1>10
<1>11. q.step \in {"rewrite", "point", "read", "save", "remove"} =>
          q.upload \in 1..used /\ q.upload \in Uploads
  BY <1>0, <1>00, Bounds DEF RequestOK, Uploads
<1>12. CASE Rewrite(h)
  <2>1. ReplyInit(h, q.upload, q.bits) /\ q.upload \in 1..used
    BY <1>12, <1>11 DEF Rewrite, At
  <2>2. faults' \in 0..MaxFaults
    BY <1>0, <1>12, Bounds DEF Rewrite, Unsure
  <2>3. session' \in [Uploads -> (SUBSET Chunks) \cup {NoSession}]
    BY <1>0, <1>00, <1>12 DEF Rewrite
  <2>4. UNCHANGED <<index, disk, removed, used, lost>>
    BY <1>12 DEF Rewrite
  <2> QED
    BY <1>0, <1>00, <1>10, <2>1, <2>2, <2>3, <2>4, AnswerInit
<1>13. CASE Point(h)
  <2>1. ReplyInit(h, q.upload, {}) /\ q.upload \in 1..used /\ {} \in SUBSET Chunks
    BY <1>13, <1>11 DEF Point, At
  <2>2. UNCHANGED <<session, disk, removed, used, lost, faults>> /\ index' \in 0..used
    BY <1>00, <1>13 DEF Point
  <2> QED
    BY <1>0, <1>10, <2>1, <2>2, AnswerInit
<1>14. CASE ReadSession(h)
  <2>0. UNCHANGED <<server, lost, faults>> /\ q.step = "read"
    BY <1>14 DEF ReadSession, At
  <2>1. CASE Refuse(h)
    BY <1>0, <2>0, <2>1, RefusedTInv
  <2>2. CASE ReplyChunk(h)
    BY <1>0, <1>10, <2>0, <2>2, AnswerChunk DEF server
  <2>3. CASE /\ handler' = [handler EXCEPT ![h].step = "create", ![h].bits = session[q.upload]]
             /\ OK(session[q.upload]) /\ UNCHANGED <<tab, told>>
    <3> PICK r : r = [q EXCEPT !.step = "create", !.bits = session[q.upload]]
      OBVIOUS
    <3>1. handler' = [handler EXCEPT ![h] = r]
      BY <1>0, <2>3
    <3>2. session[q.upload] \in SUBSET Chunks
      BY <1>0, <1>11, <2>0, <2>3 DEF OK
    <3>3. r \in RequestType(used') /\ RequestOK(r)'
      BY <1>0, <2>0, <3>2 DEF server, RequestType, RequestOK, ChunkSteps, Steps
    <3> QED
      BY <1>0, <1>1, <1>2, <2>0, <2>3, <3>1, <3>3 DEF server
  <2> QED
    BY <1>14, <2>1, <2>2, <2>3 DEF ReadSession
<1>15. CASE Save(h)
  <2>1. session' \in [Uploads -> (SUBSET Chunks) \cup {NoSession}]
    BY <1>0, <1>00, <1>15 DEF Save, Recorded
  <2>2. ReplyChunk(h) /\ UNCHANGED <<index, disk, removed, used, lost, faults>>
    BY <1>15 DEF Save
  <2> QED
    BY <1>0, <1>10, <2>1, <2>2, AnswerChunk
<1>16. CASE Check(h)
  <2>0. UNCHANGED <<server, lost, faults>> /\ q.step = "check"
    BY <1>16 DEF Check, At
  <2>1. CASE Refuse(h)
    BY <1>0, <2>0, <2>1, RefusedTInv
  <2>2. CASE handler' = Go(h, "merge") /\ UNCHANGED <<tab, told>>
    <3> PICK r : r = [q EXCEPT !.step = "merge"]
      OBVIOUS
    <3>1. handler' = [handler EXCEPT ![h] = r]
      BY <1>0, <2>2 DEF Go
    <3>2. r \in RequestType(used') /\ RequestOK(r)'
      BY <1>0, <2>0 DEF server, RequestType, RequestOK, ChunkSteps, Steps
    <3> QED
      BY <1>0, <1>1, <1>2, <2>0, <2>2, <3>1, <3>2 DEF server
  <2> QED
    BY <1>16, <2>1, <2>2 DEF Check
<1>17. CASE Merge(h)
  <2>0. UNCHANGED <<server, lost, faults>> /\ q.step = "merge"
    BY <1>17 DEF Merge, At
  <2>1. CASE Refuse(h)
    BY <1>0, <2>0, <2>1, RefusedTInv
  <2>2. CASE ~Refuse(h)
    <3> PICK r : r = [q EXCEPT
                !.whole = @ /\ disk[q.upload][q.chunk] = "whole",
                !.chunk = IF @ + 1 < N THEN @ + 1 ELSE @,
                !.step = IF q.chunk + 1 < N THEN @ ELSE "remove"]
      OBVIOUS
    <3>1. handler' = [handler EXCEPT ![h] = r] /\ UNCHANGED <<tab, told>>
      BY <1>0, <1>17, <2>2 DEF Merge
    <3>2. r.chunk \in Chunks
      BY <1>0, <1>00, Bounds DEF RequestType, Chunks
    <3>4. r.step \in {"merge", "remove"} /\ r.whole \in BOOLEAN
      BY <1>0, <2>0 DEF RequestType
    <3>5. /\ q.bits = {} /\ q.linked /\ q.upload # 0
          /\ q.kind # "chunk" /\ (q.cut => q.tab = None)
      BY <1>0, <2>0 DEF RequestOK, ChunkSteps
    <3>7. /\ r.bits = {} /\ r.linked /\ r.upload # 0
          /\ r.kind # "chunk" /\ (r.cut => r.tab = None)
      BY <1>0, <3>5 DEF RequestType
    <3>3. r \in RequestType(used')
      BY <1>0, <2>0, <3>2, <3>4 DEF server, RequestType, Steps
    <3>6. RequestOK(r)'
      BY <3>4, <3>7 DEF RequestOK, ChunkSteps
    <3> QED
      BY <1>0, <1>1, <1>2, <2>0, <2>2, <3>1, <3>3, <3>6 DEF server
  <2> QED
    BY <2>1, <2>2
<1>18. CASE Unpoint(h)
  <2>1. ReplyFile(h) /\ UNCHANGED <<session, disk, removed, used, lost>>
    BY <1>18 DEF Unpoint
  <2>2. faults' \in 0..MaxFaults /\ index' \in 0..used
    BY <1>0, <1>18, Bounds DEF Unpoint, Unsure
  <2> QED
    BY <1>0, <1>10, <2>1, <2>2, AnswerFile
<1>19. CASE Remove(h)
  <2>0. /\ q.step = "remove" /\ q.upload \in 1..used /\ q.upload \in Uploads
        /\ removed' = removed \cup {q.upload} /\ disk' = RemoveAll(q.upload)
        /\ UNCHANGED <<index, session, used, tab, told, lost, faults>>
    BY <1>19, <1>11 DEF Remove, At
  <2>1. \A x \in Handlers : handler'[x] \in
          {[handler[x] EXCEPT !.linked = FALSE], [handler[x] EXCEPT !.step = "forget"], handler[x]}
    BY <1>19 DEF Remove
  <2>2. handler' \in [Handlers -> RequestType(used)]
    <3>1. handler' = [x \in Handlers |-> handler'[x]]
      BY <1>19 DEF Remove
    <3>2. ASSUME NEW x \in Handlers PROVE handler'[x] \in RequestType(used)
      <4> PICK r \in RequestType(used) : r = handler[x]
        BY <1>0
      <4> QED
        BY <2>1 DEF RequestType, Steps
    <3> QED
      BY <3>1, <3>2
  <2>3. RequestsOK'
    <3>1. RequestOK(handler[h])'
      <4> PICK r : r = [q EXCEPT !.step = "forget"]
        OBVIOUS
      <4>1. /\ handler'[h] = r /\ q.linked /\ q.bits = {} /\ q.upload # 0
            /\ q.kind # "chunk" /\ (q.cut => q.tab = None)
        BY <1>0, <1>19, <2>0 DEF Remove, RequestOK, ChunkSteps
      <4>2. /\ r.linked /\ r.bits = {} /\ r.upload # 0 /\ r.step = "forget"
            /\ r.kind # "chunk" /\ (r.cut => r.tab = None)
        BY <1>0, <4>1 DEF RequestType
      <4> QED
        BY <4>1, <4>2 DEF RequestOK, ChunkSteps
    <3>2. ASSUME NEW x \in Handlers \ {h} PROVE RequestOK(handler[x])'
      <4>1. RequestOK(handler[x]) /\ handler[x] \in RequestType(used)
        BY <1>0 DEF TInv, RequestsOK
      <4>2. handler'[x] = IF handler[x].step = "write" /\ handler[x].upload = q.upload
                          THEN [handler[x] EXCEPT !.linked = FALSE] ELSE handler[x]
        BY <1>19 DEF Remove
      <4> QED
        BY <2>0, <4>1, <4>2 DEF RequestOK, RequestType, ChunkSteps
    <3> QED
      BY <3>1, <3>2 DEF RequestsOK
  <2>4. disk' \in [Uploads -> [Chunks -> {"absent", "part", "whole"}]]
    <3>1. [c \in Chunks |-> "absent"] \in [Chunks -> {"absent", "part", "whole"}]
      OBVIOUS
    <3> QED
      BY <1>0, <2>0, <3>1 DEF RemoveAll
  <2>5. TypeOK'
    BY <1>0, <2>0, <2>2, <2>4 DEF TypeOK, RequestType, TabType
  <2> QED
    BY <2>0, <2>3, <2>5 DEF TInv, TabsOK
<1> QED
  BY <1>3, <1>4, <1>5, <1>6, <1>7, <1>8, <1>12, <1>13, <1>14, <1>15, <1>16, <1>17,
     <1>18, <1>19 DEF Work

LEMMA StepTInv == TInv /\ [Next]_vars => TInv'
<1> SUFFICES ASSUME TInv, [Next]_vars PROVE TInv'
  OBVIOUS
<1>0. /\ TypeOK /\ used \in Nat /\ used \in 0..MaxUploads
      /\ handler \in [Handlers -> RequestType(used)]
      /\ tab \in [Tabs -> TabType(used)]
      /\ faults \in 0..MaxFaults /\ lost \in 0..MaxLost
      /\ Free \in RequestType(used) /\ Closed \in TabType(used)
  <2>1. TypeOK /\ used \in Nat
    BY Bounds DEF TInv, TypeOK
  <2> QED
    BY <2>1, FreeAndClosed DEF TypeOK, RequestType, TabType
<1>1. ASSUME NEW h \in Handlers, Work(h) PROVE TInv'
  BY <1>1, StepTInvWork
<1>2. ASSUME NEW h \in Handlers, Fails(h) PROVE TInv'
  <2>1. faults' \in 0..MaxFaults /\ UNCHANGED <<server, lost>> /\ Refuse(h)
    BY <1>0, <1>2, Bounds DEF Fails
  <2> QED
    BY <2>1, RefusedTInv
<1>3. ASSUME NEW h \in Handlers, Lose(h) PROVE TInv'
  <2>1. /\ lost' \in 0..MaxLost /\ faults' \in 0..MaxFaults /\ UNCHANGED <<server, told>>
        /\ {h} \in SUBSET Handlers /\ tab' = TabsAfter({h})
    BY <1>0, <1>3, Bounds DEF Lose
  <2> QED
    BY <1>3, <2>1, Lost, ErrorTInv
<1>4. ASSUME NEW h \in Handlers, Cancelled(h) PROVE TInv'
  <2>1. handler' \in [Handlers -> RequestType(used)]
    BY <1>0, <1>4 DEF Cancelled
  <2>2. TypeOK'
    BY <1>0, <1>4, <2>1 DEF Cancelled, server, TypeOK, RequestType, TabType
  <2>3. RequestsOK'
    BY <1>0, <1>4 DEF Cancelled, server, TInv, RequestsOK, RequestOK, ChunkSteps, Free
  <2> QED
    BY <1>4, <2>2, <2>3 DEF Cancelled, TInv, TabsOK
\* A tab turns to its next step and sends a request of an upload it was given.
<1>5. ASSUME NEW t \in Tabs, NEW kind \in {"init", "chunk", "complete"},
             NEW step \in {"find", "read", "check"}, NEW c \in Chunks,
             Request(kind, step, t, c), kind # "init" => tab[t].upload # 0,
             kind = "init" <=> step = "find", kind = "chunk" <=> step = "read",
             tab' \in [Tabs -> TabType(used)], TabsOK',
             UNCHANGED <<server, told, lost, faults>>
      PROVE  TInv'
  <2> PICK h \in Handlers :
        handler' = [handler EXCEPT ![h] =
             [Free EXCEPT !.kind = kind, !.step = step, !.tab = t, !.chunk = c,
                          !.upload = IF kind = "init" THEN 0 ELSE tab[t].upload]]
    BY <1>5 DEF Request
  <2> PICK r : r = [Free EXCEPT !.kind = kind, !.step = step, !.tab = t, !.chunk = c,
                          !.upload = IF kind = "init" THEN 0 ELSE tab[t].upload]
    OBVIOUS
  <2>0. used' = used /\ removed' = removed
    BY <1>5 DEF server
  <2>1. r \in RequestType(used')
    <3>1. tab[t].upload \in 0..used /\ 0 \in 0..used
      BY <1>0 DEF TabType
    <3> QED
      BY <1>0, <2>0, <3>1 DEF RequestType, Steps, Free
  <2>2. RequestOK(r)'
    BY <1>5 DEF RequestOK, ChunkSteps, Free
  <2>3. /\ used' \in Nat /\ used <= used' /\ removed \subseteq removed'
        /\ handler' = [handler EXCEPT ![h] = r]
    BY <1>0, <2>0
  <2>4. handler' \in [Handlers -> RequestType(used')] /\ RequestsOK'
    BY <2>1, <2>2, <2>3, OneRequest
  <2>5. TypeOK'
    BY <1>0, <1>5, <2>0, <2>4 DEF TypeOK, server, RequestType, TabType
  <2> QED
    BY <1>5, <2>4, <2>5 DEF TInv
<1>6. ASSUME NEW t \in Tabs, Use(t) PROVE TInv'
  <2>1. CASE Publish(t)
    <3>1. /\ Request("init", "find", t, 0) /\ UNCHANGED <<server, told, lost, faults>>
          /\ tab' = [tab EXCEPT ![t] = [Closed EXCEPT !.stage = "init"]]
      BY <2>1 DEF Publish
    <3>2. tab' \in [Tabs -> TabType(used)]
      BY <1>0, <3>1 DEF TabType
    <3>3. TabsOK'
      BY <1>0, <3>1 DEF TInv, TabsOK, Closed
    <3> QED
      BY <1>5, <3>1, <3>2, <3>3, Bounds
  <2>2. CASE SendChunk(t)
    <3> PICK c \in Chunks : /\ tab[t].stage = "upload" /\ Request("chunk", "read", t, c)
                            /\ tab' = [tab EXCEPT ![t].part[c] = "sent"]
      BY <2>2 DEF SendChunk
    <3>2. tab' \in [Tabs -> TabType(used)]
      BY <1>0 DEF TabType
    <3>3. TabsOK' /\ tab[t].upload # 0
      BY <1>0 DEF TInv, TabsOK, TabType
    <3>4. UNCHANGED <<server, told, lost, faults>>
      BY <2>2 DEF SendChunk
    <3> QED
      BY <1>5, <3>2, <3>3, <3>4
  <2>3. CASE SendComplete(t)
    <3>1. /\ Request("complete", "check", t, 0) /\ UNCHANGED <<server, told, lost, faults>>
          /\ tab' = [tab EXCEPT ![t].stage = "complete"] /\ tab[t].stage = "upload"
      BY <2>3 DEF SendComplete
    <3>2. tab' \in [Tabs -> TabType(used)]
      BY <1>0, <3>1 DEF TabType
    <3>3. TabsOK' /\ tab[t].upload # 0
      BY <1>0, <3>1 DEF TInv, TabsOK, TabType
    <3> QED
      BY <1>5, <3>1, <3>2, <3>3, Bounds
  <2> QED
    BY <1>6, <2>1, <2>2, <2>3 DEF Use
<1>7. ASSUME Crash PROVE TInv'
  <2>1. /\ faults' \in 0..MaxFaults /\ lost' \in 0..MaxLost /\ UNCHANGED <<server, told>>
        /\ Handlers \in SUBSET Handlers /\ tab' = TabsAfter(Handlers)
    BY <1>0, <1>7, Bounds DEF Crash
  <2> QED
    BY <1>7, <2>1, Stopped, ErrorTInv
<1>8. ASSUME Expire PROVE TInv'
  <2>1. session' \in [Uploads -> (SUBSET Chunks) \cup {NoSession}]
    BY <1>0, <1>8 DEF Expire, TypeOK
  <2>2. index' \in 0..used
    BY <1>0, <1>8 DEF Expire
  <2>3. UNCHANGED <<disk, removed, used, handler, tab, told, lost, faults>>
    BY <1>8 DEF Expire
  <2> QED
    BY <1>0, <2>1, <2>2, <2>3 DEF TInv, TypeOK, RequestsOK, RequestOK, TabsOK
<1>9. ASSUME UNCHANGED vars PROVE TInv'
  BY <1>0, <1>9 DEF vars, server, TInv, TypeOK, RequestsOK, RequestOK, TabsOK
<1> QED
  BY <1>1, <1>2, <1>3, <1>4, <1>6, <1>7, <1>8, <1>9 DEF Next

LEMMA AlwaysTInv == Spec => []TInv
  BY InitTInv, StepTInv, PTL DEF Spec

\* The state keeps its type: no request names an upload that was not begun, no
\* attempt is counted beyond the last, and session and disk hold chunks of the
\* file only.
THEOREM TypeCorrect == Spec => []TypeOK
<1>1. TInv => TypeOK
  BY DEF TInv
<1> QED
  BY <1>1, AlwaysTInv, PTL

-----------------------------------------------------------------------------
(* Chunks and their files.                                                 *)

\* The file of chunk c of upload u is there, and whole unless something failed
\* or somebody is writing it again.
Stored(u, c) ==
    /\ disk[u][c] # "absent"
    /\ faults = 0 => disk[u][c] = "whole" \/ Writing(u, c)

\* The chunks a request takes to be stored.
Known(q) == q.bits \cup (IF q.step \in {"write", "save"} THEN {q.chunk} ELSE {})

FileOK(q) == q.upload \in removed \/ \A c \in Known(q) : Stored(q.upload, c)

FilesOK == \A h \in Handlers : FileOK(handler[h])

\* What is written to the session later comes from requests that read it
\* before: both must be backed by files.
FInv == TInv /\ FilesOK /\ RecordedIsStored

LEMMA InitFInv == Init => FInv
<1> SUFFICES ASSUME Init PROVE FInv
  OBVIOUS
<1>1. TInv
  BY InitTInv
<1>2. FilesOK
  BY DEF Init, FilesOK, FileOK, Known, Free
<1>3. RecordedIsStored
  <2>1. NoSession \cap Chunks = {}
    BY Bounds DEF NoSession
  <2> QED
    BY <2>1 DEF Init, RecordedIsStored
<1> QED
  BY <1>1, <1>2, <1>3 DEF FInv

\* The requests of a state, for the steps that follow.
LEMMA Requests ==
    ASSUME TInv
    PROVE  /\ handler \in [Handlers -> RequestType(used)] /\ used \in Nat
           /\ faults \in Nat /\ used <= MaxUploads
           /\ disk \in [Uploads -> [Chunks -> {"absent", "part", "whole"}]]
           /\ session \in [Uploads -> (SUBSET Chunks) \cup {NoSession}]
           /\ \A x \in Handlers :
                /\ RequestOK(handler[x])
                /\ handler[x].upload \in 0..used /\ handler[x].chunk \in Chunks
                /\ handler[x].bits \in SUBSET Chunks
                /\ handler[x].upload # 0 => handler[x].upload \in Uploads
<1>1. /\ handler \in [Handlers -> RequestType(used)] /\ used \in Nat
      /\ faults \in Nat /\ used <= MaxUploads
      /\ disk \in [Uploads -> [Chunks -> {"absent", "part", "whole"}]]
      /\ session \in [Uploads -> (SUBSET Chunks) \cup {NoSession}]
  BY Bounds DEF TInv, TypeOK, RequestType
<1>2. \A x \in Handlers : RequestOK(handler[x])
  BY DEF TInv, RequestsOK
<1>3. \A x \in Handlers :
         /\ handler[x].upload \in 0..used /\ handler[x].chunk \in Chunks
         /\ handler[x].bits \in SUBSET Chunks
  BY <1>1 DEF RequestType
<1>4. \A u \in 0..used : u # 0 => u \in Uploads
  BY <1>1, Bounds DEF Uploads
<1> QED
  BY <1>1, <1>2, <1>3, <1>4

\* A step that leaves the disk alone and ends no request in the middle of a file,
\* unless by a failure.
Quiet ==
    /\ UNCHANGED <<disk, removed>> /\ faults <= faults'
    /\ faults' = 0 => \A x \in Handlers :
          handler[x].step = "write" => SameWork(handler[x], handler'[x])

LEMMA OthersKeepWriting ==
    ASSUME TInv, NEW h \in Handlers, handler[h].step # "write",
           \/ \E r : handler' = [handler EXCEPT ![h] = r]
           \/ Refuse(h)
    PROVE  \A x \in Handlers :
              handler[x].step = "write" => SameWork(handler[x], handler'[x])
<1>1. handler \in [Handlers -> RequestType(used)]
  BY Requests
<1>2. CASE \E r : handler' = [handler EXCEPT ![h] = r]
  BY <1>1, <1>2 DEF SameWork
<1>3. CASE Refuse(h)
  BY <1>3, Refused
<1> QED
  BY <1>2, <1>3

LEMMA MostStepsAreQuiet ==
    ASSUME TInv, [Next]_vars
    PROVE  \/ Quiet
           \/ \E h \in Handlers : Create(h) \/ Write(h) \/ Remove(h)
<1>0. faults \in Nat /\ handler \in [Handlers -> RequestType(used)]
  BY Requests
<1>1. ASSUME NEW h \in Handlers, Work(h) PROVE Quiet \/ Create(h) \/ Write(h) \/ Remove(h)
  <2> SUFFICES ASSUME ~Create(h), ~Write(h), ~Remove(h) PROVE Quiet
    OBVIOUS
  <2>1. handler[h].step # "write"
    BY <1>1 DEF Work, At, Find, Load, Refresh, Rewrite, New, Point, ReadSession, Save,
                Check, Merge, Forget, Unpoint
  <2>2. UNCHANGED <<disk, removed>> /\ faults <= faults'
    BY <1>0, <1>1 DEF Work, server, Unsure, Find, Load, Refresh, Rewrite, New, Point,
                      ReadSession, Save, Check, Merge, Forget, Unpoint
  <2>3. \/ \E r : handler' = [handler EXCEPT ![h] = r]
        \/ Refuse(h)
    <3>1. \/ Refuse(h)
          \/ handler' = [handler EXCEPT ![h] = Free]
          \/ \E s \in Steps : handler' = Go(h, s)
          \/ handler' = [handler EXCEPT ![h].step = "load", ![h].upload = index]
          \/ handler' = [handler EXCEPT ![h].step = "refresh",
                                        ![h].bits = session[handler[h].upload]]
          \/ handler' = [handler EXCEPT ![h].step = "point", ![h].upload = used']
          \/ handler' = [handler EXCEPT ![h].step = "create",
                                        ![h].bits = session[handler[h].upload]]
          \/ Merge(h)
      BY <1>1, Zenon DEF Work, Find, Load, Refresh, Rewrite, New, Point, ReadSession,
            Save, Check, Forget, Unpoint, ReplyInit, ReplyChunk, ReplyFile, Reply, Steps
    <3>2. Merge(h) => Refuse(h) \/ \E r : handler' = [handler EXCEPT ![h] = r]
      BY <1>0 DEF Merge
    <3> QED
      BY <1>0, <3>1, <3>2 DEF Go
  <2>4. \A x \in Handlers : handler[x].step = "write" => SameWork(handler[x], handler'[x])
    BY <2>1, <2>3, OthersKeepWriting
  <2> QED
    BY <2>2, <2>4 DEF Quiet
<1>2. ASSUME NEW h \in Handlers, Fails(h) PROVE Quiet
  BY <1>0, <1>2 DEF Fails, Quiet, server
<1>3. ASSUME NEW h \in Handlers, Lose(h) PROVE Quiet
  <2>1. UNCHANGED <<disk, removed, faults>> /\ Free.step # "write"
    BY <1>3 DEF Lose, server, Free
  <2>2. \A x \in Handlers : handler[x].step = "write" => SameWork(handler[x], handler'[x])
    BY <1>3, <2>1, Lost
  <2> QED
    BY <1>0, <2>1, <2>2 DEF Quiet
<1>4. ASSUME NEW h \in Handlers, Cancelled(h) PROVE Quiet
  <2>1. handler[h].step # "write" /\ handler' = [handler EXCEPT ![h] = Free]
        /\ UNCHANGED <<disk, removed, faults>>
    BY <1>4 DEF Cancelled, RedisSteps, Steps, server
  <2>2. \A x \in Handlers : handler[x].step = "write" => SameWork(handler[x], handler'[x])
    BY <2>1, OthersKeepWriting
  <2> QED
    BY <1>0, <2>1, <2>2 DEF Quiet
<1>5. ASSUME NEW t \in Tabs, Use(t) PROVE Quiet
  <2>1. /\ UNCHANGED <<disk, removed, faults>>
        /\ \E kind, step, c : Request(kind, step, t, c)
    BY <1>5 DEF Use, Publish, SendChunk, SendComplete, server
  <2>2. PICK h \in Handlers : /\ handler[h] = Free
                              /\ \E r : handler' = [handler EXCEPT ![h] = r]
    BY <2>1 DEF Request, FirstFree
  <2>3. handler[h].step # "write"
    BY <2>2 DEF Free
  <2>4. PICK r : handler' = [handler EXCEPT ![h] = r]
    BY <2>2
  <2>5. \A x \in Handlers : handler[x].step = "write" => SameWork(handler[x], handler'[x])
    BY <2>3, <2>4, OthersKeepWriting
  <2> QED
    BY <1>0, <2>1, <2>5 DEF Quiet
<1>6. ASSUME Crash PROVE Quiet
  BY <1>0, <1>6 DEF Crash, Quiet, server
<1>7. ASSUME Expire \/ UNCHANGED vars PROVE Quiet
  BY <1>0, <1>7 DEF Expire, vars, Quiet, server, SameWork
<1> QED
  BY <1>1, <1>2, <1>3, <1>4, <1>5, <1>6, <1>7 DEF Next

\* A stored chunk stays stored until the upload's directory is removed.
LEMMA StoredStays ==
    ASSUME TInv, [Next]_vars,
           NEW u \in Uploads, u \notin removed', NEW c \in Chunks, Stored(u, c)
    PROVE  Stored(u, c)'
<1>0. /\ handler \in [Handlers -> RequestType(used)] /\ faults \in Nat
      /\ disk \in [Uploads -> [Chunks -> {"absent", "part", "whole"}]]
      /\ \A x \in Handlers :
            /\ RequestOK(handler[x]) /\ handler[x].chunk \in Chunks
            /\ handler[x].upload # 0 => handler[x].upload \in Uploads
  BY Requests
<1>1. CASE Quiet
  <2>1. disk' = disk /\ faults <= faults' /\ (faults' = 0 => faults = 0)
    <3>1. faults' = 0 => faults = 0
      BY <1>0, <1>1 DEF Quiet
    <3> QED
      BY <1>1, <3>1 DEF Quiet
  <2>2. faults' = 0 /\ Writing(u, c) => Writing(u, c)'
    BY <1>1 DEF Quiet, Writing, SameWork
  <2> QED
    BY <2>1, <2>2 DEF Stored
<1>2. ASSUME NEW h \in Handlers, Create(h) PROVE Stored(u, c)'
  <2> DEFINE q == handler[h]
  <2>1. /\ q.step = "create" /\ q.linked /\ q.upload \in Uploads /\ q.chunk \in Chunks
        /\ disk' = [disk EXCEPT ![q.upload][q.chunk] = "part"] /\ faults' = faults
        /\ handler' = [handler EXCEPT ![h] = [q EXCEPT !.step = "write"]]
    BY <1>0, <1>2 DEF Create, At, Go, RequestOK
  <2>2. /\ handler'[h].step = "write" /\ handler'[h].linked
        /\ handler'[h].upload = q.upload /\ handler'[h].chunk = q.chunk
    BY <1>0, <2>1 DEF RequestType
  <2>3. CASE u = q.upload /\ c = q.chunk
    <3>1. Writing(u, c)'
      BY <2>2, <2>3 DEF Writing
    <3>2. disk'[u][c] = "part"
      BY <1>0, <2>1, <2>3
    <3> QED
      BY <3>1, <3>2 DEF Stored
  <2>4. CASE ~(u = q.upload /\ c = q.chunk)
    <3>1. disk'[u][c] = disk[u][c]
      BY <1>0, <2>1, <2>4
    <3>2. Writing(u, c) => Writing(u, c)'
      BY <1>0, <2>1 DEF Writing
    <3> QED
      BY <2>1, <3>1, <3>2 DEF Stored
  <2> QED
    BY <2>3, <2>4
<1>3. ASSUME NEW h \in Handlers, Write(h) PROVE Stored(u, c)'
  <2> DEFINE q == handler[h]
  <2>1. /\ q.step = "write" /\ q.upload \in Uploads /\ q.chunk \in Chunks
        /\ disk' = IF q.linked THEN [disk EXCEPT ![q.upload][q.chunk] = "whole"] ELSE disk
        /\ handler' = [handler EXCEPT ![h] = [q EXCEPT !.step = "save"]]
        /\ removed' = removed /\ faults' = faults
    BY <1>0, <1>3 DEF Write, At, Go, RequestOK
  <2>2. CASE q.linked /\ u = q.upload /\ c = q.chunk
    <3>1. disk'[u][c] = "whole"
      BY <1>0, <2>1, <2>2
    <3> QED
      BY <3>1 DEF Stored
  <2>3. CASE ~(q.linked /\ u = q.upload /\ c = q.chunk)
    <3>1. disk'[u][c] = disk[u][c]
      BY <1>0, <2>1, <2>3
    <3>2. Writing(u, c) => Writing(u, c)'
      BY <1>0, <2>1, <2>3 DEF Writing
    <3> QED
      BY <2>1, <3>1, <3>2 DEF Stored
  <2> QED
    BY <2>2, <2>3
<1>4. ASSUME NEW h \in Handlers, Remove(h) PROVE Stored(u, c)'
  <2>1. /\ u # handler[h].upload /\ disk' = RemoveAll(handler[h].upload) /\ faults' = faults
        /\ handler[h].step = "remove"
    BY <1>4 DEF Remove, At
  <2>2. disk'[u] = disk[u]
    BY <1>0, <2>1 DEF RemoveAll
  <2>3. ASSUME NEW x \in Handlers, handler[x].step = "write", handler[x].upload = u
        PROVE  handler'[x] = handler[x]
    BY <1>4, <2>1, <2>3 DEF Remove
  <2>4. Writing(u, c) => Writing(u, c)'
    BY <2>3 DEF Writing
  <2> QED
    BY <2>1, <2>2, <2>4 DEF Stored
<1> QED
  BY <1>1, <1>2, <1>3, <1>4, MostStepsAreQuiet

\* What the requests other than h keep in a step of h.
LEMMA OthersKeepUpload ==
    ASSUME TInv, NEW h \in Handlers, NEW x \in Handlers, x # h,
           \/ \E r : handler' = [handler EXCEPT ![h] = r]
           \/ Refuse(h)
           \/ Remove(h)
    PROVE  handler'[x].upload = handler[x].upload /\ Known(handler'[x]) = Known(handler[x])
<1>1. handler \in [Handlers -> RequestType(used)]
  BY Requests
<1>2. CASE Refuse(h)
  BY <1>2, Refused DEF SameWork, Known
<1>3. CASE ~Refuse(h)
  <2>1. handler'[x] \in {handler[x], [handler[x] EXCEPT !.linked = FALSE]}
    BY <1>1, <1>3 DEF Remove
  <2> QED
    BY <1>1, <2>1 DEF Known, RequestType
<1> QED
  BY <1>2, <1>3

\* Where the chunks come from that a request takes to be stored.
LEMMA Sources ==
    ASSUME TInv, [Next]_vars, NEW x \in Handlers
    PROVE  \/ Known(handler'[x]) = {}
           \/ /\ handler'[x].upload = handler[x].upload
              /\ Known(handler'[x]) = Known(handler[x])
           \/ /\ handler'[x].upload \in Uploads
              /\ Known(handler'[x]) \subseteq session[handler'[x].upload] \cap Chunks
           \/ Create(x)
<1>0. /\ handler \in [Handlers -> RequestType(used)]
      /\ session \in [Uploads -> (SUBSET Chunks) \cup {NoSession}]
      /\ \A h \in Handlers :
            /\ RequestOK(handler[h])
            /\ handler[h].upload # 0 => handler[h].upload \in Uploads
  BY Requests
<1>00. Known(Free) = {}
  BY DEF Known, Free
<1>1. ASSUME NEW h \in Handlers, Work(h), x # h
      PROVE  handler'[x].upload = handler[x].upload /\ Known(handler'[x]) = Known(handler[x])
  <2>1. \/ Refuse(h) \/ Remove(h) \/ Merge(h)
        \/ handler' = [handler EXCEPT ![h] = Free]
        \/ \E s \in Steps : handler' = Go(h, s)
        \/ handler' = [handler EXCEPT ![h].step = "load", ![h].upload = index]
        \/ handler' = [handler EXCEPT ![h].step = "refresh",
                                      ![h].bits = session[handler[h].upload]]
        \/ handler' = [handler EXCEPT ![h].step = "point", ![h].upload = used']
        \/ handler' = [handler EXCEPT ![h].step = "create",
                                      ![h].bits = session[handler[h].upload]]
    BY <1>1, Zenon DEF Work, Find, Load, Refresh, Rewrite, New, Point, ReadSession,
          Create, Write, Save, Check, Forget, Unpoint, ReplyInit, ReplyChunk, ReplyFile,
          Reply, Steps
  <2>2. Merge(h) => Refuse(h) \/ \E r : handler' = [handler EXCEPT ![h] = r]
    BY <1>0 DEF Merge
  <2>3. \/ \E r : handler' = [handler EXCEPT ![h] = r]
        \/ Refuse(h)
        \/ Remove(h)
    BY <1>0, <2>1, <2>2 DEF Go
  <2> QED
    BY <1>1, <2>3, OthersKeepUpload
<1>2. CASE Work(x)
  <2> DEFINE q == handler[x]
  <2>0. q \in RequestType(used) /\ RequestOK(q)
    BY <1>0
  <2>1. CASE \/ Rewrite(x) \/ Point(x) \/ Save(x) \/ Unpoint(x)
    BY <1>0, <1>00, <2>1 DEF Rewrite, Point, Save, Unpoint, ReplyInit, ReplyChunk,
                            ReplyFile, Reply
  <2>2. CASE Refuse(x)
    BY <2>2, Refused DEF Known
  <2>3. CASE Find(x) \/ New(x)
    <3>1. q.bits = {} /\ handler'[x].step \notin {"write", "save"} /\ handler'[x].bits = q.bits
      BY <1>0, <2>0, <2>3 DEF Find, New, At, Go, RequestOK, ChunkSteps, RequestType
    <3> QED
      BY <3>1 DEF Known
  <2>4. CASE Load(x)
    <3>0. /\ q.step = "load" /\ q.bits = {} /\ q.upload \in Uploads
          /\ \/ handler' = [handler EXCEPT ![x].step = "new"]
             \/ /\ OK(session[q.upload])
                /\ handler' = [handler EXCEPT ![x].step = "refresh",
                                              ![x].bits = session[q.upload]]
      BY <1>0, <2>0, <2>4 DEF Load, At, Go, RequestOK
    <3>1. CASE handler' = [handler EXCEPT ![x].step = "new"]
      <4>1. handler'[x].step = "new" /\ handler'[x].bits = {}
        BY <1>0, <2>0, <3>0, <3>1 DEF RequestType
      <4> QED
        BY <4>1 DEF Known
    <3>2. CASE /\ OK(session[q.upload])
               /\ handler' = [handler EXCEPT ![x].step = "refresh",
                                             ![x].bits = session[q.upload]]
      <4>1. /\ handler'[x].upload = q.upload
            /\ handler'[x].bits = session[q.upload] /\ handler'[x].step = "refresh"
        BY <1>0, <2>0, <3>2 DEF RequestType
      <4>2. session[q.upload] \subseteq Chunks
        BY <1>0, <3>0, <3>2 DEF OK
      <4> QED
        BY <3>0, <4>1, <4>2 DEF Known
    <3> QED
      BY <3>0, <3>1, <3>2
  <2>5. CASE /\ OK(session[q.upload]) /\ q.step = "read"
             /\ handler' = [handler EXCEPT ![x].step = "create", ![x].bits = session[q.upload]]
    <3>1. /\ q.upload \in Uploads /\ handler'[x].upload = q.upload
          /\ handler'[x].bits = session[q.upload] /\ handler'[x].step = "create"
      BY <1>0, <2>0, <2>5 DEF RequestOK, RequestType
    <3>2. session[q.upload] \subseteq Chunks
      BY <1>0, <2>5, <3>1 DEF OK
    <3> QED
      BY <3>1, <3>2 DEF Known
  <2>6. CASE Refresh(x) \/ Write(x)
    <3>1. /\ handler'[x].upload = q.upload /\ handler'[x].bits = q.bits
          /\ handler'[x].chunk = q.chunk
          /\ q.step = "write" <=> handler'[x].step = "save"
          /\ q.step # "save" /\ handler'[x].step # "write"
      BY <1>0, <2>0, <2>6 DEF Refresh, Write, At, Go, RequestType
    <3> QED
      BY <3>1 DEF Known
  <2>7. CASE /\ q.step \in {"check", "merge", "remove", "forget"} /\ ~Refuse(x)
             /\ Check(x) \/ Merge(x) \/ Remove(x) \/ Forget(x)
    <3>1. /\ handler'[x].bits = q.bits /\ q.bits = {}
          /\ handler'[x].step \notin {"write", "save"}
      BY <1>0, <2>0, <2>7 DEF Check, Merge, Remove, Forget, Go, RequestOK, RequestType
    <3> QED
      BY <3>1 DEF Known
  <2>8. ReadSession(x) =>
          \/ Refuse(x) \/ ReplyChunk(x)
          \/ /\ OK(session[q.upload]) /\ q.step = "read"
             /\ handler' = [handler EXCEPT ![x].step = "create", ![x].bits = session[q.upload]]
    BY DEF ReadSession, At
  <2>9. CASE ReplyChunk(x)
    BY <1>0, <1>00, <2>9 DEF ReplyChunk, Reply
  <2>10. Check(x) \/ Merge(x) \/ Remove(x) \/ Forget(x)
            => q.step \in {"check", "merge", "remove", "forget"}
    BY DEF Check, Merge, Remove, Forget, At
  <2> QED
    BY <1>2, <2>1, <2>2, <2>3, <2>4, <2>5, <2>6, <2>7, <2>8, <2>9, <2>10 DEF Work
<1>3. ASSUME NEW h \in Handlers, Fails(h) \/ Cancelled(h)
      PROVE  \/ Known(handler'[x]) = {}
             \/ /\ handler'[x].upload = handler[x].upload
                /\ Known(handler'[x]) = Known(handler[x])
  <2>1. CASE x = h
    <3>1. Refuse(h) \/ handler'[h] = Free
      BY <1>0, <1>3 DEF Fails, Cancelled
    <3> QED
      BY <1>00, <2>1, <3>1, Refused DEF Known
  <2>2. CASE x # h
    <3>1. Refuse(h) \/ \E r : handler' = [handler EXCEPT ![h] = r]
      BY <1>3 DEF Fails, Cancelled
    <3> QED
      BY <2>2, <3>1, OthersKeepUpload
  <2> QED
    BY <2>1, <2>2
<1>4. ASSUME NEW h \in Handlers, Lose(h)
      PROVE  \/ Known(handler'[x]) = {}
             \/ /\ handler'[x].upload = handler[x].upload
                /\ Known(handler'[x]) = Known(handler[x])
  BY <1>4, Lost DEF SameWork, Known
<1>5. ASSUME NEW t \in Tabs, Use(t)
      PROVE  \/ Known(handler'[x]) = {}
             \/ /\ handler'[x].upload = handler[x].upload
                /\ Known(handler'[x]) = Known(handler[x])
  <2>1. PICK kind, c : \E step \in {"find", "read", "check"} : Request(kind, step, t, c)
    BY <1>5 DEF Use, Publish, SendChunk, SendComplete
  <2>2. PICK step \in {"find", "read", "check"}, h \in Handlers :
          handler' = [handler EXCEPT ![h] =
             [Free EXCEPT !.kind = kind, !.step = step, !.tab = t, !.chunk = c,
                          !.upload = IF kind = "init" THEN 0 ELSE tab[t].upload]]
    BY <2>1 DEF Request
  <2>3. CASE x = h
    BY <1>0, <2>2, <2>3 DEF Known, Free
  <2>4. CASE x # h
    BY <1>0, <2>2, <2>4
  <2> QED
    BY <2>3, <2>4
<1>6. Crash => Known(handler'[x]) = {}
  BY Stopped DEF Known
<1>7. Expire \/ UNCHANGED vars => handler' = handler
  BY DEF Expire, vars
<1> QED
  BY <1>1, <1>2, <1>3, <1>4, <1>5, <1>6, <1>7 DEF Next

\* Where the chunks come from that the session records.
LEMMA Records ==
    ASSUME TInv, [Next]_vars, NEW u \in Uploads
    PROVE  \/ session'[u] = session[u]
           \/ session'[u] \cap Chunks = {}
           \/ \E h \in Handlers : handler[h].upload = u /\ session'[u] \subseteq Known(handler[h])
<1>0. session \in [Uploads -> (SUBSET Chunks) \cup {NoSession}] /\ NoSession \cap Chunks = {}
  BY Requests, Bounds DEF NoSession
<1>1. ASSUME NEW h \in Handlers, Work(h), session' # session
      PROVE  \/ session'[u] = session[u]
             \/ session'[u] \cap Chunks = {}
             \/ \E x \in Handlers :
                   handler[x].upload = u /\ session'[u] \subseteq Known(handler[x])
  <2>1. Rewrite(h) \/ New(h) \/ Save(h) \/ Forget(h)
    BY <1>1 DEF Work, Find, Load, Refresh, Point, ReadSession, Create, Write, Check, Merge,
                Remove, Unpoint, server
  <2>2. CASE Rewrite(h)
    BY <1>0, <1>1, <2>2 DEF Rewrite, Known
  <2>3. CASE New(h) \/ Forget(h)
    BY <1>0, <1>1, <2>3 DEF New, Forget
  <2>4. CASE Save(h)
    BY <1>0, <2>4 DEF Save, At, Recorded, Known
  <2> QED
    BY <2>1, <2>2, <2>3, <2>4
<1>2. ASSUME ~\E h \in Handlers : Work(h), ~Expire PROVE session' = session
  BY <1>2 DEF Next, Fails, Lose, Cancelled, Use, Publish, SendChunk, SendComplete, Crash,
              vars, server
<1>3. Expire => session'[u] = session[u] \/ session'[u] \cap Chunks = {}
  BY <1>0 DEF Expire
<1> QED
  BY <1>1, <1>2, <1>3

LEMMA StepFInv == FInv /\ [Next]_vars => FInv'
<1> SUFFICES ASSUME FInv, [Next]_vars PROVE FInv'
  OBVIOUS
<1>0. /\ TInv /\ TInv' /\ FilesOK /\ RecordedIsStored
      /\ handler \in [Handlers -> RequestType(used)]
      /\ disk \in [Uploads -> [Chunks -> {"absent", "part", "whole"}]]
      /\ session \in [Uploads -> (SUBSET Chunks) \cup {NoSession}]
      /\ removed \subseteq removed'
  <2>1. removed \subseteq removed'
    BY DEF Next, Work, Use, Find, Load, Refresh, Rewrite, New, Point, ReadSession, Create,
           Write, Save, Check, Merge, Remove, Forget, Unpoint, Fails, Lose, Cancelled, Publish,
           SendChunk, SendComplete, Crash, Expire, vars, server
  <2> QED
    BY <2>1, StepTInv, Requests DEF FInv
<1>1. ASSUME NEW x \in Handlers
      PROVE  /\ Known(handler[x]) \subseteq Chunks
             /\ Known(handler[x]) # {} => handler[x].upload \in Uploads
             /\ handler[x].upload \notin removed =>
                   \A c \in Known(handler[x]) : Stored(handler[x].upload, c)
  BY <1>0, Requests DEF Known, RequestOK, FilesOK, FileOK
<1>2. ASSUME NEW u \in Uploads, u \notin removed', NEW c \in Chunks, Stored(u, c)
      PROVE  Stored(u, c)'
  BY <1>0, <1>2, StoredStays
<1>3. FilesOK'
  <2>1. ASSUME NEW x \in Handlers, NEW u, u = handler'[x].upload, u \notin removed',
               NEW c \in Known(handler'[x])
        PROVE  Stored(u, c)'
    <3>1. CASE /\ handler'[x].upload = handler[x].upload
               /\ Known(handler'[x]) = Known(handler[x])
      <4>1. u \in Uploads /\ c \in Chunks /\ Stored(u, c)
        BY <1>0, <1>1, <2>1, <3>1
      <4> QED
        BY <1>2, <2>1, <4>1
    <3>2. CASE /\ handler'[x].upload \in Uploads
               /\ Known(handler'[x]) \subseteq session[handler'[x].upload] \cap Chunks
      <4>1. u \in Uploads /\ c \in Chunks /\ Stored(u, c)
        BY <1>0, <2>1, <3>2 DEF RecordedIsStored, Stored
      <4> QED
        BY <1>2, <2>1, <4>1
    <3>3. CASE Create(x)
      <4> DEFINE q == handler[x]
      <4>1. /\ q.upload \in Uploads /\ q.chunk \in Chunks /\ q.linked /\ q.step = "create"
            /\ q.bits = Known(q) /\ q \in RequestType(used)
        BY <1>0, <3>3, Requests DEF Create, At, RequestOK, Known
      <4>2. /\ handler'[x].upload = q.upload /\ handler'[x].chunk = q.chunk
            /\ handler'[x].linked /\ handler'[x].step = "write" /\ handler'[x].bits = q.bits
            /\ disk' = [disk EXCEPT ![q.upload][q.chunk] = "part"]
        BY <1>0, <3>3, <4>1 DEF Create, Go, RequestType
      <4>3. u = q.upload /\ c \in q.bits \cup {q.chunk}
        BY <2>1, <4>2 DEF Known
      <4>4. CASE c = q.chunk
        <5>1. disk'[u][c] = "part"
          BY <1>0, <4>1, <4>2, <4>3, <4>4
        <5>2. Writing(u, c)'
          BY <4>2, <4>3, <4>4 DEF Writing
        <5> QED
          BY <5>1, <5>2 DEF Stored
      <4>5. CASE c \in q.bits
        <5>1. c \in Chunks /\ Stored(u, c)
          BY <1>0, <1>1, <2>1, <4>1, <4>3, <4>5
        <5> QED
          BY <1>2, <2>1, <4>1, <4>3, <5>1
      <4> QED
        BY <4>3, <4>4, <4>5
    <3> QED
      BY <1>0, <2>1, <3>1, <3>2, <3>3, Sources
  <2>2. ASSUME NEW x \in Handlers PROVE FileOK(handler[x])'
    <3> PICK u : u = handler'[x].upload
      OBVIOUS
    <3>1. u \in removed' \/ \A c \in Known(handler'[x]) : Stored(u, c)'
      BY <2>1
    <3> QED
      BY <3>1 DEF FileOK, Known, Stored, Writing
  <2> QED
    BY <2>2 DEF FilesOK
<1>4. RecordedIsStored'
  <2>1. ASSUME NEW u \in Uploads, u \notin removed', NEW c \in Chunks, c \in session'[u]
        PROVE  Stored(u, c)'
    <3>1. CASE session'[u] = session[u]
      <4>1. Stored(u, c)
        BY <1>0, <2>1, <3>1 DEF RecordedIsStored, Stored
      <4> QED
        BY <1>2, <2>1, <4>1
    <3>2. CASE \E h \in Handlers : /\ handler[h].upload = u
                                   /\ session'[u] \subseteq Known(handler[h])
      <4>1. Stored(u, c)
        BY <1>0, <1>1, <2>1, <3>2
      <4> QED
        BY <1>2, <2>1, <4>1
    <3>3. session'[u] \cap Chunks # {}
      BY <2>1
    <3> QED
      BY <1>0, <3>1, <3>2, <3>3, Records
  <2> QED
    BY <2>1 DEF RecordedIsStored, Stored
<1> QED
  BY <1>0, <1>3, <1>4 DEF FInv

\* A chunk recorded in the session of an upload that was not merged has its file
\* on the disk, for any number of tabs, retries, lost requests, failing calls
\* and crashes; and until something has failed the file is whole, or a repeated
\* request is writing it again.
THEOREM RecordsAreBacked == Spec => []RecordedIsStored
<1>1. FInv => RecordedIsStored
  BY DEF FInv
<1>2. Spec => []FInv
  BY InitFInv, StepFInv, PTL DEF Spec
<1> QED
  BY <1>1, <1>2, PTL

-----------------------------------------------------------------------------
(* One tab, as long as nothing fails.                                      *)

Calm == lost = 0 /\ faults = 0

InitSteps == {"find", "load", "refresh", "rewrite", "new", "point"}
FileSteps == {"check", "merge", "remove", "forget", "unpoint"}

\* A request does what its tab waits for.
FitsTab(q, r) ==
    /\ q.step \in InitSteps => r.stage = "init"
    /\ q.step \in ChunkSteps => /\ r.stage = "upload" /\ r.upload = q.upload
                                /\ r.part[q.chunk] = "sent"
    /\ q.step \in FileSteps => r.stage = "complete" /\ r.upload = q.upload /\ q.whole

Waited(t) == \A h \in Handlers :
    handler[h].step # "free" => handler[h].tab = t /\ FitsTab(handler[h], tab[t])

\* Only requests of different chunks are under way together.
Apart == \A g, h \in Handlers :
    g # h /\ handler[g].step # "free" /\ handler[h].step # "free" =>
        /\ handler[g].step \in ChunkSteps /\ handler[h].step \in ChunkSteps
        /\ handler[g].chunk # handler[h].chunk

\* A request's upload is not merged before the request is there to merge it,
\* and then it is stored in full.
UnmergedRequest(q) ==
    /\ q.step \in {"load", "refresh", "rewrite", "point", "check", "merge"} =>
          q.upload \notin removed
    /\ q.step = "point" => session[q.upload] # NoSession
    /\ q.step = "merge" => \A c \in Chunks : disk[q.upload][c] = "whole"

Unmerged(t) ==
    /\ tab[t].stage = "upload" =>
          tab[t].upload \notin removed /\ session[tab[t].upload] # NoSession
    /\ \A h \in Handlers : UnmergedRequest(handler[h])
    /\ index \in removed => \E h \in Handlers : handler[h].step \in {"forget", "unpoint"}

GotWhole(t) == tab[t].stage = "done" => tab[t].whole

LoneInv(t) == Calm => Waited(t) /\ Apart /\ Unmerged(t) /\ GotWhole(t)

LEMMA InitLoneInv == ASSUME NEW a \in Tabs, Init PROVE LoneInv(a)
  BY DEF Init, LoneInv, Waited, Apart, Unmerged, UnmergedRequest, GotWhole, Free, Closed

\* After a step that leaves at most the request h under way, only h counts.
LEMMA OnlyOne ==
    ASSUME NEW a \in Tabs, NEW h \in Handlers,
           \A g \in Handlers \ {h} : handler'[g].step = "free",
           handler'[h].step # "free" =>
              handler'[h].tab = a /\ FitsTab(handler'[h], tab'[a]),
           UnmergedRequest(handler[h])',
           tab'[a].stage = "upload" =>
              tab'[a].upload \notin removed' /\ session'[tab'[a].upload] # NoSession,
           index' \in removed' => handler'[h].step \in {"forget", "unpoint"},
           GotWhole(a)'
    PROVE  LoneInv(a)'
<1>1. Waited(a)' /\ Apart'
  BY DEF Waited, Apart
<1>2. \A g \in Handlers \ {h} : UnmergedRequest(handler[g])'
  BY DEF UnmergedRequest
<1>3. Unmerged(a)'
  BY <1>2 DEF Unmerged
<1> QED
  BY <1>1, <1>3 DEF LoneInv

\* A step of a lone tab's requests in which nothing fails.
LEMMA LoneWork ==
    ASSUME NEW a, Tabs = {a}, FInv, LoneInv(a), NEW h \in Handlers, Work(h),
           Calm, Calm'
    PROVE  LoneInv(a)'
<1> DEFINE q == handler[h]
           r == handler'[h]
<1>0. /\ TInv /\ RecordedIsStored /\ a \in Tabs /\ None # a
      /\ Waited(a) /\ Apart /\ Unmerged(a) /\ GotWhole(a)
      /\ faults = 0 /\ faults' = 0
      /\ handler \in [Handlers -> RequestType(used)] /\ used \in Nat
      /\ session \in [Uploads -> (SUBSET Chunks) \cup {NoSession}]
      /\ tab \in [Tabs -> TabType(used)]
      /\ index \in 0..used /\ removed \subseteq 1..used
  BY Requests, Bounds DEF FInv, LoneInv, Calm, TInv, TypeOK, TabType
<1>1. /\ q \in RequestType(used) /\ RequestOK(q) /\ q.chunk \in Chunks
      /\ q.bits \in SUBSET Chunks
      /\ q.upload # 0 => q.upload \in Uploads
      /\ tab[a] \in TabType(used)
  BY <1>0, Requests
<1>2. /\ q.step # "free" => q.tab = a /\ FitsTab(q, tab[a])
      /\ UnmergedRequest(q)
  BY <1>0 DEF Waited, Unmerged
<1>3. ASSUME q.step \in InitSteps \cup FileSteps
      PROVE  \A g \in Handlers \ {h} : handler[g].step = "free"
  BY <1>0, <1>3 DEF Apart, InitSteps, FileSteps, ChunkSteps
\* The handlers of init.
<1>4. ASSUME q.step \in InitSteps, q.step \notin {"forget", "unpoint"}
      PROVE  index \notin removed
  BY <1>0, <1>3, <1>4 DEF Unmerged
<1>5. CASE Find(h)
  <2>1. /\ q.step = "find" /\ UNCHANGED <<server, tab>>
        /\ handler' = IF index = 0 THEN [handler EXCEPT ![h].step = "new"]
                      ELSE [handler EXCEPT ![h].step = "load", ![h].upload = index]
    BY <1>0, <1>5 DEF Find, At, Go, Unsure
  <2>2. /\ r.step \in {"new", "load"} /\ r.tab = a
        /\ r.step = "load" => r.upload = index
    BY <1>0, <1>1, <1>2, <2>1 DEF RequestType
  <2>3. \A g \in Handlers \ {h} : handler'[g].step = "free"
    BY <1>0, <1>3, <2>1 DEF InitSteps
  <2>4. index \notin removed /\ tab[a].stage = "init"
    BY <1>2, <1>4, <2>1 DEF InitSteps, FitsTab
  <2>5. FitsTab(r, tab'[a])
    BY <2>1, <2>2, <2>4 DEF FitsTab, InitSteps, ChunkSteps, FileSteps
  <2>6. UnmergedRequest(handler[h])'
    BY <2>1, <2>2, <2>4 DEF UnmergedRequest, server
  <2> QED
    BY <1>0, <2>1, <2>2, <2>3, <2>4, <2>5, <2>6, OnlyOne DEF server, GotWhole
<1>6. CASE Load(h) \/ Refresh(h)
  <2>1. /\ q.step \in {"load", "refresh"} /\ UNCHANGED <<session, disk, removed, tab>>
        /\ index' \in {index, q.upload}
    BY <1>6 DEF Load, Refresh, At, server
  <2>2. /\ r.step \in {"new", "refresh", "rewrite"} /\ r.tab = a /\ r.upload = q.upload
    BY <1>0, <1>1, <1>2, <1>6, <2>1 DEF Load, Refresh, Go, RequestType
  <2>3. \A g \in Handlers \ {h} : handler'[g].step = "free"
    BY <1>0, <1>3, <1>6, <2>1 DEF InitSteps, Load, Refresh, Go
  <2>4. index \notin removed /\ tab[a].stage = "init" /\ q.upload \notin removed
    BY <1>2, <1>4, <2>1 DEF InitSteps, FitsTab, UnmergedRequest
  <2>5. FitsTab(r, tab'[a])
    BY <2>1, <2>2, <2>4 DEF FitsTab, InitSteps, ChunkSteps, FileSteps
  <2>6. UnmergedRequest(handler[h])'
    BY <2>1, <2>2, <2>4 DEF UnmergedRequest
  <2> QED
    BY <1>0, <2>1, <2>2, <2>3, <2>4, <2>5, <2>6, OnlyOne DEF GotWhole
<1>7. CASE New(h)
  <2> PICK u : u = used + 1
    OBVIOUS
  <2>1. /\ q.step = "new" /\ u \in Uploads /\ u \notin removed
        /\ session' = [session EXCEPT ![u] = {}]
        /\ UNCHANGED <<index, disk, removed, tab>>
        /\ handler' = [handler EXCEPT ![h].step = "point", ![h].upload = u]
    BY <1>0, <1>7, Bounds DEF New, At, Uploads
  <2>2. r.step = "point" /\ r.tab = a /\ r.upload = u
    BY <1>0, <1>1, <1>2, <2>1 DEF RequestType
  <2>3. \A g \in Handlers \ {h} : handler'[g].step = "free"
    BY <1>0, <1>3, <2>1 DEF InitSteps
  <2>4. index \notin removed /\ tab[a].stage = "init"
    BY <1>2, <1>4, <2>1 DEF InitSteps, FitsTab
  <2>5. FitsTab(r, tab'[a])
    BY <2>1, <2>2, <2>4 DEF FitsTab, InitSteps, ChunkSteps, FileSteps
  <2>6. UnmergedRequest(handler[h])'
    <3>1. session'[u] # NoSession /\ u \notin removed'
      BY <1>0, <2>1, Bounds
    <3> QED
      BY <2>2, <3>1 DEF UnmergedRequest
  <2> QED
    BY <1>0, <2>1, <2>2, <2>3, <2>4, <2>5, <2>6, OnlyOne DEF GotWhole
<1>8. CASE Rewrite(h) \/ Point(h)
  <2>0. /\ q.step \in {"rewrite", "point"} /\ index' \in {index, q.upload}
        /\ UNCHANGED <<disk, removed>>
        /\ ReplyInit(h, q.upload, {}) \/ ReplyInit(h, q.upload, q.bits)
    BY <1>8 DEF Rewrite, Point, At
  <2>1. /\ q.upload \notin removed /\ index \notin removed /\ q.upload \in Uploads
        /\ q.tab = a
        /\ handler' = [handler EXCEPT ![h] = Free]
    BY <1>1, <1>2, <1>4, <2>0 DEF InitSteps, UnmergedRequest, ReplyInit, Reply, RequestOK
  <2>2. session'[q.upload] # NoSession
    <3>1. CASE Rewrite(h)
      <4>1. session' = [session EXCEPT ![q.upload] = q.bits]
        BY <1>0, <3>1 DEF Rewrite, Unsure
      <4> QED
        BY <1>0, <1>1, <2>1, <4>1, Bounds
    <3>2. CASE Point(h)
      BY <1>2, <3>2 DEF Point, At, UnmergedRequest
    <3> QED
      BY <1>8, <3>1, <3>2
  <2>3. tab'[a].stage = "upload" /\ tab'[a].upload = q.upload
    <3>1. ASSUME NEW b
          PROVE  LET s == [tab[a] EXCEPT !.stage = "upload", !.upload = q.upload, !.part = b]
                 IN  s.stage = "upload" /\ s.upload = q.upload
      BY <1>1 DEF TabType
    <3>2. \E b : tab' = [tab EXCEPT ![a] = [tab[a] EXCEPT
                            !.stage = "upload", !.upload = q.upload, !.part = b]]
      BY <1>0, <2>0, <2>1 DEF ReplyInit, Reply
    <3> QED
      BY <1>0, <3>1, <3>2
  <2>4. r = Free /\ \A g \in Handlers \ {h} : handler'[g].step = "free"
    BY <1>0, <1>3, <2>0, <2>1 DEF InitSteps
  <2>5. UnmergedRequest(handler[h])'
    BY <2>4 DEF UnmergedRequest, Free
  <2> QED
    BY <1>0, <2>0, <2>1, <2>2, <2>3, <2>4, <2>5, OnlyOne DEF GotWhole, Free
\* The handlers of complete.
<1>9. CASE Check(h)
  <2>1. /\ q.step = "check" /\ UNCHANGED server
        /\ tab[a].stage = "complete" /\ tab[a].upload = q.upload /\ q.whole
        /\ q.upload \in Uploads /\ q.upload \notin removed /\ index \notin removed
    BY <1>0, <1>1, <1>2, <1>3, <1>9 DEF Check, At, FitsTab, FileSteps, UnmergedRequest,
                                     RequestOK, Unmerged
  <2>2. \A g \in Handlers \ {h} : handler[g].step = "free"
    BY <1>3, <2>1 DEF FileSteps
  <2>3. CASE Refuse(h)
    <3>0. q.kind # "chunk" /\ tab' = TabsAfter({h}) /\ {h} \in SUBSET Handlers
      BY <1>1, <2>1, <2>3 DEF RequestOK, ChunkSteps, Refuse
    <3>1. r = Free /\ \A g \in Handlers \ {h} : SameWork(handler[g], handler'[g])
      BY <1>0, <2>3, <3>0, Refused
    <3>2. /\ \A g \in Handlers \ {h} : handler'[g].step = "free"
          /\ tab'[a].stage \in {"complete", "failed"}
      BY <1>0, <2>1, <2>2, <3>0, <3>1, ErrorsEndPublications DEF SameWork
    <3>3. UnmergedRequest(handler[h])'
      BY <3>1 DEF UnmergedRequest, Free
    <3>4. GotWhole(a)' /\ r.step = "free" /\ tab'[a].stage # "upload"
      BY <3>1, <3>2 DEF GotWhole, Free
    <3> QED
      BY <1>0, <2>1, <3>2, <3>3, <3>4, OnlyOne DEF server
  <2>4. CASE ~Refuse(h)
    <3>1. /\ handler' = [handler EXCEPT ![h].step = "merge"] /\ tab' = tab
          /\ session[q.upload] = Chunks
      BY <1>9, <2>4 DEF Check, Go, IsComplete
    <3>2. /\ r.step = "merge" /\ r.tab = a /\ r.upload = q.upload /\ r.whole
          /\ \A g \in Handlers \ {h} : handler'[g].step = "free"
      BY <1>0, <1>1, <1>2, <2>1, <2>2, <3>1 DEF RequestType
    <3>3. \A c \in Chunks : disk[q.upload][c] = "whole"
      BY <1>0, <2>1, <2>2, <3>1 DEF RecordedIsStored, Writing
    <3>4. UnmergedRequest(handler[h])'
      BY <2>1, <3>2, <3>3 DEF UnmergedRequest, server
    <3>5. FitsTab(r, tab'[a])
      BY <2>1, <3>1, <3>2 DEF FitsTab, InitSteps, ChunkSteps
    <3> QED
      BY <1>0, <2>1, <3>1, <3>2, <3>4, <3>5, OnlyOne DEF server, GotWhole
  <2> QED
    BY <2>3, <2>4
<1>10. CASE Merge(h)
  <2>1. /\ q.step = "merge" /\ UNCHANGED server
        /\ tab[a].stage = "complete" /\ tab[a].upload = q.upload /\ q.whole
        /\ q.upload \notin removed /\ index \notin removed
        /\ \A c \in Chunks : disk[q.upload][c] = "whole"
    BY <1>0, <1>1, <1>2, <1>3, <1>10 DEF Merge, At, FitsTab, FileSteps, UnmergedRequest,
                                      Unmerged
  <2>2. /\ handler' = [handler EXCEPT ![h].whole = @ /\ disk[q.upload][q.chunk] = "whole",
                ![h].chunk = IF @ + 1 < N THEN @ + 1 ELSE @,
                ![h].step = IF q.chunk + 1 < N THEN @ ELSE "remove"]
        /\ tab' = tab
    BY <1>1, <1>10, <2>1 DEF Merge
  <2>3. /\ r.step \in {"merge", "remove"} /\ r.tab = a /\ r.upload = q.upload /\ r.whole
        /\ \A g \in Handlers \ {h} : handler'[g].step = "free"
    BY <1>0, <1>1, <1>2, <1>3, <2>1, <2>2 DEF RequestType, FileSteps
  <2>4. UnmergedRequest(handler[h])'
    BY <2>1, <2>3 DEF UnmergedRequest, server
  <2>5. FitsTab(r, tab'[a])
    BY <2>1, <2>2, <2>3 DEF FitsTab, InitSteps, ChunkSteps
  <2> QED
    BY <1>0, <2>1, <2>2, <2>3, <2>4, <2>5, OnlyOne DEF server, GotWhole
<1>11. CASE Remove(h) \/ Forget(h)
  <2>1. /\ q.step \in {"remove", "forget"} /\ UNCHANGED <<index, tab>>
        /\ tab[a].stage = "complete" /\ tab[a].upload = q.upload /\ q.whole
    BY <1>2, <1>11 DEF Remove, Forget, At, FitsTab, FileSteps
  <2>2. /\ r.step \in {"forget", "unpoint"} /\ r.tab = a /\ r.upload = q.upload /\ r.whole
    BY <1>0, <1>1, <1>2, <1>11, <2>1 DEF Remove, Forget, Go, RequestType
  <2>3. \A g \in Handlers \ {h} : handler'[g].step = "free"
    BY <1>0, <1>3, <1>11, <2>1 DEF Remove, Forget, Go, FileSteps
  <2>4. UnmergedRequest(handler[h])'
    BY <2>2 DEF UnmergedRequest
  <2>5. FitsTab(r, tab'[a])
    BY <2>1, <2>2 DEF FitsTab, InitSteps, ChunkSteps
  <2> QED
    BY <1>0, <2>1, <2>2, <2>3, <2>4, <2>5, OnlyOne DEF GotWhole
<1>12. CASE Unpoint(h)
  <2>1. /\ q.step = "unpoint" /\ ReplyFile(h) /\ index' = 0 /\ removed' = removed
    BY <1>0, <1>12 DEF Unpoint, At, Unsure
  <2>2. q.whole /\ q.tab = a
    BY <1>2, <2>1 DEF FitsTab, FileSteps
  <2>3. tab'[a].stage = "done" /\ tab'[a].whole
    BY <1>0, <1>1, <2>1, <2>2 DEF ReplyFile, Reply, TabType
  <2>4. r = Free /\ \A g \in Handlers \ {h} : handler'[g].step = "free"
    BY <1>0, <1>3, <2>1 DEF FileSteps, ReplyFile, Reply
  <2>5. UnmergedRequest(handler[h])'
    BY <2>4 DEF UnmergedRequest, Free
  <2> QED
    BY <1>0, <2>1, <2>3, <2>4, <2>5, OnlyOne DEF GotWhole, Free
\* The handler of a chunk: others may be under way.
<1>13. ASSUME q.step \in ChunkSteps
       PROVE  /\ tab[a].stage = "upload" /\ tab[a].upload = q.upload
              /\ tab[a].part[q.chunk] = "sent" /\ q.tab = a
              /\ q.upload \notin removed /\ q.upload \in Uploads
              /\ session[q.upload] # NoSession /\ index \notin removed
              /\ \A g \in Handlers :
                   /\ handler[g].step \in ChunkSteps \cup {"free"}
                   /\ g # h /\ handler[g].step # "free" => handler[g].chunk # q.chunk
  <2>1. \A g \in Handlers :
           /\ handler[g].step \in ChunkSteps \cup {"free"}
           /\ g # h /\ handler[g].step # "free" => handler[g].chunk # q.chunk
    BY <1>0, <1>13 DEF Apart, ChunkSteps
  <2>2. /\ tab[a].stage = "upload" /\ tab[a].upload = q.upload
        /\ tab[a].part[q.chunk] = "sent" /\ q.tab = a
        /\ q.upload \notin removed /\ session[q.upload] # NoSession
    BY <1>0, <1>2, <1>13 DEF ChunkSteps, FitsTab, Unmerged
  <2>3. q.upload \in Uploads /\ index \notin removed
    BY <1>0, <1>1, <1>13, <2>1 DEF RequestOK, ChunkSteps, Unmerged
  <2> QED
    BY <2>1, <2>2, <2>3
\* Its request goes on or is answered.
<1>14. ASSUME q.step \in ChunkSteps, UNCHANGED <<index, removed>>,
              NEW s, handler' = [handler EXCEPT ![h] = s],
              \/ /\ s.step \in ChunkSteps /\ s.tab = a /\ s.upload = q.upload
                 /\ s.chunk = q.chunk /\ tab' = tab
              \/ /\ s.step = "free"
                 /\ tab' = [tab EXCEPT ![a] = [@ EXCEPT !.part[q.chunk] = "have"]],
              session'[q.upload] # NoSession
       PROVE  LoneInv(a)'
  <2>1. /\ \A g \in Handlers \ {h} : handler'[g] = handler[g]
        /\ handler'[h] = s
    BY <1>0, <1>14
  <2>2. tab'[a].stage = "upload" /\ tab'[a].upload = q.upload
    <3>1. PICK t : t = [tab[a] EXCEPT !.part[q.chunk] = "have"]
      OBVIOUS
    <3>2. t.stage = tab[a].stage /\ t.upload = tab[a].upload
      BY <1>1, <3>1 DEF TabType
    <3>3. tab'[a] = tab[a] \/ tab'[a] = t
      BY <1>0, <1>14, <3>1
    <3>4. tab[a].stage = "upload" /\ tab[a].upload = q.upload
      BY <1>13, <1>14
    <3> QED
      BY <3>2, <3>3, <3>4
  <2>3. \A c \in Chunks : tab'[a].part[c] = tab[a].part[c] \/ (c = q.chunk /\ s.step = "free")
    BY <1>0, <1>1, <1>14 DEF TabType
  <2>4. \A g \in Handlers : handler[g].chunk \in Chunks
    BY <1>0, Requests
  <2>5. ASSUME NEW g \in Handlers, handler'[g].step # "free"
        PROVE  handler'[g].tab = a /\ FitsTab(handler'[g], tab'[a])
    <3>1. CASE g = h
      BY <1>13, <1>14, <2>1, <2>2, <2>5, <3>1 DEF FitsTab, InitSteps, ChunkSteps, FileSteps
    <3>2. CASE g # h
      <4>1. /\ handler[g].tab = a /\ handler[g].step \in ChunkSteps
            /\ handler[g].chunk # q.chunk /\ FitsTab(handler[g], tab[a])
            /\ handler'[g] = handler[g]
        BY <1>0, <1>13, <1>14, <2>1, <2>5, <3>2 DEF Waited
      <4>2. tab'[a].part[handler[g].chunk] = tab[a].part[handler[g].chunk]
        BY <2>3, <2>4, <4>1
      <4> QED
        BY <1>13, <1>14, <2>2, <4>1, <4>2 DEF FitsTab, InitSteps, ChunkSteps, FileSteps
    <3> QED
      BY <3>1, <3>2
  <2>6. Waited(a)'
    BY <2>5 DEF Waited
  <2>7. Apart'
    BY <1>0, <1>13, <1>14, <2>1 DEF Apart
  <2>8. \A g \in Handlers : handler'[g].step \in ChunkSteps \cup {"free"}
    BY <1>13, <1>14, <2>1
  <2>9. Unmerged(a)'
    BY <1>13, <1>14, <2>2, <2>8 DEF Unmerged, UnmergedRequest, ChunkSteps
  <2>10. GotWhole(a)'
    BY <2>2 DEF GotWhole
  <2> QED
    BY <2>6, <2>7, <2>9, <2>10 DEF LoneInv
<1>15. ASSUME q.step \in ChunkSteps, ReplyChunk(h)
       PROVE  /\ handler' = [handler EXCEPT ![h] = Free]
              /\ tab' = [tab EXCEPT ![a] = [@ EXCEPT !.part[q.chunk] = "have"]]
              /\ Free.step = "free"
  BY <1>0, <1>13, <1>15 DEF ReplyChunk, Reply, Free
<1>16. CASE ReadSession(h)
  <2>1. q.step = "read" /\ q.step \in ChunkSteps /\ UNCHANGED server
    BY <1>16 DEF ReadSession, At, ChunkSteps
  <2>2. OK(session[q.upload])
    BY <1>13, <2>1 DEF OK
  <2>3. CASE ReplyChunk(h)
    BY <1>13, <1>14, <1>15, <2>1, <2>3 DEF server
  <2>4. CASE ~ReplyChunk(h)
    <3> PICK s : s = [q EXCEPT !.step = "create", !.bits = session[q.upload]]
      OBVIOUS
    <3>1. handler' = [handler EXCEPT ![h] = s] /\ tab' = tab
      BY <1>0, <1>16, <2>2, <2>4 DEF ReadSession
    <3>2. s.step \in ChunkSteps /\ s.tab = a /\ s.upload = q.upload /\ s.chunk = q.chunk
      BY <1>1, <1>13, <2>1 DEF RequestType, ChunkSteps
    <3> QED
      BY <1>13, <1>14, <2>1, <3>1, <3>2 DEF server
  <2> QED
    BY <2>3, <2>4
<1>17. CASE Create(h) \/ Write(h)
  <2> PICK s : s = [q EXCEPT !.step = IF Create(h) THEN "write" ELSE "save"]
    OBVIOUS
  <2>1. /\ q.step \in ChunkSteps /\ UNCHANGED <<index, session, removed, tab>>
        /\ handler' = [handler EXCEPT ![h] = s]
    BY <1>0, <1>17 DEF Create, Write, At, Go, ChunkSteps
  <2>2. s.step \in ChunkSteps /\ s.tab = a /\ s.upload = q.upload /\ s.chunk = q.chunk
    BY <1>1, <1>13, <2>1 DEF RequestType, ChunkSteps
  <2> QED
    BY <1>13, <1>14, <2>1, <2>2
<1>18. CASE Save(h)
  <2>1. /\ q.step \in ChunkSteps /\ ReplyChunk(h) /\ UNCHANGED <<index, removed>>
        /\ session' = [session EXCEPT ![q.upload] = Recorded(q)]
    BY <1>18 DEF Save, At, ChunkSteps
  <2>2. session'[q.upload] # NoSession
    <3>1. Recorded(q) \subseteq Chunks
      BY <1>1 DEF Recorded
    <3> QED
      BY <1>0, <1>13, <2>1, <3>1, Bounds
  <2> QED
    BY <1>14, <1>15, <2>1, <2>2
<1> QED
  BY <1>5, <1>6, <1>7, <1>8, <1>9, <1>10, <1>11, <1>12, <1>16, <1>17, <1>18 DEF Work

LEMMA StepLoneInv ==
    ASSUME NEW a, Tabs = {a}, FInv, LoneInv(a), [Next]_vars
    PROVE  LoneInv(a)'
<1> SUFFICES ASSUME Calm' PROVE LoneInv(a)'
  BY DEF LoneInv
<1>0. /\ TInv /\ TypeOK /\ faults \in Nat /\ lost \in Nat /\ a \in Tabs /\ None # a
      /\ handler \in [Handlers -> RequestType(used)]
      /\ tab \in [Tabs -> TabType(used)]
  BY Requests, Bounds DEF FInv, TInv, TypeOK, TabType
\* What failed has been counted.
<1>1. ~Crash /\ \A h \in Handlers : ~Fails(h) /\ ~Lose(h)
  <2>1. Crash => faults' = faults + 1
    BY DEF Crash
  <2>2. ASSUME NEW h \in Handlers
        PROVE  (Fails(h) => faults' = faults + 1) /\ (Lose(h) => lost' = lost + 1)
    BY DEF Fails, Lose
  <2> QED
    BY <1>0, <2>1, <2>2 DEF Calm
<1>2. Calm
  <2>1. \A ok \in BOOLEAN : Unsure(ok) => faults = 0
    BY <1>0 DEF Unsure, Calm
  <2> QED
    BY <1>0, <1>1, <2>1 DEF Next, Work, Use, Calm, vars, server, Find, Load, Refresh, Rewrite,
       New, Point, ReadSession, Create, Write, Save, Check, Merge, Remove, Forget, Unpoint,
       Cancelled, Publish, SendChunk, SendComplete, Expire
<1>3. Waited(a) /\ Apart /\ Unmerged(a) /\ GotWhole(a)
  BY <1>2 DEF LoneInv
<1>4. ASSUME NEW h \in Handlers, Work(h) PROVE LoneInv(a)'
  BY <1>2, <1>4, LoneWork
<1>5. ASSUME NEW h \in Handlers, Cancelled(h) PROVE FALSE
  <2>1. handler[h].cut /\ handler[h].step # "free" /\ RequestOK(handler[h])
    BY <1>0, <1>5, Requests DEF Cancelled, RedisSteps
  <2> QED
    BY <1>0, <1>3, <2>1 DEF Waited, RequestOK
\* A tab that is not waiting has no request under way.
<1>6. ASSUME tab[a].stage \in {"idle", "done", "failed"}
             \/ (tab[a].stage = "upload" /\ AllSent(a))
      PROVE  \A h \in Handlers : handler[h].step = "free"
  <2> SUFFICES ASSUME NEW h \in Handlers, handler[h].step # "free" PROVE FALSE
    OBVIOUS
  <2>1. FitsTab(handler[h], tab[a]) /\ handler[h].step \in Steps /\ handler[h].chunk \in Chunks
    BY <1>0, <1>3, Requests DEF Waited, RequestType
  <2>2. handler[h].step \in InitSteps \cup ChunkSteps \cup FileSteps
    BY <2>1 DEF Steps, InitSteps, ChunkSteps, FileSteps
  <2>3. tab[a].stage \in {"init", "upload", "complete"}
    BY <2>1, <2>2 DEF FitsTab
  <2>4. tab[a].stage = "upload" /\ AllSent(a)
    BY <1>6, <2>3
  <2>5. tab[a].part[handler[h].chunk] = "sent"
    BY <2>1, <2>2, <2>4 DEF FitsTab
  <2> QED
    BY <2>1, <2>4, <2>5 DEF AllSent
<1>7. CASE Publish(a)
  <2>1. \A g \in Handlers : handler[g].step = "free"
    BY <1>6, <1>7 DEF Publish
  <2>2. PICK h \in Handlers :
          handler' = [handler EXCEPT ![h] =
             [Free EXCEPT !.kind = "init", !.step = "find", !.tab = a, !.chunk = 0,
                          !.upload = 0]]
    BY <1>7 DEF Publish, Request, FirstFree
  <2>3. /\ tab' = [tab EXCEPT ![a] = [Closed EXCEPT !.stage = "init"]]
        /\ UNCHANGED <<index, session, disk, removed>>
    BY <1>7 DEF Publish, server
  <2>4. tab'[a].stage = "init"
    BY <1>0, <2>3 DEF Closed
  <2>5. /\ handler'[h].step = "find" /\ handler'[h].tab = a
        /\ \A g \in Handlers \ {h} : handler'[g].step = "free"
    BY <1>0, <2>1, <2>2 DEF Free
  <2>6. UnmergedRequest(handler[h])'
    BY <2>5 DEF UnmergedRequest
  <2>7. FitsTab(handler'[h], tab'[a])
    BY <2>4, <2>5 DEF FitsTab, ChunkSteps, FileSteps
  <2>8. index' \notin removed' /\ GotWhole(a)'
    BY <1>3, <2>1, <2>3, <2>4 DEF Unmerged, GotWhole
  <2> QED
    BY <1>0, <2>4, <2>5, <2>6, <2>7, <2>8, OnlyOne
<1>8. CASE SendComplete(a)
  <2>0. tab[a].stage = "upload" /\ AllSent(a)
    BY <1>8 DEF SendComplete
  <2>1. \A g \in Handlers : handler[g].step = "free"
    BY <1>6, <2>0
  <2>2. PICK h \in Handlers :
          handler' = [handler EXCEPT ![h] =
             [Free EXCEPT !.kind = "complete", !.step = "check", !.tab = a, !.chunk = 0,
                          !.upload = tab[a].upload]]
    BY <1>8 DEF SendComplete, Request
  <2>3. /\ tab' = [tab EXCEPT ![a].stage = "complete"]
        /\ UNCHANGED <<index, session, disk, removed>>
    BY <1>8 DEF SendComplete, server
  <2>4. tab'[a].stage = "complete" /\ tab'[a].upload = tab[a].upload
    BY <1>0, <2>3 DEF TabType
  <2>5. /\ handler'[h].step = "check" /\ handler'[h].tab = a
        /\ handler'[h].upload = tab[a].upload /\ handler'[h].whole
        /\ \A g \in Handlers \ {h} : handler'[g].step = "free"
    BY <1>0, <2>1, <2>2 DEF Free
  <2>6. tab[a].upload \notin removed'
    BY <1>3, <2>0, <2>3 DEF Unmerged
  <2>7. UnmergedRequest(handler[h])'
    BY <2>5, <2>6 DEF UnmergedRequest
  <2>8. FitsTab(handler'[h], tab'[a])
    BY <2>4, <2>5 DEF FitsTab, InitSteps, ChunkSteps
  <2>9. index' \notin removed' /\ GotWhole(a)'
    BY <1>3, <2>1, <2>3, <2>4 DEF Unmerged, GotWhole
  <2> QED
    BY <1>0, <2>4, <2>5, <2>7, <2>8, <2>9, OnlyOne
<1>9. CASE SendChunk(a)
  <2>1. PICK c \in Chunks :
          /\ tab[a].stage = "upload" /\ MaySend(a, c) /\ Request("chunk", "read", a, c)
          /\ tab' = [tab EXCEPT ![a].part[c] = "sent"]
    BY <1>9 DEF SendChunk
  <2>2. PICK h \in Handlers :
          /\ handler[h] = Free
          /\ handler' = [handler EXCEPT ![h] =
               [Free EXCEPT !.kind = "chunk", !.step = "read", !.tab = a, !.chunk = c,
                            !.upload = tab[a].upload]]
    BY <2>1 DEF Request, FirstFree
  <2>3. /\ UNCHANGED <<index, session, disk, removed>>
        /\ tab[a].part[c] = "todo"
    BY <1>9, <2>1 DEF SendChunk, server, MaySend
  <2>4. /\ tab'[a].stage = "upload" /\ tab'[a].upload = tab[a].upload
        /\ tab'[a].part[c] = "sent"
        /\ \A d \in Chunks : d # c => tab'[a].part[d] = tab[a].part[d]
    <3>1. tab[a] \in TabType(used) /\ tab'[a] = [tab[a] EXCEPT !.part[c] = "sent"]
      BY <1>0, <2>1
    <3> QED
      BY <2>1, <3>1 DEF TabType
  <2>5. /\ handler'[h].step = "read" /\ handler'[h].tab = a
        /\ handler'[h].upload = tab[a].upload /\ handler'[h].chunk = c
        /\ \A g \in Handlers \ {h} : handler'[g] = handler[g]
    BY <1>0, <2>2 DEF Free
  \* The other requests are of chunks that were sent.
  <2>6. ASSUME NEW g \in Handlers \ {h}, handler[g].step # "free"
        PROVE  /\ handler[g].step \in ChunkSteps /\ handler[g].chunk # c
               /\ handler[g].tab = a /\ FitsTab(handler[g], tab'[a])
    <3>1. /\ FitsTab(handler[g], tab[a]) /\ handler[g].tab = a
          /\ handler[g].step \in Steps /\ handler[g].chunk \in Chunks
      BY <1>0, <1>3, <2>6, Requests DEF Waited, RequestType
    <3>2. handler[g].step \in ChunkSteps /\ handler[g].chunk # c
      BY <2>1, <2>3, <2>6, <3>1 DEF FitsTab, Steps, InitSteps, ChunkSteps, FileSteps
    <3> QED
      BY <2>4, <3>1, <3>2 DEF FitsTab, InitSteps, ChunkSteps, FileSteps
  <2>7. Waited(a)'
    <3>1. FitsTab(handler'[h], tab'[a])
      BY <2>4, <2>5 DEF FitsTab, InitSteps, FileSteps
    <3> QED
      BY <2>5, <2>6, <3>1 DEF Waited
  <2>8. Apart'
    BY <1>3, <2>5, <2>6 DEF Apart, ChunkSteps
  <2>9. \A g \in Handlers : handler'[g].step \in ChunkSteps \cup {"free"}
    BY <2>5, <2>6 DEF ChunkSteps
  <2>10. index \notin removed
    BY <1>3, <2>2, <2>6 DEF Unmerged, ChunkSteps, Free
  <2>11. Unmerged(a)'
    BY <1>3, <2>1, <2>3, <2>4, <2>9, <2>10 DEF Unmerged, UnmergedRequest, ChunkSteps
  <2>12. GotWhole(a)'
    BY <2>4 DEF GotWhole
  <2> QED
    BY <2>7, <2>8, <2>11, <2>12 DEF LoneInv
<1>10. CASE Expire
  <2>1. /\ \A g \in Handlers : handler[g].step = "free"
        /\ tab[a].stage # "upload" /\ index' = 0
        /\ UNCHANGED <<removed, handler, tab>>
    BY <1>0, <1>10 DEF Expire, Free
  <2>2. 0 \notin removed
    BY <1>0 DEF TypeOK
  <2>3. Unmerged(a)'
    BY <2>1, <2>2 DEF Unmerged, UnmergedRequest
  <2> QED
    BY <1>3, <2>1, <2>3 DEF LoneInv, Waited, Apart, GotWhole
<1>11. CASE UNCHANGED vars
  BY <1>3, <1>11 DEF vars, server, LoneInv, Waited, Apart, Unmerged, UnmergedRequest, GotWhole
<1> QED
  BY <1>1, <1>4, <1>5, <1>7, <1>8, <1>9, <1>10, <1>11 DEF Next, Use

\* The file whose address a lone tab gets has every chunk in full, although
\* records of chunks are lost and chunks are sent again, as long as no call
\* fails and no connection is lost.
THEOREM LoneTabGetsTheWholeFile ==
    ASSUME NEW a, Tabs = {a}
    PROVE  Spec => []WholeFiles
<1>1. Init => FInv /\ LoneInv(a)
  BY InitFInv, InitLoneInv
<1>2. FInv /\ LoneInv(a) /\ [Next]_vars => FInv' /\ LoneInv(a)'
  BY StepFInv, StepLoneInv
<1>3. FInv /\ LoneInv(a) => WholeFiles
  <2> SUFFICES ASSUME FInv, LoneInv(a), lost + faults = 0 PROVE GotWhole(a)
    BY DEF WholeFiles, GotWhole
  <2>1. lost \in Nat /\ faults \in Nat
    BY Bounds DEF FInv, TInv, TypeOK
  <2> QED
    BY <2>1 DEF LoneInv, Calm
<1> QED
  BY <1>1, <1>2, <1>3, PTL DEF Spec
=============================================================================
