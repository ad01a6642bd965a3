---------------------------- MODULE RequestProofs ----------------------------
(***************************************************************************)
(* What becomes of a request in Session: for any number of requests,       *)
(* callers and streams, and for channels and windows of any size, a        *)
(* request or its page is never in two places (OneAnswerEach), and one     *)
(* that AddPage has sent is not lost while the job accepts pages and the   *)
(* connection is up, unless its response is of another type or the idle    *)
(* time ends as it comes (NothingLost).                                    *)
(***************************************************************************)
EXTENDS DeliveryProofs

USE DEF jobVars, runVars, fwdVars, listVars, callVars, pageWire, addWire, urlWire,
        clientVars, wireVars, shipVars, feedVars, queueVars, taskVars, listerVars,
        serverVars

-----------------------------------------------------------------------------
(* Sequences.                                                              *)

\* What is in two channels together, and when none of it is there twice.
LEMMA JoinParts ==
  ASSUME NEW S, NEW s \in Seq(S), NEW t \in Seq(S)
  PROVE  /\ Range(Join(s, t)) = Range(s) \union Range(t)
         /\ IsInjective(Join(s, t)) <=>
              IsInjective(s) /\ IsInjective(t) /\ Range(s) \cap Range(t) = {}
<1> DEFINE n == Len(s)
           m == Len(t)
           j == s \o t
<1>1. n \in Nat /\ m \in Nat /\ DOMAIN s = 1..n /\ DOMAIN t = 1..m
  BY LenProperties
<1>2. /\ DOMAIN j = 1..(n + m)
      /\ \A i \in 1..(n + m) : j[i] = IF i <= n THEN s[i] ELSE t[i - n]
  <2>1. j \in Seq(S) /\ Len(j) = n + m
    BY ConcatProperties
  <2> QED
    BY <2>1, LenProperties, ConcatProperties
<1> HIDE DEF n, m, j
<1>3. /\ \A i \in DOMAIN s : i \in DOMAIN j /\ j[i] = s[i]
      /\ \A i \in DOMAIN t : n + i \in DOMAIN j /\ j[n + i] = t[i]
      /\ \A i \in DOMAIN j : i \in DOMAIN s \/ (i - n \in DOMAIN t /\ j[i] = t[i - n])
  BY <1>1, <1>2
<1>4. Range(j) = Range(s) \union Range(t)
  BY <1>3 DEF Range
<1>5. ASSUME IsInjective(j)
      PROVE  IsInjective(s) /\ IsInjective(t) /\ Range(s) \cap Range(t) = {}
  <2>1. IsInjective(s)
    BY <1>3, <1>5 DEF IsInjective
  <2>2. ASSUME NEW a \in DOMAIN t, NEW b \in DOMAIN t, t[a] = t[b]
        PROVE  a = b
    <3>1. n + a = n + b
      BY <1>3, <1>5, <2>2 DEF IsInjective
    <3> QED
      BY <1>1, <3>1
  <2>3. ASSUME NEW a \in DOMAIN s, NEW b \in DOMAIN t, s[a] = t[b]
        PROVE  FALSE
    <3>1. a = n + b
      BY <1>3, <1>5, <2>3 DEF IsInjective
    <3> QED
      BY <1>1, <3>1
  <2>4. Range(s) \cap Range(t) = {}
    BY <2>3 DEF Range
  <2> QED
    BY <2>1, <2>2, <2>4 DEF IsInjective
<1>6. ASSUME IsInjective(s), IsInjective(t), Range(s) \cap Range(t) = {}
      PROVE  IsInjective(j)
  <2> SUFFICES ASSUME NEW a \in DOMAIN j, NEW b \in DOMAIN j, j[a] = j[b]
               PROVE  a = b
    BY DEF IsInjective
  <2>1. a \in Int /\ b \in Int
    BY <1>1, <1>2
  <2>2. CASE a \in DOMAIN s /\ b \in DOMAIN s
    BY <1>3, <1>6, <2>2 DEF IsInjective
  <2>3. CASE a \notin DOMAIN s /\ b \notin DOMAIN s
    <3>1. a - n = b - n
      BY <1>3, <1>6, <2>3 DEF IsInjective
    <3> QED
      BY <1>1, <2>1, <3>1
  <2>4. ASSUME NEW x \in DOMAIN s, NEW y \in DOMAIN t PROVE s[x] # t[y]
    BY <1>6, <2>4 DEF Range
  <2> QED
    BY <1>3, <2>2, <2>3, <2>4
<1>7. Join(s, t) = j
  BY DEF j, Join
<1> QED
  BY <1>4, <1>5, <1>6, <1>7

\* A channel that is empty, or has one value.
LEMMA SmallParts ==
  /\ Range(<<>>) = {} /\ IsInjective(<<>>)
  /\ \A e : Range(<<e>>) = {e} /\ IsInjective(<<e>>)
BY DEF Range, IsInjective

\* A channel is its first value and the rest.
LEMMA TakeParts ==
  ASSUME NEW S, NEW s \in Seq(S), s # <<>>
  PROVE  /\ Head(s) \in S /\ Tail(s) \in Seq(S) /\ <<Head(s)>> \in Seq(S)
         /\ Range(s) = {Head(s)} \union Range(Tail(s))
         /\ IsInjective(s) <=> IsInjective(Tail(s)) /\ Head(s) \notin Range(Tail(s))
<1>1. Head(s) \in S /\ Tail(s) \in Seq(S) /\ <<Head(s)>> \in Seq(S)
  BY TakeOne
<1>2. Join(<<Head(s)>>, Tail(s)) = s
  BY TakeFirst
<1>3. Range(<<Head(s)>>) = {Head(s)} /\ IsInjective(<<Head(s)>>)
  BY SmallParts
<1> DEFINE h == <<Head(s)>>
<1>4. h \in Seq(S) /\ Join(h, Tail(s)) = s /\ Range(h) = {Head(s)} /\ IsInjective(h)
  BY <1>1, <1>2, <1>3
<1> HIDE DEF h
<1>5. /\ Range(Join(h, Tail(s))) = Range(h) \union Range(Tail(s))
      /\ IsInjective(Join(h, Tail(s))) <=>
           IsInjective(h) /\ IsInjective(Tail(s)) /\ Range(h) \cap Range(Tail(s)) = {}
  BY <1>1, <1>4, JoinParts
<1> QED
  BY <1>1, <1>4, <1>5

\* A value is put at the end of a channel.
LEMMA AppendParts ==
  ASSUME NEW S, NEW s \in Seq(S), NEW e \in S
  PROVE  /\ Append(s, e) \in Seq(S)
         /\ Range(Append(s, e)) = Range(s) \union {e}
         /\ IsInjective(Append(s, e)) <=> IsInjective(s) /\ e \notin Range(s)
<1>1. <<e>> \in Seq(S)
  OBVIOUS
<1>2. Append(s, e) = Join(s, <<e>>)
  BY AppendIsConcat DEF Join
<1>3. Append(s, e) \in Seq(S)
  BY AppendProperties
<1>4. Range(<<e>>) = {e} /\ IsInjective(<<e>>)
  BY SmallParts
<1> DEFINE one == <<e>>
<1>5. one \in Seq(S) /\ Append(s, e) = Join(s, one)
  BY <1>1, <1>2
<1>6. Range(one) = {e} /\ IsInjective(one)
  BY <1>4
<1> HIDE DEF one
<1>7. /\ Range(Join(s, one)) = Range(s) \union Range(one)
      /\ IsInjective(Join(s, one)) <=>
           IsInjective(s) /\ IsInjective(one) /\ Range(s) \cap Range(one) = {}
  BY <1>5, JoinParts
<1> QED
  BY <1>3, <1>5, <1>6, <1>7

\* j has what is in a, b, c and d, and nothing twice unless one of them has, or
\* two have it.
Parts(j, a, b, c, d) ==
  /\ Range(j) = Range(a) \union Range(b) \union Range(c) \union Range(d)
  /\ IsInjective(j) <=>
       /\ IsInjective(a) /\ IsInjective(b) /\ IsInjective(c) /\ IsInjective(d)
       /\ Range(a) \cap Range(b) = {} /\ Range(a) \cap Range(c) = {}
       /\ Range(a) \cap Range(d) = {} /\ Range(b) \cap Range(c) = {}
       /\ Range(b) \cap Range(d) = {} /\ Range(c) \cap Range(d) = {}

\* Four channels in a row.
LEMMA FourParts ==
  ASSUME NEW S, NEW a \in Seq(S), NEW b \in Seq(S), NEW c \in Seq(S), NEW d \in Seq(S)
  PROVE  Parts(Join(Join(Join(a, b), c), d), a, b, c, d)
<1> DEFINE x == Join(a, b)
           y == Join(x, c)
<1>1. /\ x \in Seq(S) /\ Range(x) = Range(a) \union Range(b)
      /\ IsInjective(x) <=>
           IsInjective(a) /\ IsInjective(b) /\ Range(a) \cap Range(b) = {}
  <2>1. x \in Seq(S)
    BY JoinFacts
  <2> QED
    BY <2>1, JoinParts
<1> HIDE DEF x
<1>2. /\ y \in Seq(S) /\ Range(y) = Range(x) \union Range(c)
      /\ IsInjective(y) <=>
           IsInjective(x) /\ IsInjective(c) /\ Range(x) \cap Range(c) = {}
  <2>1. y \in Seq(S)
    BY <1>1, JoinFacts
  <2> QED
    BY <1>1, <2>1, JoinParts
<1> HIDE DEF y
<1>3. /\ Range(Join(y, d)) = Range(y) \union Range(d)
      /\ IsInjective(Join(y, d)) <=>
           IsInjective(y) /\ IsInjective(d) /\ Range(y) \cap Range(d) = {}
  BY <1>2, JoinParts
<1>4. /\ Range(Join(y, d)) = Range(a) \union Range(b) \union Range(c) \union Range(d)
      /\ IsInjective(Join(y, d)) <=>
           /\ IsInjective(a) /\ IsInjective(b) /\ IsInjective(c) /\ IsInjective(d)
           /\ Range(a) \cap Range(b) = {} /\ Range(a) \cap Range(c) = {}
           /\ Range(a) \cap Range(d) = {} /\ Range(b) \cap Range(c) = {}
           /\ Range(b) \cap Range(d) = {} /\ Range(c) \cap Range(d) = {}
  <2>1. Range(y) = Range(a) \union Range(b) \union Range(c)
    BY <1>1, <1>2
  <2>2. Range(x) \cap Range(c) = {} <=>
          Range(a) \cap Range(c) = {} /\ Range(b) \cap Range(c) = {}
    BY <1>1
  <2>3. Range(y) \cap Range(d) = {} <=>
          /\ Range(a) \cap Range(d) = {} /\ Range(b) \cap Range(d) = {}
          /\ Range(c) \cap Range(d) = {}
    BY <2>1
  <2> QED
    BY <1>1, <1>2, <1>3, <2>1, <2>2, <2>3
<1> QED
  BY <1>4 DEF x, y, Parts

-----------------------------------------------------------------------------
(* The state of the job.                                                   *)

\* A handler has a page or a request in hand only while it works on it.
WorkInv ==
  /\ task = "none" => page = <<>>
  /\ feeder # "push" => feeding = <<>>
  /\ \A s \in Requests : adder[s] # "push" => adding[s] = <<>>

(***************************************************************************)
(* No call of AddPage begins before the job runs, and what makes AddPages  *)
(* refuse a request or sendPageHTML drop a page comes after the end of the *)
(* queue, or after a break of the connection.                              *)
(***************************************************************************)
OpenInv ==
  /\ listener = "off" => subscription = "none" /\ feeder = "off"
  /\ subscription = "none" => job \in {"new", "subscribe"}
  /\ job \in {"new", "subscribe"} => \A r \in Requests : call[r] = "idle"
  /\ feeder \in {"run", "push"} /\ ~registered => doneClosed
  /\ doneClosed \/ sendClosed => qClosed
  /\ stopChan = 1 \/ ~connected => pageEnd = "broken"

\* The part of it that a step of the client can change.
LEMMA ClientKeepsOpen ==
  ASSUME OpenInv, WorkInv, ClientNext, UNCHANGED serverVars
  PROVE  OpenInv' /\ WorkInv'
<1>1. WorkInv'
  BY DEF WorkInv
<1>2. UNCHANGED <<subscription, pageEnd>>
  BY DEF ClientNext, Program, NewCrawlJob, RecvSubscription, ReturnJob, Run, RunStart,
         InitAnalyzedURL, RecvPage, PushPage, RecvEnd, ClosePhChan, CloseStoppedChan,
         Forward, FwdWake, FwdTake, FwdPush, FwdExit, ListenAnalyzedURLs, ListenRecv,
         ListenPush, ListenEnd, ReadList, ReadPage, Stop, AddPage, AddJS, CallStep,
         BeginCall, OpenAddPages, SendCall
<1>3. CASE Program
  BY <1>1, <1>2, <1>3 DEF Program, NewCrawlJob, RecvSubscription, ReturnJob, OpenInv
<1>4. CASE \E r \in Requests : AddPage(r) \/ AddJS(r)
  <2>1. PICK r \in Requests : CallStep(r)
    BY <1>4 DEF AddPage, AddJS
  <2>2. job \notin {"new", "subscribe"} /\ UNCHANGED job
    BY <2>1 DEF CallStep, BeginCall, OpenAddPages, SendCall, OpenInv
  <2> QED
    BY <1>1, <1>2, <2>2 DEF OpenInv
<1>5. CASE Run \/ Forward \/ ListenAnalyzedURLs \/ ReadList \/ ReadPage \/ Stop
  <2>1. UNCHANGED <<job, call>>
    BY <1>5 DEF Run, RunStart,
         InitAnalyzedURL, RecvPage, PushPage, RecvEnd, ClosePhChan, CloseStoppedChan,
         Forward, FwdWake, FwdTake, FwdPush, FwdExit, ListenAnalyzedURLs, ListenRecv,
         ListenPush, ListenEnd, ReadList, ReadPage, Stop
  <2> QED
    BY <1>1, <1>2, <2>1 DEF OpenInv
<1> QED
  BY <1>1, <1>3, <1>4, <1>5 DEF ClientNext

\* ... and a step of the server.
LEMMA ServerKeepsOpen ==
  ASSUME TypeOK, OpenInv, WorkInv, ServerNext
  PROVE  OpenInv' /\ WorkInv'
<1>1. CASE AddNewJob
  BY <1>1 DEF AddNewJob, OpenInv, WorkInv
<1>2. CASE StreamPage
  BY <1>2 DEF StreamPage, OpenInv, WorkInv
<1>3. CASE LoseClient
  BY <1>3 DEF LoseClient, OpenInv, WorkInv
<1>4. CASE EndStream
  BY <1>4 DEF EndStream, OpenInv, WorkInv
<1>5. CASE Break
  BY <1>5 DEF Break, OpenInv, WorkInv
<1>6. CASE FeedPage
  BY <1>6 DEF FeedPage, OpenInv, WorkInv
<1>p. CASE FeedPush
  BY <1>p DEF FeedPush, OpenInv, WorkInv
<1>7. CASE FeederDone
  BY <1>7 DEF FeederDone, OpenInv, WorkInv
<1>8. CASE FetchPage
  BY <1>8 DEF FetchPage, OpenInv, WorkInv
<1>9. CASE AnalyzeLinks
  BY <1>9 DEF AnalyzeLinks, OpenInv, WorkInv
<1>10. CASE SendList
  BY <1>10 DEF SendList, OpenInv, WorkInv
<1>11. CASE ShipPage
  BY <1>11 DEF ShipPage, EndTask, OpenInv, WorkInv
<1>d. CASE DropPage \/ IgnoreType \/ SendPageHTML
  BY <1>d DEF DropPage, IgnoreType, SendPageHTML, EndTask, OpenInv, WorkInv
<1>12. CASE EndJob
  BY <1>12 DEF EndJob, CloseSendChan, CloseDoneChan, ReapJob, OpenInv, WorkInv
<1>13. CASE CancelOnStop
  BY <1>13 DEF CancelOnStop, CancelQueue, OpenInv, WorkInv
<1>14. CASE CancelJob
  BY <1>14 DEF CancelJob, CancelQueue, OpenInv, WorkInv
<1>15. CASE IdleTimeout \/ CloseQueue
  BY <1>15 DEF IdleTimeout, CloseQueue, OpenInv, WorkInv
<1>16. CASE Lister
  BY <1>16 DEF Lister, GetAnalyzedURLs, MarkAnalyzed, MakeListChan, StreamList,
               OpenInv, WorkInv
<1>17. CASE \E s \in Requests : AddPages(s)
  <2>1. PICK s \in Requests : AddPagesRecv(s) \/ AddPagesPush(s)
    BY <1>17 DEF AddPages
  <2>2. OpenInv'
    BY <2>1 DEF AddPagesRecv, AddPagesPush, TakeRequest, EndAddPages, OpenInv
  <2>3. /\ adder \in [Requests -> {"first", "push", "recv", "ended"}]
        /\ adding \in [Requests -> Seq(Requests)]
    BY DEF TypeOK, FeedTypeOK
  <2>4. UNCHANGED <<task, page, feeder, feeding>>
    BY <2>1 DEF AddPagesRecv, AddPagesPush
  <2>5. ASSUME NEW t \in Requests, adder'[t] # "push"
        PROVE  adding'[t] = <<>>
    <3>1. CASE TakeRequest(s)
      <4>1. adder' = [adder EXCEPT ![s] = "push"] /\ t # s
        BY <2>3, <2>5, <3>1 DEF TakeRequest
      <4>2. adding'[t] = adding[t] /\ adder'[t] = adder[t]
        BY <2>3, <3>1, <4>1 DEF TakeRequest
      <4> QED
        BY <2>5, <4>2 DEF WorkInv
    <3>2. CASE EndAddPages(s) /\ adder[s] # "push"
      <4>1. adding' = adding /\ adder[t] # "push"
        BY <2>3, <2>5, <3>2 DEF EndAddPages
      <4> QED
        BY <4>1 DEF WorkInv
    <3>3. CASE AddPagesPush(s)
      <4>1. adding'[t] = IF t = s THEN <<>> ELSE adding[t]
        BY <2>3, <3>3 DEF AddPagesPush
      <4>2. t # s => adder'[t] = adder[t]
        BY <2>3, <3>3 DEF AddPagesPush
      <4> QED
        BY <2>5, <4>1, <4>2 DEF WorkInv
    <3> QED
      BY <2>1, <3>1, <3>2, <3>3 DEF AddPagesRecv
  <2> QED
    BY <2>1, <2>2, <2>4, <2>5 DEF WorkInv
<1> QED
  BY <1>1, <1>2, <1>3, <1>4, <1>5, <1>6, <1>7, <1>8, <1>9, <1>10, <1>11, <1>12,
     <1>13, <1>14, <1>15, <1>16, <1>17, <1>d, <1>p DEF ServerNext, Listener, Feeder, Task

\* A request is refused, and a page dropped, only at the end of the job.
THEOREM OpenCorrect == Spec => [](OpenInv /\ WorkInv)
<1>1. Init => OpenInv /\ WorkInv
  BY DEF Init, ClientInit, OpenInv, WorkInv
<1>2. TypeOK /\ OpenInv /\ WorkInv /\ [Next]_vars => OpenInv' /\ WorkInv'
  <2> SUFFICES ASSUME TypeOK, OpenInv, WorkInv, [Next]_vars
               PROVE  OpenInv' /\ WorkInv'
    OBVIOUS
  <2>1. CASE UNCHANGED vars
    BY <2>1 DEF vars, OpenInv, WorkInv
  <2>2. CASE ClientNext /\ UNCHANGED serverVars
    BY <2>2, ClientKeepsOpen
  <2>3. CASE ServerNext
    BY <2>3, ServerKeepsOpen
  <2> QED
    BY <2>1, <2>2, <2>3 DEF Next
<1> QED
  BY <1>1, <1>2, TypeCorrect, PTL DEF Spec

-----------------------------------------------------------------------------
(* Where a request is.                                                     *)

\* Pages that the job has shipped and that are not lost.
Out == Join(Join(ClientPages, pageStream), sendChan)

\* Requests in the queue, and the one that is about to be queued.
Waiting == Join(queue, feeding)

\* Requests that the job has accepted, and the pages that answer them.
Accepted == Join(Join(Join(Out, page), Waiting), reqChan)

\* Requests on a stream of AddPages, and in the hands of its handler.
Coming(s) == Join(addStream[s], adding[s])

\* The job accepts pages, and the connection is up.
Open == feeder \in {"run", "push"} /\ ~qClosed /\ pageEnd # "broken"

(***************************************************************************)
(* A request is in one place, it is there once, and only if a call has     *)
(* sent it; while the job is open, each request that was sent is there or  *)
(* was dropped.                                                            *)
(***************************************************************************)
Once == IsInjective(Accepted)

Apart ==
  /\ \A s \in Requests : IsInjective(Coming(s))
  /\ \A s \in Requests : Range(Coming(s)) \cap Range(Accepted) = {}
  /\ \A s, t \in Requests : s # t => Range(Coming(s)) \cap Range(Coming(t)) = {}

Asked ==
  /\ \A r \in Range(Accepted) : call[r] = "sent"
  /\ \A s \in Requests : \A r \in Range(Coming(s)) : call[r] = "sent"

Safe ==
  Open => \A r \in Requests : call[r] = "sent" =>
            \/ r \in Range(Accepted) \/ r \in dropped
            \/ \E s \in Requests : r \in Range(Coming(s))

RequestInv == Once /\ Apart /\ Asked /\ Safe

(***************************************************************************)
(* A quiet step brings no request to the job: none is doubled, and while   *)
(* the job is open none is lost but those that are known to be dropped.    *)
(***************************************************************************)
QuietJob ==
  /\ IsInjective(Accepted) => IsInjective(Accepted')
  /\ Range(Accepted') \subseteq Range(Accepted)
  /\ Open' => Range(Accepted) \subseteq Range(Accepted') \union dropped'

QuietStreams ==
  \A s \in Requests :
    /\ IsInjective(Coming(s)) => IsInjective(Coming(s)')
    /\ Range(Coming(s)') \subseteq Range(Coming(s))
    /\ Open' => Range(Coming(s)) \subseteq Range(Coming(s)')

QuietCalls ==
  /\ \A r \in Requests : call[r] = "sent" <=> call'[r] = "sent"
  /\ Open' => Open \/ \A r \in Requests : call[r] # "sent"

QuietDrops == dropped \subseteq dropped'

Quiet == QuietJob /\ QuietStreams /\ QuietCalls /\ QuietDrops

\* The places are sequences of requests.
Typed ==
  /\ ClientPages \in Seq(Requests) /\ pageStream \in Seq(Requests)
  /\ sendChan \in Seq(Requests)
  /\ Out \in Seq(Requests) /\ page \in Seq(Requests) /\ reqChan \in Seq(Requests)
  /\ queue \in Seq(Requests) /\ feeding \in Seq(Requests) /\ Waiting \in Seq(Requests)
  /\ addStream \in [Requests -> Seq(Requests)] /\ adding \in [Requests -> Seq(Requests)]

LEMMA ChainType ==
  ASSUME NEW S, NEW a \in Seq(S), NEW b \in Seq(S), NEW c \in Seq(S), NEW d \in Seq(S),
         NEW e \in Seq(S)
  PROVE  a \o b \o c \o d \o e \in Seq(S)
<1> DEFINE x == a \o b
           y == x \o c
           z == y \o d
<1>1. x \in Seq(S)
  BY ConcatProperties
<1> HIDE DEF x
<1>2. y \in Seq(S)
  BY <1>1, ConcatProperties
<1> HIDE DEF y
<1>3. z \in Seq(S)
  BY <1>2, ConcatProperties
<1> HIDE DEF z
<1>4. z \o e \in Seq(S)
  BY <1>3, ConcatProperties
<1> QED
  BY <1>4 DEF x, y, z

LEMMA PlacesTyped ==
  /\ TypeOK => Typed
  /\ TypeOK' => Typed'
<1>1. ASSUME TypeOK PROVE Typed
  <2>1. /\ got \in Seq(Requests) /\ pageChan \in Seq(Requests)
        /\ fwdHeld \in Seq(Requests) /\ phChan \in Seq(Requests)
        /\ held \in Seq(Requests) /\ pageStream \in Seq(Requests)
        /\ sendChan \in Seq(Requests)
    BY <1>1 DEF TypeOK, ClientTypeOK, WireTypeOK, ShipTypeOK
  <2>2. ClientPages \in Seq(Requests)
    BY <2>1, ChainType DEF ClientPages
  <2>3. Join(ClientPages, pageStream) \in Seq(Requests)
    BY <2>1, <2>2, JoinFacts
  <2>4. Out \in Seq(Requests)
    BY <2>1, <2>3, JoinFacts DEF Out
  <2>5. queue \in Seq(Requests) /\ feeding \in Seq(Requests)
    BY <1>1 DEF TypeOK, FeedTypeOK, QueueTypeOK
  <2>6. Waiting \in Seq(Requests)
    BY <2>5, JoinFacts DEF Waiting
  <2> QED
    BY <1>1, <2>1, <2>2, <2>4, <2>5, <2>6 DEF Typed, TypeOK, WireTypeOK, FeedTypeOK, QueueTypeOK,
                                  TaskTypeOK
<1>2. ASSUME TypeOK' PROVE Typed'
  <2>1. /\ got' \in Seq(Requests) /\ pageChan' \in Seq(Requests)
        /\ fwdHeld' \in Seq(Requests) /\ phChan' \in Seq(Requests)
        /\ held' \in Seq(Requests) /\ pageStream' \in Seq(Requests)
        /\ sendChan' \in Seq(Requests)
    BY <1>2 DEF TypeOK, ClientTypeOK, WireTypeOK, ShipTypeOK
  <2>2. ClientPages' \in Seq(Requests)
    BY <2>1, ChainType DEF ClientPages
  <2>3. Join(ClientPages', pageStream') \in Seq(Requests)
    BY <2>1, <2>2, JoinFacts
  <2>4. Out' \in Seq(Requests)
    BY <2>1, <2>3, JoinFacts DEF Out
  <2>5. queue' \in Seq(Requests) /\ feeding' \in Seq(Requests)
    BY <1>2 DEF TypeOK, FeedTypeOK, QueueTypeOK
  <2>6. Waiting' \in Seq(Requests)
    BY <2>5, JoinFacts DEF Waiting
  <2> QED
    BY <1>2, <2>1, <2>2, <2>4, <2>5, <2>6 DEF Typed, TypeOK, WireTypeOK, FeedTypeOK, QueueTypeOK,
                                  TaskTypeOK
<1> QED
  BY <1>1, <1>2

LEMMA PlacesRange ==
  ASSUME Typed
  PROVE  /\ Accepted \in Seq(Requests) /\ Range(Accepted) \subseteq Requests
         /\ \A s \in Requests : Range(Coming(s)) \subseteq Requests
<1>1. Join(Out, page) \in Seq(Requests)
  BY JoinFacts DEF Typed
<1>2. Join(Join(Out, page), Waiting) \in Seq(Requests)
  BY <1>1, JoinFacts DEF Typed
<1>3. Accepted \in Seq(Requests)
  BY <1>2, JoinFacts DEF Typed, Accepted
<1>4. ASSUME NEW s \in Requests PROVE Coming(s) \in Seq(Requests)
  <2>1. addStream[s] \in Seq(Requests) /\ adding[s] \in Seq(Requests)
    BY DEF Typed
  <2> QED
    BY <2>1, JoinFacts DEF Coming
<1> QED
  BY <1>3, <1>4, RangeOf

\* A quiet step keeps the invariant.
LEMMA QuietKeeps ==
  ASSUME Typed, RequestInv, Quiet
  PROVE  RequestInv'
<1> USE DEF RequestInv, Quiet
<1>0. /\ Range(Accepted) \subseteq Requests
      /\ \A s \in Requests : Range(Coming(s)) \subseteq Requests
  BY PlacesRange
<1>1. Once'
  BY DEF Once, QuietJob
<1>2. Apart'
  <2>1. \A s \in Requests : IsInjective(Coming(s)')
    BY DEF Apart, QuietStreams
  <2>2. ASSUME NEW s \in Requests
        PROVE  Range(Coming(s)') \cap Range(Accepted') = {}
    BY DEF Apart, QuietStreams, QuietJob
  <2>3. ASSUME NEW s \in Requests, NEW t \in Requests, s # t
        PROVE  Range(Coming(s)') \cap Range(Coming(t)') = {}
    <3>1. Range(Coming(s)) \cap Range(Coming(t)) = {}
      BY <2>3 DEF Apart
    <3>2. /\ Range(Coming(s)') \subseteq Range(Coming(s))
          /\ Range(Coming(t)') \subseteq Range(Coming(t))
      BY DEF QuietStreams
    <3> QED
      BY <3>1, <3>2
  <2> QED
    BY <2>1, <2>2, <2>3 DEF Apart
<1>3. Asked'
  <2>1. ASSUME NEW r \in Range(Accepted') PROVE call'[r] = "sent"
    <3>1. r \in Range(Accepted) /\ r \in Requests
      BY <1>0 DEF QuietJob
    <3> QED
      BY <3>1 DEF Asked, QuietCalls
  <2>2. ASSUME NEW s \in Requests, NEW r \in Range(Coming(s)')
        PROVE  call'[r] = "sent"
    <3>1. r \in Range(Coming(s)) /\ r \in Requests
      BY <1>0 DEF QuietStreams
    <3> QED
      BY <3>1 DEF Asked, QuietCalls
  <2> QED
    BY <2>1, <2>2 DEF Asked
<1>4. Safe'
  <2> SUFFICES ASSUME Open', NEW r \in Requests, call'[r] = "sent"
               PROVE  \/ r \in Range(Accepted') \/ r \in dropped'
                      \/ \E s \in Requests : r \in Range(Coming(s)')
    BY DEF Safe
  <2>1. call[r] = "sent" /\ Open
    BY DEF QuietCalls
  <2>2. \/ r \in Range(Accepted) \/ r \in dropped
        \/ \E s \in Requests : r \in Range(Coming(s))
    BY <2>1 DEF Safe
  <2> QED
    BY <2>2 DEF QuietJob, QuietStreams, QuietDrops
<1> QED
  BY <1>1, <1>2, <1>3, <1>4

\* The channels on the way to the program, and those of the listener, keep what
\* they pass on.
LEMMA OutMoves ==
  ASSUME TypeOK, HandsInv,
         \/ /\ RecvPage \/ PushPage \/ FwdTake \/ FwdPush \/ ReadPage
            /\ UNCHANGED sendChan
         \/ StreamPage
  PROVE  UNCHANGED Out
<1>1. UNCHANGED <<Shipped, pageEnd>>
  <2>1. CASE RecvPage \/ PushPage \/ FwdTake \/ FwdPush
    BY <2>1, Moves DEF RecvPage, PushPage, FwdTake, FwdPush, StreamPage
  <2>2. CASE ReadPage /\ UNCHANGED sendChan
    <3>1. Delivery!Get
      BY <2>2, ReadGets
    <3> QED
      BY <2>2, <3>1 DEF Delivery!Get, ReadPage
  <2>3. CASE StreamPage
    BY <2>3, StreamMoves
  <2> QED
    BY <2>1, <2>2, <2>3
<1>2. CASE pageEnd # "broken"
  BY <1>1, <1>2 DEF Shipped, Out, Join
<1>3. CASE pageEnd = "broken"
  <2>1. UNCHANGED ClientPages
    BY <1>1, <1>3 DEF Shipped
  <2>2. UNCHANGED <<pageStream, sendChan>>
    BY <1>3 DEF HandsInv, RecvPage, PushPage, FwdTake, FwdPush, ReadPage, StreamPage
  <2> QED
    BY <2>1, <2>2 DEF Out
<1> QED
  BY <1>2, <1>3

-----------------------------------------------------------------------------
(* Quiet steps.                                                            *)

\* What the job has accepted is in four places, and nothing in two of them.
Split == Parts(Accepted, Out, page, Waiting, reqChan)

LEMMA AcceptedSplit ==
  /\ Typed => Split
  /\ Typed' => Split'
<1>1. ASSUME Typed PROVE Split
  <2>1. /\ Out \in Seq(Requests) /\ page \in Seq(Requests)
        /\ Waiting \in Seq(Requests) /\ reqChan \in Seq(Requests)
        /\ Accepted = Join(Join(Join(Out, page), Waiting), reqChan)
    BY <1>1 DEF Typed, Accepted
  <2> QED
    BY <2>1, FourParts DEF Split
<1>2. ASSUME Typed' PROVE Split'
  <2>1. /\ Out' \in Seq(Requests) /\ page' \in Seq(Requests)
        /\ Waiting' \in Seq(Requests) /\ reqChan' \in Seq(Requests)
        /\ Accepted' = Join(Join(Join(Out', page'), Waiting'), reqChan')
    BY <1>2 DEF Typed, Accepted
  <2> QED
    BY <2>1, FourParts DEF Split
<1> QED
  BY <1>1, <1>2

\* If a place keeps its values or loses some, and the others are left alone, the
\* step is quiet.
LEMMA SameQuiet ==
  ASSUME UNCHANGED <<Out, page, Waiting, reqChan>>
  PROVE  QuietJob
<1>1. UNCHANGED Accepted
  BY DEF Accepted
<1> QED
  BY <1>1 DEF QuietJob

LEMMA FeedQuiet ==
  ASSUME Typed, Typed', WorkInv, FeedPage
  PROVE  QuietJob
<1>1. Split /\ Split'
  BY AcceptedSplit
<1>2. /\ reqChan \in Seq(Requests) /\ reqChan # <<>> /\ queue \in Seq(Requests)
      /\ reqChan' = Tail(reqChan) /\ UNCHANGED <<Out, page, queue>>
  BY DEF FeedPage, Typed, Out, ClientPages
<1>3. /\ Head(reqChan) \in Requests
      /\ Range(reqChan) = {Head(reqChan)} \union Range(reqChan')
      /\ IsInjective(reqChan) <=>
           IsInjective(reqChan') /\ Head(reqChan) \notin Range(reqChan')
  BY <1>2, TakeParts
<1>4. CASE UNCHANGED feeding /\ feeder' = "exited"
  <2>1. ~Open' /\ UNCHANGED Waiting
    BY <1>2, <1>4 DEF Open, Waiting
  <2> QED
    BY <1>1, <1>2, <1>3, <2>1 DEF QuietJob, Split, Parts
<1>5. CASE feeding' = <<Head(reqChan)>>
  <2>1. feeding = <<>>
    BY DEF FeedPage, WorkInv
  <2>2. Waiting = queue
    BY <1>2, <2>1, JoinFacts DEF Waiting
  <2>3. Waiting' = Append(queue, Head(reqChan))
    BY <1>2, <1>3, <1>5, AppendIsConcat DEF Waiting, Join
  <2>4. /\ Range(Waiting') = Range(Waiting) \union {Head(reqChan)}
        /\ IsInjective(Waiting') <=>
             IsInjective(Waiting) /\ Head(reqChan) \notin Range(Waiting)
    BY <1>2, <1>3, <2>2, <2>3, AppendParts
  <2> QED
    BY <1>1, <1>2, <1>3, <2>4 DEF QuietJob, Split, Parts
<1> QED
  BY <1>4, <1>5 DEF FeedPage

\* What waits is in the queue and in the hands of the feeder.
LEMMA WaitingParts ==
  ASSUME Typed
  PROVE  /\ Range(Waiting) = Range(queue) \union Range(feeding)
         /\ IsInjective(Waiting) <=>
              /\ IsInjective(queue) /\ IsInjective(feeding)
              /\ Range(queue) \cap Range(feeding) = {}
<1>1. queue \in Seq(Requests) /\ feeding \in Seq(Requests)
  BY DEF Typed
<1> QED
  BY <1>1, JoinParts DEF Waiting

\* Some of it is lost, at the end of the job.
LEMMA WaitQuiet ==
  ASSUME Typed, Typed', UNCHANGED <<Out, page, reqChan>>, ~Open',
         Range(Waiting') \subseteq Range(Waiting),
         IsInjective(Waiting) => IsInjective(Waiting')
  PROVE  QuietJob
<1>1. Split /\ Split'
  BY AcceptedSplit
<1> QED
  BY <1>1 DEF QuietJob, Split, Parts

LEMMA PushQuiet ==
  ASSUME Typed, Typed', FeedPush
  PROVE  QuietJob
<1>1. /\ UNCHANGED <<Out, page, reqChan>> /\ feeding' = <<>>
      /\ queue \in Seq(Requests) /\ queue' \in Seq(Requests)
  BY DEF FeedPush, Out, ClientPages, Typed
<1>2. Waiting' = queue'
  BY <1>1, JoinFacts DEF Waiting
<1>3. CASE queue' = queue \o feeding
  <2>1. UNCHANGED Waiting
    BY <1>2, <1>3 DEF Waiting, Join
  <2> QED
    BY <1>1, <2>1, SameQuiet
<1>4. CASE qClosed /\ UNCHANGED queue
  <2>1. ~Open'
    BY <1>4 DEF FeedPush, Open
  <2>2. Waiting' = queue
    BY <1>2, <1>4
  <2> QED
    BY <1>1, <2>1, <2>2, WaitingParts, WaitQuiet
<1> QED
  BY <1>3, <1>4 DEF FeedPush

LEMMA FetchQuiet ==
  ASSUME Typed, Typed', WorkInv, FetchPage
  PROVE  QuietJob
<1>1. Split /\ Split'
  BY AcceptedSplit
<1>2. /\ queue \in Seq(Requests) /\ queue # <<>> /\ queue' = Tail(queue)
      /\ page = <<>> /\ page' = <<Head(queue)>> /\ UNCHANGED <<Out, reqChan, feeding>>
      /\ feeding \in Seq(Requests)
  BY DEF FetchPage, Typed, WorkInv, Out, ClientPages
<1>3. /\ Range(queue) = {Head(queue)} \union Range(queue')
      /\ IsInjective(queue) <=> IsInjective(queue') /\ Head(queue) \notin Range(queue')
  BY <1>2, TakeParts
<1>4. /\ Range(page) = {} /\ Range(page') = {Head(queue)} /\ IsInjective(page')
  BY <1>2, SmallParts
<1>5. /\ Range(Waiting) = Range(queue) \union Range(feeding)
      /\ IsInjective(Waiting) <=>
           /\ IsInjective(queue) /\ IsInjective(feeding)
           /\ Range(queue) \cap Range(feeding) = {}
  BY WaitingParts
<1>6. /\ Range(Waiting') = Range(queue') \union Range(feeding)
      /\ IsInjective(Waiting') <=>
           /\ IsInjective(queue') /\ IsInjective(feeding)
           /\ Range(queue') \cap Range(feeding) = {}
  <2>1. queue' \in Seq(Requests) /\ Waiting' = Join(queue', feeding)
    BY <1>2 DEF Waiting, Typed
  <2> QED
    BY <1>2, <2>1, JoinParts
<1>7. /\ Range(Waiting) = {Head(queue)} \union Range(Waiting')
      /\ IsInjective(Waiting) <=>
           IsInjective(Waiting') /\ Head(queue) \notin Range(Waiting')
  BY <1>3, <1>5, <1>6
<1> QED
  BY <1>1, <1>2, <1>4, <1>7 DEF QuietJob, Split, Parts

LEMMA ShipQuiet ==
  ASSUME Typed, Typed', OpenInv, ShipPage
  PROVE  QuietJob
<1>1. Split /\ Split'
  BY AcceptedSplit
<1>2. page' = <<>> /\ UNCHANGED <<Waiting, reqChan>>
  BY DEF ShipPage, EndTask, Waiting
<1>3. Range(page') = {} /\ IsInjective(page')
  BY <1>2, SmallParts
<1>4. CASE UNCHANGED sendChan /\ stopChan = 1
  <2>1. pageEnd' = "broken" /\ UNCHANGED Out
    BY <1>4 DEF OpenInv, ShipPage, Out, ClientPages
  <2> QED
    BY <1>1, <1>2, <1>3, <2>1 DEF QuietJob, Split, Parts, Open
<1>5. CASE sendChan' = sendChan \o page
  <2>1. /\ UNCHANGED Join(ClientPages, pageStream)
        /\ Join(ClientPages, pageStream) \in Seq(Requests)
    BY JoinFacts DEF ShipPage, ClientPages, Typed
  <2> DEFINE x == Join(ClientPages, pageStream)
  <2>2. x \in Seq(Requests) /\ x' = x /\ Out = Join(x, sendChan) /\ Out' = Join(x', sendChan')
    BY <2>1 DEF Out
  <2>3. sendChan' = Join(sendChan, page)
    BY <1>5 DEF Join
  <2> HIDE DEF x
  <2>4. Out' = Join(Out, page)
    BY <2>2, <2>3, JoinFacts DEF Typed
  <2>5. /\ Range(Out') = Range(Out) \union Range(page)
        /\ IsInjective(Out') <=>
             IsInjective(Out) /\ IsInjective(page) /\ Range(Out) \cap Range(page) = {}
    BY <2>4, JoinParts DEF Typed
  <2> QED
    BY <1>1, <1>2, <1>3, <2>5 DEF QuietJob, Split, Parts
<1> QED
  BY <1>4, <1>5 DEF ShipPage

LEMMA DropQuiet ==
  ASSUME Typed, Typed', EndTask, UNCHANGED <<Out, Waiting, reqChan>>,
         ~Open' \/ Range(page) \subseteq dropped'
  PROVE  QuietJob
<1>1. Split /\ Split'
  BY AcceptedSplit
<1>2. Range(page') = {} /\ IsInjective(page')
  BY SmallParts DEF EndTask
<1> QED
  BY <1>1, <1>2 DEF QuietJob, Split, Parts

LEMMA CancelQuiet ==
  ASSUME Typed, Typed', CancelQueue, UNCHANGED <<Out, page, reqChan, feeding>>
  PROVE  QuietJob
<1>1. queue' = <<>> /\ ~Open'
  BY DEF CancelQueue, Open
<1>2. Waiting' = feeding
  BY <1>1, JoinFacts DEF Waiting, Typed
<1> QED
  BY <1>1, <1>2, WaitingParts, WaitQuiet

\* The idle time ends, and the first requests of the queue are dropped.
LEMMA IdleQuiet ==
  ASSUME Typed, Typed', IdleTimeout
  PROVE  QuietJob
<1>1. Split /\ Split'
  BY AcceptedSplit
<1>2. /\ UNCHANGED <<Out, page, reqChan, feeding>>
      /\ queue \in Seq(Requests) /\ feeding \in Seq(Requests)
  BY DEF IdleTimeout, Out, ClientPages, Typed
<1>3. PICK n \in 0..Len(queue) :
        /\ queue' = SubSeq(queue, n + 1, Len(queue))
        /\ dropped' = dropped \union Range(SubSeq(queue, 1, n))
  BY DEF IdleTimeout
<1> DEFINE p == SubSeq(queue, 1, n)
<1>4. /\ p \in Seq(Requests) /\ queue' \in Seq(Requests) /\ Join(p, queue') = queue
      /\ Range(p) \subseteq dropped'
  BY <1>2, <1>3, CutSeq DEF Join
<1> HIDE DEF p
<1>5. Waiting = Join(p, Waiting') /\ Waiting' \in Seq(Requests)
  <2>1. Waiting' = Join(queue', feeding)
    BY <1>2 DEF Waiting
  <2>2. Join(Join(p, queue'), feeding) = Join(p, Join(queue', feeding))
    BY <1>2, <1>4, JoinFacts
  <2> QED
    BY <1>4, <2>1, <2>2 DEF Waiting, Typed
<1> DEFINE w == Waiting'
<1>6. w \in Seq(Requests) /\ Waiting = Join(p, w)
  BY <1>5
<1>w. w = Waiting'
  OBVIOUS
<1> HIDE DEF w
<1>7. /\ Range(Waiting) = Range(p) \union Range(w)
      /\ IsInjective(Waiting) => IsInjective(w)
  BY <1>4, <1>6, JoinParts
<1>8. /\ Range(Waiting) = Range(p) \union Range(Waiting')
      /\ IsInjective(Waiting) => IsInjective(Waiting')
  BY <1>7, <1>w
<1> QED
  BY <1>1, <1>2, <1>4, <1>8 DEF QuietJob, Split, Parts

\* Of three parts one is lost or loses its first value.
LEMMA OutParts ==
  ASSUME NEW S, NEW a \in Seq(S), NEW b \in Seq(S), NEW c \in Seq(S),
         NEW j, j = Join(Join(a, b), c)
  PROVE  /\ Range(j) = Range(a) \union Range(b) \union Range(c)
         /\ IsInjective(j) <=>
              /\ IsInjective(a) /\ IsInjective(b) /\ IsInjective(c)
              /\ Range(a) \cap Range(b) = {} /\ Range(a) \cap Range(c) = {}
              /\ Range(b) \cap Range(c) = {}
<1> DEFINE x == Join(a, b)
<1>1. /\ x \in Seq(S) /\ Range(x) = Range(a) \union Range(b)
      /\ IsInjective(x) <=>
           IsInjective(a) /\ IsInjective(b) /\ Range(a) \cap Range(b) = {}
  <2>1. x \in Seq(S)
    BY JoinFacts
  <2> QED
    BY <2>1, JoinParts
<1> HIDE DEF x
<1>2. /\ Range(Join(x, c)) = Range(x) \union Range(c)
      /\ IsInjective(Join(x, c)) <=>
           IsInjective(x) /\ IsInjective(c) /\ Range(x) \cap Range(c) = {}
  BY <1>1, JoinParts
<1>3. /\ Range(Join(x, c)) = Range(a) \union Range(b) \union Range(c)
      /\ IsInjective(Join(x, c)) <=>
           /\ IsInjective(a) /\ IsInjective(b) /\ IsInjective(c)
           /\ Range(a) \cap Range(b) = {} /\ Range(a) \cap Range(c) = {}
           /\ Range(b) \cap Range(c) = {}
  BY <1>1, <1>2
<1> QED
  BY <1>3 DEF x

LEMMA LossQuiet ==
  ASSUME Typed, Typed', LoseClient \/ Break
  PROVE  QuietJob
<1>1. Split /\ Split'
  BY AcceptedSplit
<1>2. UNCHANGED <<page, Waiting, reqChan, ClientPages>> /\ ~Open'
  BY DEF LoseClient, Break, ClientPages, Open, Waiting
<1>3. Range(Out') \subseteq Range(Out) /\ (IsInjective(Out) => IsInjective(Out'))
  <2>1. /\ Range(Out) = Range(ClientPages) \union Range(pageStream) \union Range(sendChan)
        /\ IsInjective(Out) <=>
             /\ IsInjective(ClientPages) /\ IsInjective(pageStream)
             /\ IsInjective(sendChan)
             /\ Range(ClientPages) \cap Range(pageStream) = {}
             /\ Range(ClientPages) \cap Range(sendChan) = {}
             /\ Range(pageStream) \cap Range(sendChan) = {}
    <3>1. /\ ClientPages \in Seq(Requests) /\ pageStream \in Seq(Requests)
          /\ sendChan \in Seq(Requests)
          /\ Out = Join(Join(ClientPages, pageStream), sendChan)
      BY DEF Typed, Out
    <3> QED
      BY <3>1, OutParts
  <2>2. /\ Range(Out') = Range(ClientPages') \union Range(pageStream')
                         \union Range(sendChan')
        /\ IsInjective(Out') <=>
             /\ IsInjective(ClientPages') /\ IsInjective(pageStream')
             /\ IsInjective(sendChan')
             /\ Range(ClientPages') \cap Range(pageStream') = {}
             /\ Range(ClientPages') \cap Range(sendChan') = {}
             /\ Range(pageStream') \cap Range(sendChan') = {}
    <3>1. /\ ClientPages' \in Seq(Requests) /\ pageStream' \in Seq(Requests)
          /\ sendChan' \in Seq(Requests)
          /\ Out' = Join(Join(ClientPages', pageStream'), sendChan')
      BY DEF Typed, Out
    <3> QED
      BY <3>1, OutParts
  <2>3. CASE LoseClient
    <3>1. /\ sendChan \in Seq(Requests) /\ sendChan # <<>>
          /\ sendChan' = Tail(sendChan) /\ UNCHANGED pageStream
      BY <2>3 DEF LoseClient, Typed
    <3>2. /\ Range(sendChan) = {Head(sendChan)} \union Range(sendChan')
          /\ IsInjective(sendChan) => IsInjective(sendChan')
      BY <3>1, TakeParts
    <3> QED
      BY <1>2, <2>1, <2>2, <3>1, <3>2
  <2>4. CASE Break
    <3>1. pageStream' = <<>> /\ UNCHANGED sendChan
      BY <2>4 DEF Break
    <3>2. Range(pageStream') = {} /\ IsInjective(pageStream')
      BY <3>1, SmallParts
    <3> QED
      BY <1>2, <2>1, <2>2, <3>1, <3>2
  <2> QED
    BY <2>3, <2>4
<1> QED
  BY <1>1, <1>2, <1>3 DEF QuietJob, Split, Parts

LEMMA SameStreamsQuiet ==
  ASSUME UNCHANGED <<addStream, adding>>
  PROVE  QuietStreams
<1>1. \A s : UNCHANGED Coming(s)
  BY DEF Coming
<1> QED
  BY <1>1 DEF QuietStreams

\* A stream of AddPages that ends leaves what its handler has in hand.
LEMMA EndQuiet ==
  ASSUME Typed, ~Open', UNCHANGED adding,
         \A s \in Requests : addStream'[s] = addStream[s] \/ addStream'[s] = <<>>
  PROVE  QuietStreams
<1> SUFFICES ASSUME NEW s \in Requests
             PROVE  /\ IsInjective(Coming(s)) => IsInjective(Coming(s)')
                    /\ Range(Coming(s)') \subseteq Range(Coming(s))
  BY DEF QuietStreams
<1>1. CASE addStream'[s] = addStream[s]
  BY <1>1 DEF Coming
<1>2. CASE addStream'[s] = <<>>
  <2>1. addStream[s] \in Seq(Requests) /\ adding[s] \in Seq(Requests)
    BY DEF Typed
  <2>2. Coming(s)' = adding[s]
    BY <1>2, <2>1, JoinFacts DEF Coming
  <2>3. /\ Range(Coming(s)) = Range(addStream[s]) \union Range(adding[s])
        /\ IsInjective(Coming(s)) => IsInjective(adding[s])
    BY <2>1, JoinParts DEF Coming
  <2> QED
    BY <2>2, <2>3
<1> QED
  BY <1>1, <1>2

LEMMA RecvQuiet ==
  ASSUME Typed, WorkInv, OpenInv, NEW s \in Requests, AddPagesRecv(s)
  PROVE  QuietStreams
<1>1. UNCHANGED <<feeder, qClosed, pageEnd>>
  BY DEF AddPagesRecv
<1>2. CASE EndAddPages(s) /\ (~registered \/ doneClosed)
  <2>1. ~Open'
    BY <1>1, <1>2 DEF Open, OpenInv
  <2>2. UNCHANGED adding /\ addStream' = [addStream EXCEPT ![s] = <<>>]
    BY <1>2 DEF EndAddPages
  <2>3. \A t \in Requests : addStream'[t] = addStream[t] \/ addStream'[t] = <<>>
    BY <2>2 DEF Typed
  <2> QED
    BY <2>1, <2>2, <2>3, EndQuiet
<1>3. CASE TakeRequest(s) /\ adder[s] # "push" /\ addStream[s] # <<>>
  <2>1. adding[s] = <<>>
    BY <1>3 DEF WorkInv
  <2>2. /\ addStream[s] \in Seq(Requests) /\ addStream[s] # <<>>
        /\ addStream'[s] = Tail(addStream[s])
        /\ adding'[s] = <<Head(addStream[s])>>
        /\ \A t \in Requests : t # s => addStream'[t] = addStream[t]
                                          /\ adding'[t] = adding[t]
    BY <1>3 DEF TakeRequest, Typed
  <2>3. ASSUME NEW t \in Requests, t # s PROVE UNCHANGED Coming(t)
    BY <2>2, <2>3 DEF Coming
  <2>4. Range(Coming(s)') = Range(Coming(s))
        /\ (IsInjective(Coming(s)) => IsInjective(Coming(s)'))
    <3> DEFINE a == addStream[s]
               h == <<Head(addStream[s])>>
    <3>1. Coming(s) = a
      BY <2>1, <2>2, JoinFacts DEF Coming
    <3>2. Coming(s)' = Join(Tail(a), h)
      BY <2>2 DEF Coming
    <3>3. /\ Head(a) \in Requests /\ Tail(a) \in Seq(Requests) /\ h \in Seq(Requests)
          /\ Range(a) = {Head(a)} \union Range(Tail(a))
          /\ IsInjective(a) <=> IsInjective(Tail(a)) /\ Head(a) \notin Range(Tail(a))
      BY <2>2, TakeParts
    <3>4. Range(h) = {Head(a)} /\ IsInjective(h)
      BY SmallParts
    <3> HIDE DEF a, h
    <3>5. /\ Range(Join(Tail(a), h)) = Range(Tail(a)) \union Range(h)
          /\ IsInjective(Join(Tail(a), h)) <=>
               /\ IsInjective(Tail(a)) /\ IsInjective(h)
               /\ Range(Tail(a)) \cap Range(h) = {}
      BY <3>3, JoinParts
    <3> QED
      BY <3>1, <3>2, <3>3, <3>4, <3>5
  <2> QED
    BY <2>3, <2>4 DEF QuietStreams
<1> QED
  BY <1>2, <1>3 DEF AddPagesRecv

-----------------------------------------------------------------------------
(* The two steps that bring a request on.                                  *)

\* SendRequest puts the request of a call onto a stream, where no other copy of
\* it is.
LEMMA SendKeeps ==
  ASSUME TypeOK, Typed, RequestInv, NEW r \in Requests, SendCall(r),
         UNCHANGED serverVars
  PROVE  RequestInv'
<1>1. UNCHANGED <<Accepted, adding, Open, dropped>>
  BY DEF SendCall, Accepted, Waiting, Out, ClientPages, Open
<1>2. /\ call \in [Requests -> CallStates] /\ call[r] = "send"
      /\ addStream \in [Requests -> Seq(Requests)]
      /\ adding \in [Requests -> Seq(Requests)]
      /\ addClient \in Requests \union {NoStream}
  BY DEF TypeOK, ClientTypeOK, Typed, SendCall
<1>3. CASE UNCHANGED addStream
  <2>1. call'[r] # "sent" /\ \A q \in Requests : q # r => call'[q] = call[q]
    BY <1>2, <1>3 DEF SendCall, SendRequest
  <2>2. Quiet
    BY <1>1, <1>2, <1>3, <2>1, SameStreamsQuiet 
    DEF Quiet, QuietJob, QuietCalls, QuietDrops
  <2> QED
    BY <2>2, QuietKeeps
<1>4. ASSUME NEW t \in Requests, addStream' = [addStream EXCEPT ![t] = Append(@, r)],
             call' = [call EXCEPT ![r] = "sent"]
      PROVE  RequestInv'
  <2>1. /\ r \notin Range(Accepted)
        /\ \A s \in Requests : r \notin Range(Coming(s))
    BY <1>2 DEF RequestInv, Asked
  <2>2. \A s \in Requests : s # t => UNCHANGED Coming(s)
    BY <1>1, <1>2, <1>4 DEF Coming
  <2>3. /\ Range(Coming(t)') = Range(Coming(t)) \union {r}
        /\ IsInjective(Coming(t)) => IsInjective(Coming(t)')
    <3> DEFINE a == addStream[t]
               h == adding[t]
               b == Append(a, r)
    <3>1. a \in Seq(Requests) /\ h \in Seq(Requests)
      BY <1>2
    <3>2. Coming(t) = Join(a, h) /\ Coming(t)' = Join(b, h)
      BY <1>1, <1>2, <1>4 DEF Coming
    <3>3. /\ b \in Seq(Requests) /\ Range(b) = Range(a) \union {r}
          /\ IsInjective(b) <=> IsInjective(a) /\ r \notin Range(a)
      BY <3>1, AppendParts
    <3> HIDE DEF a, b, h
    <3>4. /\ Range(Join(a, h)) = Range(a) \union Range(h)
          /\ IsInjective(Join(a, h)) <=>
               IsInjective(a) /\ IsInjective(h) /\ Range(a) \cap Range(h) = {}
      BY <3>1, JoinParts
    <3>5. /\ Range(Join(b, h)) = Range(b) \union Range(h)
          /\ IsInjective(Join(b, h)) <=>
               IsInjective(b) /\ IsInjective(h) /\ Range(b) \cap Range(h) = {}
      BY <3>1, <3>3, JoinParts
    <3>6. r \notin Range(Join(a, h))
      BY <2>1, <3>2
    <3> QED
      BY <3>2, <3>3, <3>4, <3>5, <3>6
  <2>4. \A q \in Requests : call'[q] = IF q = r THEN "sent" ELSE call[q]
    BY <1>2, <1>4
  <2>5. Once'
    BY <1>1 DEF RequestInv, Once
  <2>6. Apart'
    <3>1. \A s \in Requests : IsInjective(Coming(s)')
      BY <2>2, <2>3 DEF RequestInv, Apart
    <3>2. \A s \in Requests : Range(Coming(s)') \cap Range(Accepted') = {}
      BY <1>1, <2>1, <2>2, <2>3 DEF RequestInv, Apart
    <3>3. ASSUME NEW s \in Requests, NEW q \in Requests, s # q
          PROVE  Range(Coming(s)') \cap Range(Coming(q)') = {}
      <4>1. /\ Range(Coming(s)) \cap Range(Coming(q)) = {}
            /\ r \notin Range(Coming(s)) /\ r \notin Range(Coming(q))
        BY <2>1, <3>3 DEF RequestInv, Apart
      <4>2. /\ Range(Coming(s)') = Range(Coming(s)) \/ s = t
            /\ Range(Coming(q)') = Range(Coming(q)) \/ q = t
        BY <2>2
      <4> QED
        BY <2>3, <3>3, <4>1, <4>2
    <3> QED
      BY <3>1, <3>2, <3>3 DEF Apart
  <2>7. Asked'
    <3>1. \A q \in Range(Accepted') : call'[q] = "sent"
      BY <1>1, <2>4, PlacesRange DEF RequestInv, Asked
    <3>2. ASSUME NEW s \in Requests, NEW q \in Range(Coming(s)')
          PROVE  call'[q] = "sent"
      <4>1. q = r \/ q \in Range(Coming(s))
        BY <2>2, <2>3
      <4>2. q \in Requests
        BY <4>1, PlacesRange
      <4> QED
        BY <2>4, <4>1, <4>2 DEF RequestInv, Asked
    <3> QED
      BY <3>1, <3>2 DEF Asked
  <2>8. Safe'
    <3> SUFFICES ASSUME Open', NEW q \in Requests, call'[q] = "sent"
                 PROVE  \/ q \in Range(Accepted') \/ q \in dropped'
                        \/ \E s \in Requests : q \in Range(Coming(s)')
      BY DEF Safe
    <3>1. CASE q = r
      BY <2>3, <3>1
    <3>2. CASE q # r
      <4>1. \/ q \in Range(Accepted) \/ q \in dropped
            \/ \E s \in Requests : q \in Range(Coming(s))
        BY <1>1, <2>4, <3>2 DEF RequestInv, Safe
      <4> QED
        BY <1>1, <2>2, <2>3, <4>1
    <3> QED
      BY <3>1, <3>2
  <2> QED
    BY <2>5, <2>6, <2>7, <2>8 DEF RequestInv
<1> QED
  <2>1. addClient # NoStream => addClient \in Requests
    BY <1>2
  <2> QED
    BY <1>3, <1>4, <2>1 DEF SendCall, SendRequest

\* AddPages hands a request over to the job.
LEMMA PushKeeps ==
  ASSUME Typed, RequestInv, NEW s \in Requests, AddPagesPush(s)
  PROVE  RequestInv'
<1>1. /\ UNCHANGED <<Out, page, Waiting, addStream, call, Open, dropped>>
      /\ reqChan' = Join(reqChan, adding[s])
      /\ adding' = [adding EXCEPT ![s] = <<>>]
  BY DEF AddPagesPush, Out, ClientPages, Open, Waiting, Join
<1>2. addStream[s] \in Seq(Requests) /\ adding[s] \in Seq(Requests)
  BY DEF Typed
<1>3. Accepted' = Join(Accepted, adding[s]) /\ Accepted \in Seq(Requests)
  <2> DEFINE y == Join(Join(Out, page), Waiting)
  <2>1. Join(Out, page) \in Seq(Requests)
    BY JoinFacts DEF Typed
  <2>2. y \in Seq(Requests)
    BY <2>1, JoinFacts DEF Typed
  <2>3. Accepted = Join(y, reqChan) /\ Accepted' = Join(y, Join(reqChan, adding[s]))
    BY <1>1 DEF Accepted
  <2> HIDE DEF y
  <2> QED
    BY <1>2, <2>2, <2>3, JoinFacts, PlacesRange DEF Typed
<1>4. \A t \in Requests : t # s => UNCHANGED Coming(t)
  BY <1>1 DEF Coming, Typed
<1>5. Coming(s)' = addStream[s]
  <2>1. adding'[s] = <<>> /\ addStream'[s] = addStream[s]
    BY <1>1 DEF Typed
  <2> QED
    BY <1>2, <2>1, JoinFacts DEF Coming
<1>6. /\ Range(Coming(s)) = Range(addStream[s]) \union Range(adding[s])
      /\ IsInjective(Coming(s)) <=>
           /\ IsInjective(addStream[s]) /\ IsInjective(adding[s])
           /\ Range(addStream[s]) \cap Range(adding[s]) = {}
  BY <1>2, JoinParts DEF Coming
<1>7. /\ Range(Accepted') = Range(Accepted) \union Range(adding[s])
      /\ IsInjective(Accepted') <=>
           /\ IsInjective(Accepted) /\ IsInjective(adding[s])
           /\ Range(Accepted) \cap Range(adding[s]) = {}
  BY <1>2, <1>3, JoinParts
<1>8. /\ IsInjective(Accepted) /\ IsInjective(Coming(s))
      /\ Range(Coming(s)) \cap Range(Accepted) = {}
  BY DEF RequestInv, Once, Apart
<1>9. Once'
  BY <1>6, <1>7, <1>8 DEF Once
<1>10. Apart'
  <2>1. \A t \in Requests : IsInjective(Coming(t)')
    BY <1>4, <1>5, <1>6, <1>8 DEF RequestInv, Apart
  <2>2. ASSUME NEW t \in Requests
        PROVE  Range(Coming(t)') \cap Range(Accepted') = {}
    <3>1. CASE t = s
      BY <1>5, <1>6, <1>7, <1>8, <3>1
    <3>2. CASE t # s
      <4>1. /\ Range(Coming(t)) \cap Range(Accepted) = {}
            /\ Range(Coming(t)) \cap Range(Coming(s)) = {}
        BY <3>2 DEF RequestInv, Apart
      <4> QED
        BY <1>4, <1>6, <1>7, <3>2, <4>1
    <3> QED
      BY <3>1, <3>2
  <2>3. \A t \in Requests : Range(Coming(t)') \subseteq Range(Coming(t))
    BY <1>4, <1>5, <1>6
  <2>4. ASSUME NEW t \in Requests, NEW u \in Requests, t # u
        PROVE  Range(Coming(t)') \cap Range(Coming(u)') = {}
    <3>1. Range(Coming(t)) \cap Range(Coming(u)) = {}
      BY <2>4 DEF RequestInv, Apart
    <3> QED
      BY <2>3, <3>1
  <2> QED
    BY <2>1, <2>2, <2>4 DEF Apart
<1>11. Asked'
  <2>1. \A r \in Range(Accepted') : call[r] = "sent"
    BY <1>6, <1>7 DEF RequestInv, Asked
  <2>2. \A t \in Requests : \A r \in Range(Coming(t)') : call[r] = "sent"
    BY <1>4, <1>5, <1>6 DEF RequestInv, Asked
  <2> QED
    BY <1>1, <2>1, <2>2 DEF Asked
<1>12. Safe'
  <2> SUFFICES ASSUME Open', NEW r \in Requests, call'[r] = "sent"
               PROVE  \/ r \in Range(Accepted') \/ r \in dropped'
                      \/ \E t \in Requests : r \in Range(Coming(t)')
    BY DEF Safe
  <2>1. \/ r \in Range(Accepted) \/ r \in dropped
        \/ \E t \in Requests : r \in Range(Coming(t))
    BY <1>1 DEF RequestInv, Safe
  <2> QED
    BY <1>1, <1>4, <1>5, <1>6, <1>7, <2>1
<1> QED
  BY <1>9, <1>10, <1>11, <1>12 DEF RequestInv

-----------------------------------------------------------------------------
(* The theorems.                                                           *)

\* A step of the client keeps the invariant.
LEMMA ClientKeeps ==
  ASSUME TypeOK, TypeOK', HandsInv, RequestInv, ClientNext, UNCHANGED serverVars
  PROVE  RequestInv'
<1>t. Typed /\ Typed'
  BY PlacesTyped
<1>s. /\ UNCHANGED <<feeder, qClosed, page, Waiting, reqChan, adding, sendChan>>
      /\ QuietDrops
  BY DEF Waiting, QuietDrops
<1>1. ASSUME UNCHANGED <<Out, addStream, call, pageEnd>> PROVE RequestInv'
  <2>1. QuietJob /\ QuietStreams
    BY <1>1, <1>s, SameQuiet, SameStreamsQuiet
  <2>2. QuietCalls
    BY <1>1, <1>s DEF QuietCalls, Open
  <2> QED
    BY <1>t, <1>s, <2>1, <2>2, QuietKeeps DEF Quiet
<1>2. CASE RecvPage \/ PushPage \/ FwdTake \/ FwdPush \/ ReadPage
  <2>1. UNCHANGED Out
    BY <1>2, <1>s, OutMoves
  <2>2. UNCHANGED <<addStream, call, pageEnd>>
    BY <1>2 DEF RecvPage, PushPage, FwdTake, FwdPush, ReadPage
  <2> QED
    BY <1>1, <2>1, <2>2
<1>3. CASE \/ Program \/ RunStart \/ InitAnalyzedURL \/ RecvEnd \/ ClosePhChan
           \/ CloseStoppedChan \/ FwdWake \/ FwdExit \/ ListenAnalyzedURLs
           \/ ReadList \/ Stop
  <2>1. UNCHANGED <<got, pageChan, fwdHeld, phChan, held, pageStream, sendChan,
                    addStream, call, pageEnd>>
    BY <1>3, <1>s DEF Program, NewCrawlJob, RecvSubscription, ReturnJob, RunStart,
                InitAnalyzedURL, RecvEnd, ClosePhChan, CloseStoppedChan, FwdWake, FwdExit,
                ListenAnalyzedURLs, ListenRecv, ListenPush, ListenEnd, ReadList, Stop
  <2>2. UNCHANGED Out
    BY <2>1 DEF Out, ClientPages
  <2> QED
    BY <1>1, <2>1, <2>2
<1>4. CASE \E r \in Requests : AddPage(r) \/ AddJS(r)
  <2>1. PICK r \in Requests : CallStep(r)
    BY <1>4 DEF AddPage, AddJS
  <2>2. CASE SendCall(r)
    BY <1>t, <2>2, SendKeeps
  <2>3. CASE BeginCall(r) \/ OpenAddPages(r)
    <3>1. UNCHANGED <<Out, addStream, pageEnd>>
      BY <2>3, <1>s DEF BeginCall, OpenAddPages, Out, ClientPages
    <3>2. \A q \in Requests : call[q] = "sent" <=> call'[q] = "sent"
      BY <2>3 DEF BeginCall, OpenAddPages, TypeOK, ClientTypeOK
    <3>3. Quiet
      BY <1>s, <3>1, <3>2, SameQuiet, SameStreamsQuiet DEF Quiet, QuietCalls, Open
    <3> QED
      BY <1>t, <3>3, QuietKeeps
  <2> QED
    BY <2>1, <2>2, <2>3 DEF CallStep
<1> QED
  BY <1>2, <1>3, <1>4 DEF ClientNext, Run, Forward

\* What is dropped stays so.
LEMMA DropsStay ==
  ASSUME ServerNext
  PROVE  QuietDrops
<1>1. Listener \/ Feeder \/ EndJob \/ Lister => UNCHANGED dropped
  BY DEF Listener, AddNewJob, StreamPage, LoseClient, EndStream, Feeder, FeedPage,
         FeedPush, FeederDone, EndJob, CloseSendChan, CloseDoneChan, ReapJob, Lister,
         GetAnalyzedURLs, MarkAnalyzed, MakeListChan, StreamList
<1>2. Task => dropped \subseteq dropped'
  BY DEF Task, FetchPage, DropPage, IgnoreType, AnalyzeLinks, SendList, SendPageHTML,
         ShipPage
<1>3. CancelOnStop \/ CancelJob \/ CloseQueue \/ Break => UNCHANGED dropped
  BY DEF CancelOnStop, CancelJob, CancelQueue, CloseQueue, Break
<1>4. IdleTimeout => dropped \subseteq dropped'
  BY DEF IdleTimeout
<1>5. (\E s \in Requests : AddPages(s)) => UNCHANGED dropped
  BY DEF AddPages, AddPagesRecv, AddPagesPush
<1> QED
  BY <1>1, <1>2, <1>3, <1>4, <1>5 DEF ServerNext, QuietDrops

\* ... and a step of the server.
LEMMA ServerKeeps ==
  ASSUME TypeOK, TypeOK', HandsInv, OpenInv, WorkInv, RequestInv, ServerNext
  PROVE  RequestInv'
<1>t. Typed /\ Typed' /\ QuietDrops
  BY PlacesTyped, DropsStay
<1>1. CASE \E s \in Requests : AddPages(s)
  <2>1. PICK s \in Requests : AddPagesRecv(s) \/ AddPagesPush(s)
    BY <1>1 DEF AddPages
  <2>2. CASE AddPagesPush(s)
    BY <1>t, <2>2, PushKeeps
  <2>3. CASE AddPagesRecv(s)
    <3>1. UNCHANGED <<Out, page, Waiting, reqChan, call, Open>>
      BY <2>3 DEF AddPagesRecv, Out, ClientPages, Open, Waiting
    <3>2. QuietJob /\ QuietStreams
      BY <1>t, <2>3, <3>1, SameQuiet, RecvQuiet
    <3> QED
      BY <1>t, <3>1, <3>2, QuietKeeps DEF Quiet, QuietCalls
  <2> QED
    BY <2>1, <2>2, <2>3
<1>2. CASE AddNewJob
  <2>1. /\ UNCHANGED <<Out, page, Waiting, reqChan, addStream, adding, call>>
        /\ listener = "off"
    BY <1>2 DEF AddNewJob, Out, ClientPages, Waiting
  <2>2. \A r \in Requests : call[r] # "sent"
    BY <2>1 DEF OpenInv
  <2>3. Quiet
    BY <1>t, <2>1, <2>2, SameQuiet, SameStreamsQuiet DEF Quiet, QuietCalls
  <2> QED
    BY <1>t, <2>3, QuietKeeps
<1>3. CASE Break
  <2>1. ~Open' /\ UNCHANGED <<adding, call>>
    BY <1>3 DEF Break, Open
  <2>2. \A s \in Requests : addStream'[s] = <<>>
    BY <1>3 DEF Break
  <2>3. QuietJob /\ QuietStreams
    BY <1>t, <1>3, <2>1, <2>2, LossQuiet, EndQuiet
  <2> QED
    BY <1>t, <2>1, <2>3, QuietKeeps DEF Quiet, QuietCalls
<1>4. ASSUME UNCHANGED <<addStream, adding, call>>, Open' => Open, QuietJob
      PROVE  RequestInv'
  BY <1>t, <1>4, SameStreamsQuiet, QuietKeeps DEF Quiet, QuietCalls
<1>5. CASE LoseClient
  <2>1. UNCHANGED <<addStream, adding, call>> /\ ~Open'
    BY <1>5 DEF LoseClient, Open
  <2> QED
    BY <1>t, <1>4, <1>5, <2>1, LossQuiet
<1>6. CASE StreamPage
  <2>1. UNCHANGED <<addStream, adding, call, page, Waiting, reqChan, Open>>
    BY <1>6 DEF StreamPage, Open, Waiting
  <2>2. QuietJob
    BY <1>6, <2>1, OutMoves, SameQuiet
  <2> QED
    BY <1>4, <2>1, <2>2
<1>7. CASE FeedPage
  <2>1. UNCHANGED <<addStream, adding, call>> /\ (Open' => Open)
    BY <1>7 DEF FeedPage, Open
  <2> QED
    BY <1>t, <1>4, <1>7, <2>1, FeedQuiet
<1>p. CASE FeedPush
  <2>1. UNCHANGED <<addStream, adding, call>> /\ (Open' => Open)
    BY <1>p DEF FeedPush, Open
  <2> QED
    BY <1>t, <1>4, <1>p, <2>1, PushQuiet
<1>8. CASE FetchPage
  <2>1. UNCHANGED <<addStream, adding, call, Open>>
    BY <1>8 DEF FetchPage, Open
  <2> QED
    BY <1>t, <1>4, <1>8, <2>1, FetchQuiet
<1>9. CASE ShipPage
  <2>1. UNCHANGED <<addStream, adding, call, Open>>
    BY <1>9 DEF ShipPage, Open
  <2> QED
    BY <1>t, <1>4, <1>9, <2>1, ShipQuiet
<1>d. CASE (DropPage \/ SendPageHTML) /\ EndTask
  <2>1. UNCHANGED <<addStream, adding, call, Out, Waiting, reqChan>>
    BY <1>d DEF DropPage, SendPageHTML, Out, ClientPages, Waiting
  <2>2. ~Open'
    BY <1>d DEF DropPage, SendPageHTML, EndTask, OpenInv, Open
  <2> QED
    BY <1>t, <1>4, <1>d, <2>1, <2>2, DropQuiet
<1>i. CASE IgnoreType
  <2>1. UNCHANGED <<addStream, adding, call, Out, Waiting, reqChan, Open>>
    BY <1>i DEF IgnoreType, Out, ClientPages, Waiting, Open
  <2>2. Range(page) \subseteq dropped' /\ EndTask
    BY <1>i DEF IgnoreType
  <2> QED
    BY <1>t, <1>4, <2>1, <2>2, DropQuiet
<1>o. CASE IdleTimeout
  <2>1. UNCHANGED <<addStream, adding, call, Open>>
    BY <1>o DEF IdleTimeout, Open
  <2> QED
    BY <1>t, <1>4, <1>o, <2>1, IdleQuiet
<1>10. ASSUME UNCHANGED <<Out, page, Waiting, reqChan, addStream, adding, call>>,
              Open' => Open
       PROVE  RequestInv'
  BY <1>4, <1>10, SameQuiet
<1>11. CASE CancelOnStop
  <2>1. /\ UNCHANGED <<addStream, adding, call, Out, page, reqChan, feeding>>
        /\ (Open' => Open)
    BY <1>11 DEF CancelOnStop, CancelQueue, Open, Out, ClientPages
  <2> QED
    BY <1>t, <1>4, <1>11, <2>1, CancelQuiet DEF CancelOnStop
<1>12. CASE CancelJob
  <2>1. /\ UNCHANGED <<addStream, adding, call, Out, page, reqChan, feeding>>
        /\ (Open' => Open)
    BY <1>12 DEF CancelJob, CancelQueue, Open, Out, ClientPages
  <2>2. CASE CancelQueue
    BY <1>t, <1>4, <2>1, <2>2, CancelQuiet
  <2>3. CASE UNCHANGED queueVars
    BY <1>10, <2>1, <2>3 DEF Waiting
  <2> QED
    BY <1>12, <2>2, <2>3 DEF CancelJob
<1>13. CASE EndStream \/ FeederDone \/ AnalyzeLinks \/ SendList \/ EndJob \/ CloseQueue
  <2>1. UNCHANGED <<Out, page, Waiting, reqChan, addStream, adding, call>>
    BY <1>13 DEF EndStream, FeederDone, AnalyzeLinks, SendList, EndJob, CloseSendChan,
                 CloseDoneChan, ReapJob, CloseQueue, Out, ClientPages, Waiting
  <2>2. Open' => Open
    BY <1>13 DEF EndStream, FeederDone, AnalyzeLinks, SendList, EndJob, CloseSendChan,
                 CloseDoneChan, ReapJob, CloseQueue, Open
  <2> QED
    BY <1>10, <2>1, <2>2
<1>14. CASE Lister
  <2>1. UNCHANGED <<Out, page, Waiting, reqChan, addStream, adding, call, Open>>
    BY <1>14 DEF Lister, GetAnalyzedURLs, MarkAnalyzed, MakeListChan, StreamList, Out,
                 ClientPages, Open, Waiting
  <2> QED
    BY <1>10, <2>1
<1>15. CASE SendPageHTML /\ UNCHANGED page
  <2>1. UNCHANGED <<Out, page, Waiting, reqChan, addStream, adding, call, Open>>
    BY <1>15 DEF SendPageHTML, Out, ClientPages, Open, Waiting
  <2> QED
    BY <1>10, <2>1
<1>16. Task => \/ FetchPage \/ AnalyzeLinks \/ SendList \/ ShipPage \/ IgnoreType
               \/ (DropPage \/ SendPageHTML) /\ EndTask
               \/ SendPageHTML /\ UNCHANGED page
  BY DEF Task, DropPage, SendPageHTML
<1> QED
  BY <1>1, <1>2, <1>3, <1>5, <1>6, <1>7, <1>8, <1>9, <1>d, <1>11, <1>12, <1>13, <1>14,
     <1>15, <1>16, <1>p, <1>i, <1>o
  DEF ServerNext, Listener, Feeder

\* The invariant holds, for every size of channels and windows.
THEOREM RequestCorrect == Spec => []RequestInv
<1>1. Init => RequestInv
  <2> SUFFICES ASSUME Init PROVE RequestInv
    OBVIOUS
  <2>1. /\ ClientPages = Join(Join(Join(Join(<<>>, <<>>), <<>>), <<>>), <<>>)
        /\ pageStream = <<>> /\ sendChan = <<>> /\ page = <<>> /\ queue = <<>>
        /\ reqChan = <<>> /\ feeding = <<>>
    BY DEF Init, ClientInit, ClientPages, Join
  <2>2. Join(<<>>, <<>>) = <<>>
    BY JoinFacts, EmptySeq
  <2>3. Accepted = <<>>
    BY <2>1, <2>2 DEF Accepted, Waiting, Out
  <2>4. \A s \in Requests : Coming(s) = <<>>
    BY <2>2 DEF Init, ClientInit, Coming
  <2>5. ~Open
    BY DEF Init, Open
  <2> QED
    BY <2>3, <2>4, <2>5, SmallParts DEF RequestInv, Once, Apart, Asked, Safe
<1>2. TypeOK /\ TypeOK' /\ HandsInv /\ OpenInv /\ WorkInv /\ RequestInv /\ [Next]_vars
        => RequestInv'
  <2> SUFFICES ASSUME TypeOK, TypeOK', HandsInv, OpenInv, WorkInv, RequestInv,
                      [Next]_vars
               PROVE  RequestInv'
    OBVIOUS
  <2>1. CASE UNCHANGED vars
    <3>1. UNCHANGED <<Out, page, Waiting, reqChan, addStream, adding, call, Open, dropped>>
      BY <2>1 DEF vars, Out, ClientPages, Open, Waiting
    <3>2. Quiet
      BY <3>1, SameQuiet, SameStreamsQuiet DEF Quiet, QuietCalls, QuietDrops
    <3> QED
      BY <3>2, QuietKeeps, PlacesTyped
  <2>2. CASE ClientNext /\ UNCHANGED serverVars
    BY <2>2, ClientKeeps
  <2>3. CASE ServerNext
    BY <2>3, ServerKeeps
  <2> QED
    BY <2>1, <2>2, <2>3 DEF Next
<1> QED
  BY <1>1, <1>2, TypeCorrect, HandsCorrect, OpenCorrect, PTL DEF Spec

\* The places in a row, as Session lists them.
LEMMA AcceptedRow ==
  ASSUME TypeOK
  PROVE  Accepted = ClientPages \o pageStream \o sendChan \o page \o queue \o feeding
                    \o reqChan
<1> DEFINE x == Join(Out, page)
<1>1. /\ Out \in Seq(Requests) /\ page \in Seq(Requests) /\ queue \in Seq(Requests)
      /\ feeding \in Seq(Requests)
  BY PlacesTyped DEF Typed
<1>2. x \in Seq(Requests)
  BY <1>1, JoinFacts
<1>3. Accepted = Join(Join(x, Join(queue, feeding)), reqChan)
  BY DEF Accepted, Waiting
<1> HIDE DEF x
<1>4. Join(x, Join(queue, feeding)) = Join(Join(x, queue), feeding)
  BY <1>1, <1>2, JoinFacts
<1>5. Accepted = Join(Join(Join(x, queue), feeding), reqChan)
  BY <1>3, <1>4
<1> QED
  BY <1>5 DEF x, Out, Join

\* No page is fetched or delivered twice: of the requests that the server has
\* taken and the pages it has shipped no two are the same.
THEOREM OneAnswerEachCorrect == Spec => []OneAnswerEach
<1>1. TypeOK /\ RequestInv => OneAnswerEach
  BY AcceptedRow DEF RequestInv, Once, OneAnswerEach
<1> QED
  BY <1>1, TypeCorrect, RequestCorrect, PTL

\* Nothing is lost on the way: while the job accepts pages and the connection is
\* up, a request that AddPage has sent, or its page, is in one of the channels, on
\* a stream, or in the hands of a goroutine, unless the mux found its response to
\* be of another type or the host's loop drained it at the end of the idle time.
THEOREM NothingLostCorrect == Spec => []NothingLost
<1>1. TypeOK /\ RequestInv => NothingLost
  <2> SUFFICES ASSUME TypeOK, RequestInv PROVE NothingLost
    OBVIOUS
  <2>1. Accepted = ClientPages \o pageStream \o sendChan \o page \o queue \o feeding
                   \o reqChan
    BY AcceptedRow
  <2>2. \A s : Coming(s) = addStream[s] \o adding[s]
    BY DEF Coming, Join
  <2>3. NothingLost <=> Safe
    BY <2>1, <2>2 DEF NothingLost, Safe, Open
  <2> QED
    BY <2>3 DEF RequestInv
<1> QED
  BY <1>1, TypeCorrect, RequestCorrect, PTL
=============================================================================
