------------------------------- MODULE Session -------------------------------
(***************************************************************************)
(* One job of a client from end to end: the Go client (GoClient) and the   *)
(* calls of the server that it uses (worker.go), around the job that       *)
(* fetches its pages (job.go; JobRun has the job in detail).               *)
(*                                                                         *)
(*   listener   AddDomainAndListen, after addNewJob                        *)
(*   adder[s]   AddPages on the stream s                                   *)
(*   lister     GetAnalyzedURLs                                            *)
(*   feeder     the goroutine of RunJob that reads reqChan                 *)
(*   task       the handler of the page that is being fetched              *)
(*                                                                         *)
(* The queue hands out one page at a time, and has no bound; it stands for *)
(* fetchbot's queue and the loop of one host.  A page that was asked for   *)
(* and fetched is shipped, if it has the job's Mimetype, and its links     *)
(* lead to nothing new.  What the races of the queue's end can break in    *)
(* the job itself is in JobRun; here they only lose requests.              *)
(*                                                                         *)
(* Jobs with NoFollow, newWorkerJob's in a cluster among them, are like    *)
(* this with Analyzed FALSE, as they list no links; with Analyzed TRUE it  *)
(* is a job that lists links and follows none of them.  The option         *)
(* CancelOnDisconnect is off.                                              *)
(***************************************************************************)
EXTENDS GoClient

CONSTANTS
  BadRequests,  \* those whose URL may be one that does not parse
  ReqCap,       \* capacity of reqChan (1000 in the code)
  SendCap,      \* capacity of sendChan (1000 in the code)
  ListCap       \* capacity of analyzedURLChan (100 in the code)

ASSUME SessionAssumption ==
  /\ BadRequests \subseteq Requests
  /\ ReqCap \in Nat \ {0} /\ SendCap \in Nat \ {0} /\ ListCap \in Nat \ {0}

VARIABLES
  listener, registered, doneClosed, sendChan, sendClosed, stopChan, connected,
  adder, adding, reqChan, feeder, queue, qClosed, task, page,
  feeding,             \* the request that the feeder is about to queue
  idleOver,            \* the idle time has ended, and a goroutine calls Close
  dropped,             \* requests that nobody answers, though the job accepted them
  lister,              \* GetAnalyzedURLs
  listsOn,             \* subscriber.analyzedURLConnected
  listsMade,           \* subscriber.analyzedURLChan and its stop channel are set
  listChan,            \* analyzedURLChan
  listStop             \* stopAnalyzedURLChan has a token

shipVars   == <<listener, sendChan, sendClosed, stopChan, connected>>
feedVars   == <<adder, adding, reqChan, feeder, feeding>>
queueVars  == <<registered, doneClosed, queue, qClosed, idleOver, dropped>>
taskVars   == <<task, page>>
listerVars == <<lister, listsOn, listsMade, listChan, listStop>>
serverVars == <<shipVars, feedVars, queueVars, taskVars, listerVars>>
vars       == <<clientVars, wireVars, serverVars>>

ShipTypeOK ==
  /\ listener \in {"off", "range", "ended", "lost"}
  /\ sendChan \in Seq(Requests) /\ Len(sendChan) <= SendCap
  /\ sendClosed \in BOOLEAN
  /\ stopChan \in 0..1 /\ connected \in BOOLEAN

FeedTypeOK ==
  /\ adder \in [Requests -> {"first", "push", "recv", "ended"}]
  /\ adding \in [Requests -> Seq(Requests)]
  /\ \A s \in Requests : Len(adding[s]) <= 1
  /\ reqChan \in Seq(Requests) /\ Len(reqChan) <= ReqCap
  /\ feeder \in {"off", "run", "push", "exited"}
  /\ feeding \in Seq(Requests) /\ Len(feeding) <= 1

QueueTypeOK ==
  /\ registered \in BOOLEAN /\ doneClosed \in BOOLEAN
  /\ queue \in Seq(Requests) /\ qClosed \in BOOLEAN
  /\ idleOver \in BOOLEAN /\ dropped \subseteq Requests

TaskTypeOK ==
  /\ task \in {"none", "fetch", "lists", "hung", "send", "select"}
  /\ page \in Seq(Requests) /\ Len(page) <= 1

ListerTypeOK ==
  /\ lister \in {"off", "mark", "make", "range", "ended"}
  /\ listsOn \in BOOLEAN /\ listsMade \in BOOLEAN
  /\ listChan \in Seq(Requests) /\ Len(listChan) <= ListCap
  /\ listStop \in BOOLEAN

TypeOK ==
  /\ ClientTypeOK /\ WireTypeOK
  /\ ShipTypeOK /\ FeedTypeOK /\ QueueTypeOK /\ TaskTypeOK /\ ListerTypeOK

Init ==
  /\ ClientInit
  /\ listener = "off" /\ registered = FALSE /\ doneClosed = FALSE
  /\ sendChan = <<>> /\ sendClosed = FALSE /\ stopChan = 0 /\ connected = TRUE
  /\ adder = [s \in Requests |-> "first"] /\ adding = [s \in Requests |-> <<>>]
  /\ reqChan = <<>> /\ feeder = "off" /\ feeding = <<>>
  /\ queue = <<>> /\ qClosed = FALSE /\ idleOver = FALSE /\ dropped = {}
  /\ task = "none" /\ page = <<>>
  /\ lister = "off" /\ listsOn = FALSE /\ listsMade = FALSE
  /\ listChan = <<>> /\ listStop = FALSE

-----------------------------------------------------------------------------
(* AddDomainAndListen.                                                     *)

\* addNewJob: the options are valid, the job runs and the client is told; or
\* one of them is not, and the client gets the error.
AddNewJob ==
  /\ job = "subscribe" /\ listener = "off"
  /\ \/ /\ subscription' = "ok"
        /\ registered' = TRUE
        /\ listener' = "range" /\ feeder' = "run"
        /\ UNCHANGED pageEnd
     \/ /\ "refused" \in Events
        /\ subscription' = "error"
        /\ listener' = "ended" /\ pageEnd' = "broken"
        /\ UNCHANGED <<registered, feeder>>
  /\ UNCHANGED <<clientVars, pageStream, addWire, urlWire, doneClosed, sendChan,
                 sendClosed, stopChan, connected, adder, adding, reqChan, feeding,
                 queue, qClosed, idleOver, dropped, taskVars, listerVars>>

\* The listener takes a page off sendChan and sends it to the client.
StreamPage ==
  /\ listener = "range"
  /\ sendChan # <<>>
  /\ pageEnd = "open"
  /\ Len(pageStream) < Window
  /\ pageStream' = Append(pageStream, Head(sendChan))
  /\ sendChan' = Tail(sendChan)
  /\ UNCHANGED <<clientVars, subscription, pageEnd, addWire, urlWire, listener,
                 sendClosed, stopChan, connected, feedVars, queueVars, taskVars,
                 listerVars>>

\* The send fails: the page is lost, and the job is told.
LoseClient ==
  /\ listener = "range"
  /\ sendChan # <<>>
  /\ pageEnd = "broken"
  /\ sendChan' = Tail(sendChan)
  /\ listener' = "lost"
  /\ stopChan' = 1
  /\ UNCHANGED <<clientVars, wireVars, sendClosed, connected, feedVars, queueVars,
                 taskVars, listerVars>>

\* sendChan is closed and empty: the stream ends.
EndStream ==
  /\ listener = "range"
  /\ sendChan = <<>> /\ sendClosed
  /\ listener' = "ended"
  /\ pageEnd' = (IF pageEnd = "open" THEN "eof" ELSE pageEnd)
  /\ UNCHANGED <<clientVars, subscription, pageStream, addWire, urlWire, sendChan,
                 sendClosed, stopChan, connected, feedVars, queueVars, taskVars,
                 listerVars>>

\* External: the connection breaks, and what is on its way is lost.
Break ==
  /\ "broken" \in Events
  /\ subscription = "ok" /\ pageEnd = "open"
  /\ pageEnd' = "broken"
  /\ pageStream' = <<>> /\ urlStream' = <<>>
  /\ addOpen' = {} /\ addStream' = [s \in Requests |-> <<>>]
  /\ adder' = [s \in Requests |-> IF adder[s] = "push" THEN "push" ELSE "ended"]
  /\ UNCHANGED <<clientVars, subscription, urlOpen, shipVars, adding, reqChan,
                 feeder, feeding, queueVars, taskVars, listerVars>>

-----------------------------------------------------------------------------
(* AddPages, and the goroutine that reads reqChan.                         *)

\* AddPages returns: what is on its way is not read any more.
EndAddPages(s) ==
  /\ adder' = [adder EXCEPT ![s] = "ended"]
  /\ addOpen' = addOpen \ {s}
  /\ addStream' = [addStream EXCEPT ![s] = <<>>]
  /\ UNCHANGED adding

\* A request comes in; it waits for room in reqChan.
TakeRequest(s) ==
  /\ adder' = [adder EXCEPT ![s] = "push"]
  /\ adding' = [adding EXCEPT ![s] = <<Head(addStream[s])>>]
  /\ addStream' = [addStream EXCEPT ![s] = Tail(@)]
  /\ UNCHANGED addOpen

\* With the first request the job is looked up; with the later ones, whether it
\* is done.
AddPagesRecv(s) ==
  /\ s \in addOpen /\ addStream[s] # <<>>
  /\ \/ adder[s] = "first" /\ (IF registered THEN TakeRequest(s) ELSE EndAddPages(s))
     \/ adder[s] = "recv"  /\ (IF ~doneClosed THEN TakeRequest(s) ELSE EndAddPages(s))
  /\ UNCHANGED <<clientVars, pageWire, urlWire, shipVars, reqChan, feeder, feeding,
                 queueVars, taskVars, listerVars>>

\* A slip: AddPages takes one request and returns.
AddPagesPushOnce(s) ==
  /\ adder[s] = "push"
  /\ Len(reqChan) < ReqCap
  /\ reqChan' = reqChan \o adding[s]
  /\ adding' = [adding EXCEPT ![s] = <<>>]
  /\ adder' = [adder EXCEPT ![s] = "ended"]
  /\ UNCHANGED <<clientVars, wireVars, shipVars, feeder, feeding, queueVars,
                 taskVars, listerVars>>

AddPagesPush(s) ==
  /\ adder[s] = "push"
  /\ Len(reqChan) < ReqCap
  /\ reqChan' = reqChan \o adding[s]
  /\ adding' = [adding EXCEPT ![s] = <<>>]
  /\ adder' = [adder EXCEPT ![s] = IF s \in addOpen THEN "recv" ELSE "ended"]
  /\ UNCHANGED <<clientVars, wireVars, shipVars, feeder, feeding, queueVars,
                 taskVars, listerVars>>

\* A request becomes a command for the queue; one that cannot be parsed, or a
\* queue that Send finds closed, ends the goroutine.
FeedPage ==
  /\ feeder = "run"
  /\ reqChan # <<>>
  /\ reqChan' = Tail(reqChan)
  /\ \/ /\ Head(reqChan) \in BadRequests \/ qClosed
        /\ feeder' = "exited" /\ UNCHANGED feeding
     \/ /\ ~qClosed
        /\ feeder' = "push" /\ feeding' = <<Head(reqChan)>>
  /\ UNCHANGED <<clientVars, wireVars, shipVars, adder, adding, queueVars, taskVars,
                 listerVars>>

\* Send goes on to push the command.  If the queue was closed after it looked,
\* the command may come too late for processQueue, and is lost.
FeedPush ==
  /\ feeder = "push"
  /\ \/ ~sendClosed /\ ~doneClosed /\ queue' = queue \o feeding
     \/ qClosed /\ UNCHANGED queue
  /\ feeder' = "run" /\ feeding' = <<>>
  /\ UNCHANGED <<clientVars, wireVars, shipVars, adder, adding, reqChan, registered,
                 doneClosed, qClosed, idleOver, dropped, taskVars, listerVars>>

FeederDone ==
  /\ feeder = "run"
  /\ doneClosed
  /\ feeder' = "exited"
  /\ UNCHANGED <<clientVars, wireVars, shipVars, adder, adding, reqChan, feeding,
                 queueVars, taskVars, listerVars>>

-----------------------------------------------------------------------------
(* The job: pages are fetched, their links listed, and shipped.            *)

\* A slip: the page stays in the queue until it is shipped.
FetchPageKept ==
  /\ task = "none"
  /\ queue # <<>>
  /\ page' = <<Head(queue)>>
  /\ task' = "fetch"
  /\ UNCHANGED <<clientVars, wireVars, shipVars, feedVars, queueVars, listerVars>>

FetchPage ==
  /\ task = "none"
  /\ queue # <<>>
  /\ page' = <<Head(queue)>>
  /\ queue' = Tail(queue)
  /\ task' = "fetch"
  /\ UNCHANGED <<clientVars, wireVars, shipVars, feedVars, registered, doneClosed,
                 qClosed, idleOver, dropped, listerVars>>

\* The end of enqueueLinks.  The channels of its select are those that the
\* subscriber has by now: without them it waits for ever.
AnalyzeLinks ==
  /\ task = "fetch"
  /\ task' = IF ~listsOn \/ ~connected THEN "send"
             ELSE IF listsMade THEN "lists" ELSE "hung"
  /\ UNCHANGED <<clientVars, wireVars, shipVars, feedVars, queueVars, page,
                 listerVars>>

SendList ==
  /\ task = "lists"
  /\ \/ /\ Len(listChan) < ListCap
        /\ listChan' = listChan \o page
        /\ UNCHANGED <<listsOn, listStop>>
     \/ /\ listStop
        /\ listStop' = FALSE /\ listsOn' = FALSE
        /\ UNCHANGED listChan
  /\ task' = "send"
  /\ UNCHANGED <<clientVars, wireVars, shipVars, feedVars, queueVars, page, lister,
                 listsMade>>

\* The handler is over, and its page is shipped or dropped.
EndTask == task' = "none" /\ page' = <<>>

\* A handler that finds its job done returns at once.
DropPage ==
  /\ task = "fetch"
  /\ doneClosed
  /\ EndTask
  /\ UNCHANGED <<clientVars, wireVars, shipVars, feedVars, queueVars, listerVars>>

\* A response of another type than the job's has no handler but the one that
\* does nothing.
IgnoreType ==
  /\ "otherType" \in Events
  /\ task = "fetch"
  /\ dropped' = dropped \union Range(page)
  /\ EndTask
  /\ UNCHANGED <<clientVars, wireVars, shipVars, feedVars, registered, doneClosed,
                 queue, qClosed, idleOver, listerVars>>

\* A slip: doneChan is not looked at again.
SendPageHTMLAnyway ==
  /\ task = "send"
  /\ IF ~connected THEN EndTask ELSE task' = "select" /\ UNCHANGED page
  /\ UNCHANGED <<clientVars, wireVars, shipVars, feedVars, queueVars, listerVars>>

\* sendPageHTML: nobody listens any more, or the job is done ...
SendPageHTML ==
  /\ task = "send"
  /\ IF ~connected \/ doneClosed THEN EndTask ELSE task' = "select" /\ UNCHANGED page
  /\ UNCHANGED <<clientVars, wireVars, shipVars, feedVars, queueVars, listerVars>>

\* ... or the page goes into sendChan, unless the listener tells that it is gone.
ShipPage ==
  /\ task = "select"
  /\ \/ /\ Len(sendChan) < SendCap
        /\ sendChan' = sendChan \o page
        /\ UNCHANGED <<stopChan, connected>>
     \/ /\ stopChan = 1
        /\ stopChan' = 0 /\ connected' = FALSE
        /\ UNCHANGED sendChan
  /\ EndTask
  /\ UNCHANGED <<clientVars, wireVars, listener, sendClosed, feedVars, queueVars,
                 listerVars>>

\* RunJob's canceller: doneChan is closed, and the queue drops what it has.
CancelQueue ==
  /\ registered /\ ~doneClosed
  /\ doneClosed' = TRUE
  /\ queue' = <<>> /\ qClosed' = TRUE
  /\ UNCHANGED <<registered, idleOver, dropped>>

CancelOnStop ==
  /\ stopChan = 1
  /\ stopChan' = 0
  /\ CancelQueue
  /\ UNCHANGED <<clientVars, wireVars, listener, sendChan, sendClosed, connected,
                 feedVars, taskVars, listerVars>>

\* CancelJob looks the job up, and then meets its canceller.
CancelJob ==
  /\ \/ /\ stopCall = "rpc"
        /\ stopCall' = (IF registered THEN "cancel" ELSE "done")
        /\ UNCHANGED queueVars
     \/ /\ stopCall = "cancel"
        /\ stopCall' = "done"
        /\ CancelQueue
  /\ UNCHANGED <<jobVars, runVars, fwdVars, got, listVars, addClient, call,
                 panic, wireVars, shipVars, feedVars, taskVars, listerVars>>

\* The loop of the host ends after MaxIdleTime and starts a goroutine that closes
\* the queue (AutoClose).  What has come to its channel just then it drains
\* unread; what has not got there starts another loop.
IdleTimeout ==
  /\ "idle" \in Events
  /\ registered
  /\ task = "none"
  /\ idleOver' = TRUE
  /\ \E n \in 0..Len(queue) :
       /\ n = 0 \/ "ttlRace" \in Events
       /\ queue' = SubSeq(queue, n + 1, Len(queue))
       /\ dropped' = dropped \union Range(SubSeq(queue, 1, n))
  /\ UNCHANGED <<clientVars, wireVars, shipVars, feedVars, registered, doneClosed,
                 qClosed, taskVars, listerVars>>

\* Close, in that goroutine.
CloseQueue ==
  /\ idleOver /\ ~qClosed
  /\ qClosed' = TRUE
  /\ UNCHANGED <<clientVars, wireVars, shipVars, feedVars, registered, doneClosed,
                 queue, idleOver, dropped, taskVars, listerVars>>

\* A slip: sendChan is closed without waiting for the page in hand.
CloseSendChanEarly ==
  /\ qClosed /\ ~sendClosed
  /\ queue = <<>>
  /\ sendClosed' = TRUE
  /\ UNCHANGED <<clientVars, wireVars, listener, sendChan, stopChan, connected,
                 feedVars, queueVars, taskVars, listerVars>>

\* RunJob returns from Block and closes sendChan, then doneChan.
CloseSendChan ==
  /\ qClosed /\ ~sendClosed
  /\ task = "none" /\ queue = <<>>
  /\ sendClosed' = TRUE
  /\ UNCHANGED <<clientVars, wireVars, listener, sendChan, stopChan, connected,
                 feedVars, queueVars, taskVars, listerVars>>

CloseDoneChan ==
  /\ sendClosed /\ ~doneClosed
  /\ doneClosed' = TRUE
  /\ UNCHANGED <<clientVars, wireVars, shipVars, feedVars, registered, queue,
                 qClosed, idleOver, dropped, taskVars, listerVars>>

\* jobManager forgets a job that is done.
ReapJob ==
  /\ registered /\ doneClosed
  /\ registered' = FALSE
  /\ UNCHANGED <<clientVars, wireVars, shipVars, feedVars, doneClosed, queue,
                 qClosed, idleOver, dropped, taskVars, listerVars>>

-----------------------------------------------------------------------------
(* GetAnalyzedURLs.                                                        *)

GetAnalyzedURLs ==
  /\ urlOpen /\ lister = "off"
  /\ IF registered THEN lister' = "mark" /\ UNCHANGED urlOpen
                   ELSE lister' = "ended" /\ urlOpen' = FALSE
  /\ UNCHANGED <<clientVars, pageWire, addWire, urlStream, shipVars, feedVars,
                 queueVars, taskVars, listsOn, listsMade, listChan, listStop>>

\* The subscriber is marked first, and gets its channels after.
MarkAnalyzed ==
  /\ lister = "mark"
  /\ lister' = "make"
  /\ listsOn' = TRUE
  /\ UNCHANGED <<clientVars, wireVars, shipVars, feedVars, queueVars, taskVars,
                 listsMade, listChan, listStop>>

MakeListChan ==
  /\ lister = "make"
  /\ lister' = "range"
  /\ listsMade' = TRUE
  /\ UNCHANGED <<clientVars, wireVars, shipVars, feedVars, queueVars, taskVars,
                 listsOn, listChan, listStop>>

StreamList ==
  /\ lister = "range"
  /\ listChan # <<>>
  /\ listChan' = Tail(listChan)
  /\ IF pageEnd # "broken"
       THEN /\ Len(urlStream) < Window
            /\ urlStream' = Append(urlStream, Head(listChan))
            /\ UNCHANGED <<lister, listStop>>
       ELSE lister' = "ended" /\ listStop' = TRUE /\ UNCHANGED urlStream
  /\ UNCHANGED <<clientVars, pageWire, addWire, urlOpen, shipVars, feedVars,
                 queueVars, taskVars, listsOn, listsMade>>

-----------------------------------------------------------------------------
Listener == AddNewJob \/ StreamPage \/ LoseClient \/ EndStream

AddPages(s) == AddPagesRecv(s) \/ AddPagesPush(s)

Feeder == FeedPage \/ FeedPush \/ FeederDone

Task == FetchPage \/ DropPage \/ IgnoreType \/ AnalyzeLinks \/ SendList
        \/ SendPageHTML \/ ShipPage

EndJob == CloseSendChan \/ CloseDoneChan \/ ReapJob

Lister == GetAnalyzedURLs \/ MarkAnalyzed \/ MakeListChan \/ StreamList

ServerNext ==
  \/ Listener \/ Feeder \/ Task \/ EndJob \/ Lister
  \/ CancelOnStop \/ CancelJob \/ IdleTimeout \/ CloseQueue \/ Break
  \/ \E s \in Requests : AddPages(s)

Next ==
  /\ ~panic
  /\ \/ ClientNext /\ UNCHANGED serverVars
     \/ ServerNext

Spec == Init /\ [][Next]_vars

\* A step of a goroutine of the client.
Client(A) == A /\ ~panic /\ UNCHANGED serverVars

(***************************************************************************)
(* Goroutines run when they can, of the client and of the server, and the  *)
(* program reads its channels.  It need not ask for a page, nor stop, and  *)
(* connections need not break.                                             *)
(***************************************************************************)
Fairness ==
  /\ WF_vars(Client(Program)) /\ WF_vars(Client(Run)) /\ WF_vars(Client(Forward))
  /\ WF_vars(Client(ListenAnalyzedURLs))
  /\ WF_vars(Client(ReadList)) /\ WF_vars(Client(ReadPage))
  /\ \A r \in Requests : WF_vars(Client(OpenAddPages(r) \/ SendCall(r)))
  /\ WF_vars(Listener /\ ~panic) /\ WF_vars(Feeder /\ ~panic)
  /\ WF_vars(Task /\ ~panic) /\ WF_vars(EndJob /\ ~panic)
  /\ WF_vars(Lister /\ ~panic) /\ WF_vars(CancelJob /\ ~panic)
  /\ WF_vars(CancelOnStop /\ ~panic) /\ WF_vars(CloseQueue /\ ~panic)
  /\ \A s \in Requests : WF_vars(AddPages(s) /\ ~panic)

FairSpec == Spec /\ Fairness

-----------------------------------------------------------------------------
(* What client and server promise together.                                *)

\* Pages that have reached the client.
ClientPages == got \o pageChan \o fwdHeld \o phChan \o held

\* Pages that have been shipped and are not lost.
Shipped ==
  IF pageEnd = "broken" THEN ClientPages ELSE ClientPages \o pageStream \o sendChan

Delivery == INSTANCE PageDelivery WITH
  Pages <- Requests, shipped <- Shipped, up <- pageEnd # "broken"

(***************************************************************************)
(* The goroutines and channels between sendChan and the program deliver    *)
(* the pages in the order in which the job ships them, each once; a break  *)
(* of the connection loses those that have not arrived, and only those.    *)
(***************************************************************************)
Delivers == Delivery!Spec

\* ... and, if the program goes on reading, each page that is not lost arrives.
DeliversAll == Delivery!FairSpec

\* The handler in the select of sendPageHTML.
Shipping == IF task = "select" THEN {"handler"} ELSE {}

\* A job that was refused has not begun.
Life == INSTANCE JobLife WITH
  Shippers <- {"handler"}, shipping <- Shipping, buffered <- Len(sendChan),
  listener <- IF listener = "off" \/ subscription = "error" THEN "range" ELSE listener

(***************************************************************************)
(* The job of a session, of which JobRun has the goroutines, is a job      *)
(* according to JobLife: when it is cancelled, idle or without a client it *)
(* lets in no page too late, drops none that was let in, and closes        *)
(* sendChan and ends the stream in the same order.                         *)
(***************************************************************************)
JobLives == Life!Spec

(***************************************************************************)
(* No page is fetched or delivered twice: of all the requests that the     *)
(* server has taken and the pages it has shipped, no two are the same,     *)
(* although calls may race for the stream they are sent on.                *)
(***************************************************************************)
OneAnswerEach ==
  IsInjective(ClientPages \o pageStream \o sendChan \o page \o queue \o feeding
              \o reqChan)

(***************************************************************************)
(* Nothing else is lost on the way: while the job accepts pages and the    *)
(* connection is up, the request of a call of AddPage that has returned    *)
(* without error, or its page, is on one of the streams or channels, or in *)
(* the hands of a goroutine, even if several streams were opened; unless   *)
(* its response was of another type, or the idle time ended as it came.    *)
(***************************************************************************)
NothingLost ==
  feeder \in {"run", "push"} /\ ~qClosed /\ pageEnd # "broken" =>
    \A r \in Requests : call[r] = "sent" =>
      \/ r \in Range(ClientPages \o pageStream \o sendChan \o page \o queue
                     \o feeding \o reqChan)
      \/ \E s \in Requests : r \in Range(addStream[s] \o adding[s])
      \/ r \in dropped

(***************************************************************************)
(* When run has closed stoppedChan because its stream ended, nothing is    *)
(* left behind: no page is in the hands of the job, on the stream or in    *)
(* run, and all that was shipped waits for the program at the client.      *)
(***************************************************************************)
StoppedIsComplete ==
  stopped /\ pageEnd = "eof" => page \o sendChan \o pageStream \o held = <<>>

(***************************************************************************)
(* AddPage never uses a nil addPagesClient, though calls share it without  *)
(* a lock, provided that they do not overlap or that opening a stream does *)
(* not fail.                                                               *)
(***************************************************************************)
NoNilSend ==
  "noStream" \notin Events \/ (\A q, r \in Requests : Caller[q] = Caller[r]) => ~panic

\* The request has come to the queue.
Taken(r) == r \in Range(ClientPages \o pageStream \o sendChan \o page \o queue)

(***************************************************************************)
(* A page that AddPage has sent comes to the queue, unless the queue is    *)
(* closed or a page with a bad URL has ended the goroutine that takes      *)
(* pages; and one that has come so far arrives at a program that reads on, *)
(* unless its response is of another type, the idle time ends just as it   *)
(* comes, the program calls Stop, or the connection breaks: neither a bad  *)
(* page after it nor the close of the idle queue takes it back.            *)
(***************************************************************************)
PagesArrive ==
  \A r \in Requests :
    /\ call[r] = "sent" ~> \/ Taken(r) \/ r \in dropped
                           \/ qClosed \/ feeder = "exited"
    /\ Taken(r) ~> \/ r \in Range(got) \/ r \in dropped
                  \/ stopCall # "idle" \/ pageEnd = "broken"

(***************************************************************************)
(* The end of the job reaches the client: after Stop, or after the end of  *)
(* the idle time, whatever is on its way, IsAlive becomes false.           *)
(***************************************************************************)
EndIsSeen == qClosed \/ idleOver ~> stopped
=============================================================================
