------------------------------ MODULE GoClient ------------------------------
(***************************************************************************)
(* The Go client of one crawl job (goclient/ideacrawlerclient.go) and the  *)
(* gRPC streams it shares with its server:                                 *)
(*                                                                         *)
(*   job       NewCrawlJob, in the program that uses the client            *)
(*   run       cj.run, which receives the pages and pushes them to phChan  *)
(*   fwd       the goroutine that moves them from phChan to PageChan       *)
(*   listen    listenAnalyzedURLs                                          *)
(*   got       the pages that the program has read off PageChan            *)
(*   call[r]   the call of AddPage or AddJS that asks for the page r       *)
(*   stopCall  a call of Stop                                              *)
(*                                                                         *)
(* A page stands for the request it answers, a list of links for the page  *)
(* they are on.  A value that a goroutine has in hand between two channels *)
(* is a sequence of at most one.  gRPC is external: a stream keeps at most *)
(* Window messages, Send waits for room, and a stream that breaks loses    *)
(* what it holds.  Session adds the server and composes the two.           *)
(***************************************************************************)
EXTENDS Integers, Sequences, Functions

CONSTANTS
  Requests,    \* pages that the program asks for, each with one call
  Caller,      \* the goroutine of the program that makes each call
  JsRequests,  \* those asked for with AddJS
  NoStream,    \* the nil addPagesClient
  Analyzed,    \* spec.useAnalyzedURLChan
  PhCap,       \* capacity of phChan (1000 in the code)
  PageCap,     \* capacity of PageChan and AnalyzedURLChan (100 in the code)
  Window,      \* messages that a gRPC stream keeps
  Events       \* what the environment may do in this instance

AllEvents ==
  { "refused",   \* the server does not accept the job
    "noStream",  \* opening a stream of AddPages fails
    "broken",    \* the stream of pages breaks
    "stop",      \* the program calls Stop
    "idle",      \* MaxIdleTime passes without work
    "ttlRace",   \* ... and pages come just then, which are dropped unread
    "otherType" }  \* a response is not of the Mimetype of the job

ASSUME ClientAssumption ==
  /\ NoStream \notin Requests
  /\ JsRequests \subseteq Requests
  /\ DOMAIN Caller = Requests
  /\ Analyzed \in BOOLEAN
  /\ PhCap \in Nat \ {0} /\ PageCap \in Nat \ {0} /\ Window \in Nat \ {0}
  /\ Events \subseteq AllEvents

VARIABLES
  job, run, started, stopped, held, phChan, phClosed, fwd, fwdHeld, pageChan,
  got, listen, listHeld, urlChan, addClient, call, stopCall,
  panic,
  subscription,  \* the first message on the stream of pages
  pageStream,    \* AddDomainAndListen: pages on their way
  pageEnd,       \* ... and how that stream has ended
  addOpen,       \* AddPages: streams that are open, named by their first call
  addStream,     \* ... and requests on their way
  urlOpen,       \* GetAnalyzedURLs has been called
  urlStream      \* ... and lists on their way

jobVars    == <<job, started, stopped>>
runVars    == <<run, held, phChan, phClosed>>
fwdVars    == <<fwd, fwdHeld, pageChan>>
listVars   == <<listen, listHeld, urlChan>>
callVars   == <<addClient, call, stopCall, panic>>
pageWire   == <<subscription, pageStream, pageEnd>>
addWire    == <<addOpen, addStream>>
urlWire    == <<urlOpen, urlStream>>
clientVars == <<jobVars, runVars, fwdVars, got, listVars, callVars>>
wireVars   == <<pageWire, addWire, urlWire>>

CallStates == {"idle", "open", "send", "sent", "refused", "failed"}

ClientTypeOK ==
  /\ job \in {"new", "subscribe", "sleep", "ready", "failed"}
  /\ run \in {"off", "start", "analyzed", "recv", "push", "close", "stop",
              "exited"}
  /\ started \in BOOLEAN /\ stopped \in BOOLEAN
  /\ held \in Seq(Requests) /\ Len(held) <= 1
  /\ phChan \in Seq(Requests) /\ Len(phChan) <= PhCap
  /\ phClosed \in BOOLEAN
  /\ fwd \in {"off", "sleep", "range", "push", "exited"}
  /\ fwdHeld \in Seq(Requests) /\ Len(fwdHeld) <= 1
  /\ pageChan \in Seq(Requests) /\ Len(pageChan) <= PageCap
  /\ got \in Seq(Requests)
  /\ listen \in {"off", "recv", "push", "exited"}
  /\ listHeld \in Seq(Requests) /\ Len(listHeld) <= 1
  /\ urlChan \in Seq(Requests) /\ Len(urlChan) <= PageCap
  /\ addClient \in Requests \union {NoStream}
  /\ call \in [Requests -> CallStates]
  /\ stopCall \in {"idle", "rpc", "cancel", "done"}
  /\ panic \in BOOLEAN

WireTypeOK ==
  /\ subscription \in {"none", "ok", "error"}
  /\ pageStream \in Seq(Requests) /\ Len(pageStream) <= Window
  /\ pageEnd \in {"open", "eof", "broken"}
  /\ addOpen \subseteq Requests
  /\ addStream \in [Requests -> Seq(Requests)]
  /\ urlOpen \in BOOLEAN
  /\ urlStream \in Seq(Requests) /\ Len(urlStream) <= Window

ClientInit ==
  /\ job = "new" /\ run = "off" /\ started = FALSE /\ stopped = FALSE
  /\ held = <<>> /\ phChan = <<>> /\ phClosed = FALSE
  /\ fwd = "off" /\ fwdHeld = <<>> /\ pageChan = <<>>
  /\ got = <<>>
  /\ listen = "off" /\ listHeld = <<>> /\ urlChan = <<>>
  /\ addClient = NoStream /\ call = [r \in Requests |-> "idle"]
  /\ stopCall = "idle" /\ panic = FALSE
  /\ subscription = "none" /\ pageStream = <<>> /\ pageEnd = "open"
  /\ addOpen = {} /\ addStream = [r \in Requests |-> <<>>]
  /\ urlOpen = FALSE /\ urlStream = <<>>

-----------------------------------------------------------------------------
(* NewCrawlJob and run.                                                    *)

\* NewCrawlJob calls AddDomainAndListen and waits for its first message ...
NewCrawlJob ==
  /\ job = "new"
  /\ job' = "subscribe"
  /\ UNCHANGED <<started, stopped, runVars, fwdVars, got, listVars, callVars,
                 wireVars>>

\* ... which starts run, or is an error.
RecvSubscription ==
  /\ job = "subscribe"
  /\ subscription # "none"
  /\ IF subscription = "ok" THEN job' = "sleep" /\ run' = "start"
                            ELSE job' = "failed" /\ UNCHANGED run
  /\ UNCHANGED <<started, stopped, held, phChan, phClosed, fwdVars, got,
                 listVars, callVars, wireVars>>

\* NewCrawlJob returns after its sleep.
ReturnJob ==
  /\ job = "sleep"
  /\ job' = "ready"
  /\ UNCHANGED <<started, stopped, runVars, fwdVars, got, listVars, callVars,
                 wireVars>>

RunStart ==
  /\ run = "start"
  /\ started' = TRUE
  /\ run' = "analyzed"
  /\ UNCHANGED <<job, stopped, held, phChan, phClosed, fwdVars, got, listVars,
                 callVars, wireVars>>

\* initAnalyzedURL, and the goroutine that forwards pages.
InitAnalyzedURL ==
  /\ run = "analyzed"
  /\ run' = "recv"
  /\ fwd' = "sleep"
  /\ IF Analyzed THEN listen' = "recv" /\ urlOpen' = TRUE
                 ELSE UNCHANGED <<listen, urlOpen>>
  /\ UNCHANGED <<jobVars, held, phChan, phClosed, fwdHeld, pageChan, got,
                 listHeld, urlChan, callVars, pageWire, addWire,
                 urlStream>>

RecvPage ==
  /\ run = "recv"
  /\ pageStream # <<>>
  /\ held' = <<Head(pageStream)>>
  /\ pageStream' = Tail(pageStream)
  /\ run' = "push"
  /\ UNCHANGED <<jobVars, phChan, phClosed, fwdVars, got, listVars, callVars,
                 subscription, pageEnd, addWire, urlWire>>

\* A slip: run does not wait for room in phChan.
PushPageUnbounded ==
  /\ run = "push"
  /\ phChan' = phChan \o held
  /\ held' = <<>>
  /\ run' = "recv"
  /\ UNCHANGED <<jobVars, phClosed, fwdVars, got, listVars, callVars, wireVars>>

\* A slip: a page that finds phChan full is dropped.
PushPageOrDrop ==
  /\ run = "push"
  /\ phChan' = (IF Len(phChan) < PhCap THEN phChan \o held ELSE phChan)
  /\ held' = <<>>
  /\ run' = "recv"
  /\ UNCHANGED <<jobVars, phClosed, fwdVars, got, listVars, callVars, wireVars>>

PushPage ==
  /\ run = "push"
  /\ Len(phChan) < PhCap
  /\ phChan' = phChan \o held
  /\ held' = <<>>
  /\ run' = "recv"
  /\ UNCHANGED <<jobVars, phClosed, fwdVars, got, listVars, callVars, wireVars>>

\* A slip: run leaves its loop on an error only.
RecvEndOnError ==
  /\ run = "recv"
  /\ pageStream = <<>>
  /\ pageEnd = "broken"
  /\ run' = "close"
  /\ UNCHANGED <<jobVars, held, phChan, phClosed, fwdVars, got, listVars,
                 callVars, wireVars>>

\* EOF, or an error: run leaves its loop.
RecvEnd ==
  /\ run = "recv"
  /\ pageStream = <<>>
  /\ pageEnd # "open"
  /\ run' = "close"
  /\ UNCHANGED <<jobVars, held, phChan, phClosed, fwdVars, got, listVars,
                 callVars, wireVars>>

\* The deferred calls of run: first phChan is closed, then stoppedChan.
ClosePhChan ==
  /\ run = "close"
  /\ phClosed' = TRUE
  /\ run' = "stop"
  /\ UNCHANGED <<jobVars, held, phChan, fwdVars, got, listVars, callVars,
                 wireVars>>

CloseStoppedChan ==
  /\ run = "stop"
  /\ stopped' = TRUE
  /\ run' = "exited"
  /\ UNCHANGED <<job, started, held, phChan, phClosed, fwdVars, got, listVars,
                 callVars, wireVars>>

-----------------------------------------------------------------------------
(* The forwarding goroutine, the lists of links, and the reader.           *)

FwdWake ==
  /\ fwd = "sleep"
  /\ fwd' = "range"
  /\ UNCHANGED <<jobVars, runVars, fwdHeld, pageChan, got, listVars, callVars,
                 wireVars>>

FwdTake ==
  /\ fwd = "range"
  /\ phChan # <<>>
  /\ fwdHeld' = <<Head(phChan)>>
  /\ phChan' = Tail(phChan)
  /\ fwd' = "push"
  /\ UNCHANGED <<jobVars, run, held, phClosed, pageChan, got, listVars,
                 callVars, wireVars>>

FwdPush ==
  /\ fwd = "push"
  /\ Len(pageChan) < PageCap
  /\ pageChan' = pageChan \o fwdHeld
  /\ fwdHeld' = <<>>
  /\ fwd' = "range"
  /\ UNCHANGED <<jobVars, runVars, got, listVars, callVars, wireVars>>

\* A slip: the goroutine ends when phChan is closed, whatever it still holds.
FwdExitEarly ==
  /\ fwd = "range"
  /\ phClosed
  /\ fwd' = "exited"
  /\ UNCHANGED <<jobVars, runVars, fwdHeld, pageChan, got, listVars, callVars,
                 wireVars>>

\* The range over phChan ends when it is closed and empty; PageChan stays open.
FwdExit ==
  /\ fwd = "range"
  /\ phChan = <<>> /\ phClosed
  /\ fwd' = "exited"
  /\ UNCHANGED <<jobVars, runVars, fwdHeld, pageChan, got, listVars, callVars,
                 wireVars>>

\* listenAnalyzedURLs.
ListenRecv ==
  /\ listen = "recv"
  /\ urlStream # <<>>
  /\ listHeld' = <<Head(urlStream)>>
  /\ urlStream' = Tail(urlStream)
  /\ listen' = "push"
  /\ UNCHANGED <<jobVars, runVars, fwdVars, got, urlChan, callVars,
                 pageWire, addWire, urlOpen>>

ListenPush ==
  /\ listen = "push"
  /\ Len(urlChan) < PageCap
  /\ urlChan' = urlChan \o listHeld
  /\ listHeld' = <<>>
  /\ listen' = "recv"
  /\ UNCHANGED <<jobVars, runVars, fwdVars, got, callVars, wireVars>>

ListenEnd ==
  /\ listen = "recv"
  /\ urlStream = <<>>
  /\ pageEnd = "broken" \/ ~urlOpen
  /\ listen' = "exited"
  /\ UNCHANGED <<jobVars, runVars, fwdVars, got, listHeld, urlChan,
                 callVars, wireVars>>

ReadList ==
  /\ urlChan # <<>>
  /\ urlChan' = Tail(urlChan)
  /\ UNCHANGED <<jobVars, runVars, fwdVars, got, listen, listHeld, callVars,
                 wireVars>>

\* IsAlive: startedChan is closed, and stoppedChan is not.
IsAlive == started /\ ~stopped

\* The program reads a page off PageChan.
ReadPage ==
  /\ job = "ready"
  /\ pageChan # <<>>
  /\ got' = Append(got, Head(pageChan))
  /\ pageChan' = Tail(pageChan)
  /\ UNCHANGED <<jobVars, runVars, fwd, fwdHeld, listVars, callVars, wireVars>>

-----------------------------------------------------------------------------
(* AddPage, AddJS and Stop.                                                *)

\* A goroutine makes one call at a time.
Free(g) == \A r \in Requests : Caller[r] = g => call[r] \notin {"open", "send"}

\* The beginning of a call: the job is alive, and a stream may be there.
BeginCall(r) ==
  /\ job = "ready"
  /\ call[r] = "idle" /\ Free(Caller[r])
  /\ call' = [call EXCEPT ![r] = IF ~IsAlive THEN "refused"
                                 ELSE IF addClient = NoStream THEN "open"
                                 ELSE "send"]
  /\ UNCHANGED <<jobVars, runVars, fwdVars, got, listVars, addClient, stopCall,
                 panic, wireVars>>

\* A slip: the stream that another call has opened meanwhile is closed.
OpenAddPagesInstead(r) ==
  /\ call[r] = "open"
  /\ addClient' = r
  /\ addOpen' = {r}
  /\ addStream' = [s \in Requests |-> <<>>]
  /\ call' = [call EXCEPT ![r] = "send"]
  /\ UNCHANGED <<jobVars, runVars, fwdVars, got, listVars, stopCall, panic,
                 pageWire, urlWire>>

\* A slip: the error of AddPages is not looked at.
OpenAddPagesUnchecked(r) ==
  /\ call[r] = "open"
  /\ \/ addClient' = r /\ addOpen' = addOpen \union {r}
     \/ "noStream" \in Events /\ UNCHANGED <<addClient, addOpen>>
  /\ call' = [call EXCEPT ![r] = "send"]
  /\ UNCHANGED <<jobVars, runVars, fwdVars, got, listVars, stopCall, panic,
                 pageWire, addStream, urlWire>>

\* Without one a stream is opened; concurrent calls may each open their own.
OpenAddPages(r) ==
  /\ call[r] = "open"
  /\ \/ /\ addClient' = r
        /\ addOpen' = addOpen \union {r}
        /\ call' = [call EXCEPT ![r] = "send"]
     \/ /\ "noStream" \in Events
        /\ addClient' = NoStream
        /\ call' = [call EXCEPT ![r] = "failed"]
        /\ UNCHANGED addOpen
  /\ UNCHANGED <<jobVars, runVars, fwdVars, got, listVars, stopCall, panic,
                 pageWire, addStream, urlWire>>

\* The request goes onto the stream that addPagesClient names by now.
SendRequest(r) ==
  IF addClient = NoStream
    THEN panic' = TRUE /\ UNCHANGED <<addClient, call, addStream>>
    ELSE /\ UNCHANGED <<panic, addClient>>
         /\ IF addClient \in addOpen
              THEN /\ Len(addStream[addClient]) < Window
                   /\ addStream' = [addStream EXCEPT ![addClient] = Append(@, r)]
                   /\ call' = [call EXCEPT ![r] = "sent"]
              ELSE /\ call' = [call EXCEPT ![r] = "failed"]
                   /\ UNCHANGED addStream

SendCall(r) ==
  /\ call[r] = "send"
  /\ SendRequest(r)
  /\ UNCHANGED <<jobVars, runVars, fwdVars, got, listVars, stopCall, pageWire,
                 addOpen, urlWire>>

CallStep(r) == BeginCall(r) \/ OpenAddPages(r) \/ SendCall(r)

AddPage(r) == r \notin JsRequests /\ CallStep(r)

AddJS(r) == r \in JsRequests /\ CallStep(r)

\* Stop: CancelJob is called if the job seems alive, and its result ignored.
Stop ==
  /\ "stop" \in Events
  /\ job = "ready" /\ stopCall = "idle"
  /\ stopCall' = (IF IsAlive THEN "rpc" ELSE "done")
  /\ UNCHANGED <<jobVars, runVars, fwdVars, got, listVars, addClient, call,
                 panic, wireVars>>

Run == RunStart \/ InitAnalyzedURL \/ RecvPage \/ PushPage \/ RecvEnd
       \/ ClosePhChan \/ CloseStoppedChan

Forward == FwdWake \/ FwdTake \/ FwdPush \/ FwdExit

ListenAnalyzedURLs == ListenRecv \/ ListenPush \/ ListenEnd

Program == NewCrawlJob \/ RecvSubscription \/ ReturnJob

ClientNext ==
  \/ Program \/ Run \/ Forward \/ ListenAnalyzedURLs \/ ReadList \/ ReadPage \/ Stop
  \/ \E r \in Requests : AddPage(r) \/ AddJS(r)
=============================================================================
