------------------------------- MODULE JobRun -------------------------------
(***************************************************************************)
(* One crawl job of an ideacrawler server, from addNewJob to the end of    *)
(* RunJob (job.go), with the goroutines that share its channels:           *)
(*                                                                         *)
(*   main       RunJob itself: set up, seed, q.Block(), deferred teardown  *)
(*   canceller  the "handle cancel requests" goroutine of RunJob           *)
(*   pages      the goroutine that turns AddPages requests into commands   *)
(*   task[h]    the fetch and the handler of a command of host h           *)
(*   listener   the AddDomainAndListen call that streams pages to a client *)
(*   rpc[c]     a CancelJob call                                           *)
(*   closing    the calls of q.Close(), by q.Cancel() and by the host      *)
(*              loops of the fetchbot that find themselves the last one at *)
(*              the end of their idle time (AutoClose)                     *)
(*                                                                         *)
(* cancelChan is unbuffered, so its sends are joint steps of a sender and  *)
(* the canceller; stopChan and sendChan are buffered and kept as counts;   *)
(* doneChan carries nothing, it is only ever closed.  The fetchbot queue   *)
(* is modelled by what RunJob relies on: Send looks whether the queue is   *)
(* closed and then pushes to a channel, processQueue hands commands out to *)
(* one loop per host until it reads the nil that Close pushes, a loop runs *)
(* one command at a time, and Close waits for processQueue and the loops.  *)
(* An unrecovered panic stops the whole process, so it stops every action  *)
(* here.                                                                   *)
(***************************************************************************)
EXTENDS Integers, FiniteSets

CONSTANTS
  Hosts,                  \* hosts that commands of this job are sent to
  Cancels,                \* CancelJob calls that clients make for this job
  Events,                 \* what the environment may do in this instance
  Seeded,                 \* opts.SeedUrl is not empty
  Login,                  \* how the HTTP client logs in before crawling
  CancelOnDisconnect,     \* the option of that name
  ThreadsPerSite,         \* the option of that name
  MaxConcurrentRequests,  \* the option of that name: weight of the semaphore
  SendCap,                \* capacity of subscriber.sendChan (1000 in the code)
  MaxCmds                 \* bound: commands sent to the queue after the seed

AllEvents ==
  { "loggerFails",   \* os.Create of the job's log file fails
    "loginError",    \* a request or an XPath of the login fails
    "loginRejected", \* the page after login fails LoginSuccessCheck
    "badSeed",       \* the seed URL parses, but has no host
    "addPage",       \* clients call AddPages
    "links",         \* NoFollow is off: pages have links to follow
    "head",          \* HEAD commands: CheckContent, or an AddPages request
    "idle",          \* a host stays idle for WorkerIdleTTL
    "ttlRace",       \* a command comes in just as that time is over
    "ifaceGone",     \* the interface named by NetworkIface is missing
    "loggedOut",     \* a page fails the check of CheckLoginAfterEachPage
    "disconnect" }   \* a send on the client's stream fails

ASSUME JobAssumption ==
  /\ IsFiniteSet(Hosts) /\ Hosts # {} /\ "cancel" \notin Hosts
  /\ Events \subseteq AllEvents
  /\ Seeded \in BOOLEAN
  /\ Login \in {"none", "direct", "chrome"}
  /\ CancelOnDisconnect \in BOOLEAN
  /\ ThreadsPerSite \in Nat
  /\ MaxConcurrentRequests \in Int
  /\ SendCap \in Nat \ {0}
  /\ MaxCmds \in Nat

VARIABLES
  main,        \* control state of RunJob
  login,       \* what LoginSuccessCheck says, if it is asked
  canceller,   \* control state of the cancel goroutine
  pages,       \* control state of the AddPages goroutine
  closing,     \* control state of each call of q.Close()
  doneClosed,  \* j.doneChan is closed
  qCancelled,  \* q.cancelled is closed
  qClosed,     \* q.closed is closed
  qDone,       \* q.done is closed
  pq,          \* control state of processQueue
  late,        \* commands left in q.ch after processQueue has gone
  loops,       \* hosts whose processChan goroutine runs: the count of q.wg
  queued,      \* commands waiting for each host
  issued,      \* commands sent after the seed, up to MaxCmds
  task,        \* control state of the command a host is working on
  after,       \* what the handler does once sendPageHTML returns
  sendBuf,     \* pages buffered in sendChan
  sendClosed,  \* sendChan is closed
  stopChan,    \* tokens in stopChan
  connected,   \* subscriber.connected
  listener,    \* control state of AddDomainAndListen
  registered,  \* the job is in s.jobs
  rpc,         \* control state of each CancelJob call
  panic        \* what the process died of, or "none"

queueVars == <<qCancelled, qClosed, qDone, pq, late, loops, queued, issued>>
cmdVars   == <<task, after, queued, issued>>
pageVars  == <<sendBuf, sendClosed, stopChan, connected, listener>>
rpcVars   == <<registered, rpc>>
vars == <<main, login, canceller, pages, closing, doneClosed, qCancelled,
          qClosed, qDone, pq, late, loops, queued, issued, task, after, sendBuf,
          sendClosed, stopChan, connected, listener, registered, rpc, panic>>

\* Who calls Close: q.Cancel(), and the last loop to go, of whichever host.
Closers == {"cancel"} \union Hosts

MainStates == {"logger", "client", "loginPage", "start", "seed",
               "seedPush", "block", "closeSend", "checkDone", "closeDone",
               "exited", "leaked"}

TaskStates == {"none", "acquire", "do", "ifaceCancel", "visitErr", "visit",
               "head", "headPush", "mutex", "links", "push", "send", "select",
               "lostCancel", "logoutCancel"}

TypeOK ==
  /\ main \in MainStates
  /\ login \in {"ok", "rejected"}
  /\ canceller \in {"off", "select", "closeDone", "qCancel", "exited"}
  /\ pages \in {"off", "run", "push", "exited"}
  /\ closing \in [Closers -> {"off", "check", "close", "drain", "exited"}]
  /\ doneClosed \in BOOLEAN
  /\ qCancelled \in BOOLEAN /\ qClosed \in BOOLEAN /\ qDone \in BOOLEAN
  /\ pq \in {"off", "run", "exited"} /\ late \in 0..1
  /\ loops \subseteq Hosts
  /\ queued \in [Hosts -> Nat]
  /\ issued \in 0..MaxCmds
  /\ task \in [Hosts -> TaskStates]
  /\ after \in [Hosts -> {"return", "logoutCancel"}]
  /\ sendBuf \in 0..SendCap
  /\ sendClosed \in BOOLEAN
  /\ stopChan \in 0..1
  /\ connected \in BOOLEAN
  /\ listener \in {"sub", "range", "ended", "lost"}
  /\ registered \in BOOLEAN
  /\ rpc \in [Cancels -> {"idle", "send", "ok", "notFound"}]
  /\ panic \in {"none", "doneClosedTwice", "queueClosedTwice",
                "sendOnClosed", "hostClosed", "nilClient", "nilResponse"}

Init ==
  /\ main = "logger" /\ login = "ok"
  /\ canceller = "off" /\ pages = "off"
  /\ closing = [c \in Closers |-> "off"]
  /\ doneClosed = FALSE
  /\ qCancelled = FALSE /\ qClosed = FALSE /\ qDone = FALSE
  /\ pq = "off" /\ late = 0
  /\ loops = {}
  /\ queued = [h \in Hosts |-> 0] /\ issued = 0
  /\ task = [h \in Hosts |-> "none"]
  /\ after = [h \in Hosts |-> "return"]
  /\ sendBuf = 0 /\ sendClosed = FALSE
  /\ stopChan = 0 /\ connected = TRUE
  /\ listener = "sub"
  /\ registered = TRUE
  /\ rpc = [c \in Cancels |-> "idle"]
  /\ panic = "none"

-----------------------------------------------------------------------------
(* The fetchbot queue, as far as RunJob can tell.                          *)

\* q.Send: nobody has closed the queue yet ...
SendCheck ==
  /\ ~qClosed
  /\ issued < MaxCmds
  /\ issued' = issued + 1

\* ... so push the command.  q.ch holds one command once nobody reads it.
SendPush(h) ==
  IF pq = "run"
    THEN queued' = [queued EXCEPT ![h] = @ + 1] /\ UNCHANGED late
    ELSE late = 0 /\ late' = 1 /\ UNCHANGED queued

\* processQueue starts a loop for a host that has none.
LoopStart(h) ==
  /\ pq = "run"
  /\ h \notin loops
  /\ queued[h] > 0
  /\ ~qCancelled
  /\ loops' = loops \union {h}
  /\ UNCHANGED <<main, login, canceller, pages, closing, doneClosed, qCancelled,
                 qClosed, qDone, pq, late, cmdVars, pageVars, rpcVars, panic>>

\* A slip: the commands of a cancelled queue are not dropped.
QueueExitUndrained ==
  /\ pq = "run"
  /\ qClosed
  /\ \A h \in Hosts \ loops : queued[h] = 0
  /\ pq' = "exited"
  /\ UNCHANGED <<main, login, canceller, pages, closing, doneClosed, qCancelled,
                 qClosed, qDone, late, loops, queued, issued, task, after,
                 pageVars, rpcVars, panic>>

\* processQueue reads the nil that Close pushed after every command it had
\* handed out; a cancelled queue drops the ones that are not handed out.
QueueExit ==
  /\ pq = "run"
  /\ qClosed
  /\ qCancelled \/ \A h \in Hosts \ loops : queued[h] = 0
  /\ pq' = "exited"
  /\ queued' = [h \in Hosts |-> IF h \in loops THEN queued[h] ELSE 0]
  /\ UNCHANGED <<main, login, canceller, pages, closing, doneClosed, qCancelled,
                 qClosed, qDone, late, loops, issued, task, after, pageVars,
                 rpcVars, panic>>

\* A slip: every command gets a goroutine of its own.
LoopFreeAlways(h) == TRUE

\* A loop waits for the command it is running, unless ThreadsPerSite > 1:
\* then the command has a goroutine of its own that nobody waits for.
LoopFree(h) == task[h] = "none" \/ ThreadsPerSite > 1

\* processQueue has closed the host's channel: the loop ends once it has drained
\* its commands, which it runs, or drops if the queue was cancelled.
LoopExit(h) ==
  /\ h \in loops
  /\ LoopFree(h)
  /\ pq = "exited"
  /\ qCancelled \/ queued[h] = 0
  /\ loops' = loops \ {h}
  /\ queued' = [queued EXCEPT ![h] = 0]
  /\ UNCHANGED <<main, login, canceller, pages, closing, doneClosed, qCancelled,
                 qClosed, qDone, pq, late, issued, task, after, pageVars,
                 rpcVars, panic>>

\* A slip: AutoClose is off.
LoopIdleNoClose(h) ==
  /\ "idle" \in Events
  /\ h \in loops
  /\ LoopFree(h)
  /\ queued[h] = 0
  /\ loops' = loops \ {h}
  /\ UNCHANGED <<main, login, canceller, pages, closing, doneClosed, qCancelled,
                 qClosed, qDone, pq, late, cmdVars, pageVars, rpcVars, panic>>

\* The last loop to go closes the queue in a goroutine of its own (AutoClose),
\* which returns at once if the queue is closed.  Bound: a host starts its next
\* Close when its previous one has run.
AutoClose(h) ==
  IF loops = {h} /\ ~qClosed
    THEN closing[h] = "off" /\ closing' = [closing EXCEPT ![h] = "check"]
    ELSE UNCHANGED closing

\* A loop has been idle for WorkerIdleTTL.
LoopIdle(h) ==
  /\ "idle" \in Events
  /\ h \in loops
  /\ LoopFree(h)
  /\ queued[h] = 0
  /\ loops' = loops \ {h}
  /\ AutoClose(h)
  /\ UNCHANGED <<main, login, canceller, pages, doneClosed, qCancelled,
                 qClosed, qDone, pq, late, cmdVars, pageVars, rpcVars, panic>>

\* The same when commands arrive as the timer expires.  The loop drains those
\* in its channel without running them.  One that processQueue still holds gets
\* a new loop, or is sent to the channel that this one has just closed.
LoopIdleRace(h) ==
  /\ {"idle", "ttlRace"} \subseteq Events
  /\ h \in loops
  /\ LoopFree(h)
  /\ queued[h] > 0
  /\ loops' = loops \ {h}
  /\ AutoClose(h)
  /\ \/ queued' = [queued EXCEPT ![h] = 0] /\ UNCHANGED panic
     \/ /\ pq = "run"
        /\ queued' = [queued EXCEPT ![h] = 1]
        /\ panic' \in {panic, "hostClosed"}
  /\ UNCHANGED <<main, login, canceller, pages, doneClosed, qCancelled, qClosed,
                 qDone, pq, late, issued, task, after, pageVars, rpcVars>>

\* q.wg counts processQueue and the loops.
WgZero == pq = "exited" /\ loops = {}

\* Queue.Close: look whether the queue is closed ...
CloseCheck(c) ==
  /\ closing[c] = "check"
  /\ closing' = [closing EXCEPT ![c] = IF qClosed THEN "exited" ELSE "close"]
  /\ UNCHANGED <<main, login, canceller, pages, doneClosed, queueVars, task,
                 after, pageVars, rpcVars, panic>>

\* ... close it ...
CloseMark(c) ==
  /\ closing[c] = "close"
  /\ IF qClosed
       THEN panic' = "queueClosedTwice" /\ UNCHANGED <<closing, qClosed>>
       ELSE /\ qClosed' = TRUE
            /\ closing' = [closing EXCEPT ![c] = "drain"]
            /\ UNCHANGED panic
  /\ UNCHANGED <<main, login, canceller, pages, doneClosed, qCancelled, qDone,
                 pq, late, loops, cmdVars, pageVars, rpcVars>>

\* A slip: Close does not wait for q.wg.
CloseDrainNoWait(c) ==
  /\ closing[c] = "drain"
  /\ qDone' = TRUE
  /\ closing' = [closing EXCEPT ![c] = "exited"]
  /\ UNCHANGED <<main, login, canceller, pages, doneClosed, qCancelled, qClosed,
                 pq, late, loops, cmdVars, pageVars, rpcVars, panic>>

\* ... wait for q.wg, and release the callers of q.Block().
CloseDrain(c) ==
  /\ closing[c] = "drain"
  /\ WgZero
  /\ qDone' = TRUE
  /\ closing' = [closing EXCEPT ![c] = "exited"]
  /\ UNCHANGED <<main, login, canceller, pages, doneClosed, qCancelled, qClosed,
                 pq, late, loops, cmdVars, pageVars, rpcVars, panic>>

-----------------------------------------------------------------------------
(* RunJob.                                                                 *)

\* A failure here returns before the deferred teardown is registered.
SetupJobLogger ==
  /\ main = "logger"
  /\ \/ main' = "client"
     \/ "loggerFails" \in Events /\ main' = "leaked"
  /\ UNCHANGED <<login, canceller, pages, closing, doneClosed, queueVars, task,
                 after, pageVars, rpcVars, panic>>

\* makeHTTPClient*: with a LoginSuccessCheck the outcome is sent as a page.  A
\* request or XPath that fails is an error, except that of the login script in
\* Chrome: its error is not looked at, and the response it goes with is nil.
MakeHTTPClient ==
  /\ main = "client"
  /\ \/ main' = "start" /\ UNCHANGED <<login, panic>>
     \/ /\ Login # "none" /\ "loginError" \in Events
        /\ main' = "closeSend" /\ UNCHANGED <<login, panic>>
     \/ /\ Login = "chrome" /\ "loginError" \in Events
        /\ panic' = "nilResponse" /\ UNCHANGED <<main, login>>
     \/ /\ Login # "none"
        /\ main' = "loginPage" /\ UNCHANGED <<login, panic>>
     \/ /\ Login # "none" /\ "loginRejected" \in Events
        /\ main' = "loginPage" /\ login' = "rejected" /\ UNCHANGED panic
  /\ UNCHANGED <<canceller, pages, closing, doneClosed, queueVars, task, after,
                 pageVars, rpcVars>>

\* What RunJob does once makeHTTPClient* has returned.  After a rejected login
\* the Chrome client is an error; the direct one is (nil, nil), because err is
\* the nil error of xpath.Compile, and RunJob goes on with a nil client.
AfterLogin == IF login = "rejected" /\ Login = "chrome"
                THEN "closeSend" ELSE "start"

NilClient == login = "rejected" /\ Login = "direct"

\* sendPageHTML(nil, ...) of the login outcome; no queue to cancel yet.
SendLoginPage ==
  /\ main = "loginPage"
  /\ main' = AfterLogin
  /\ \/ /\ ~connected \/ doneClosed
        /\ UNCHANGED <<sendBuf, stopChan, connected>>
     \/ /\ connected /\ ~doneClosed
        /\ stopChan > 0
        /\ stopChan' = stopChan - 1
        /\ connected' = FALSE
        /\ UNCHANGED sendBuf
     \/ /\ connected /\ ~doneClosed
        /\ sendBuf < SendCap
        /\ sendBuf' = sendBuf + 1
        /\ UNCHANGED <<stopChan, connected>>
  /\ UNCHANGED <<login, canceller, pages, closing, doneClosed, queueVars, task,
                 after, sendClosed, listener, rpcVars, panic>>

\* f.Start() and the two goroutines.
StartQueue ==
  /\ main = "start"
  /\ main' = "seed"
  /\ canceller' = "select"
  /\ pages' = "run"
  /\ pq' = "run"
  /\ UNCHANGED <<login, closing, doneClosed, qCancelled, qClosed, qDone, late,
                 loops, cmdVars, pageVars, rpcVars, panic>>

\* enqueueLinks holds j.mu while it sends.
Linking == {h \in Hosts : task[h] \in {"links", "push"}}

\* The seed: take j.mu to mark it as seen, then q.Send.  Any error of q.Send
\* leaves RunJob without waiting for the queue.
SendSeed ==
  /\ main = "seed"
  /\ \/ ~Seeded /\ main' = "block"
     \/ /\ Seeded /\ Linking = {}
        /\ qClosed \/ "badSeed" \in Events
        /\ main' = "closeSend"
     \/ /\ Seeded /\ Linking = {}
        /\ ~qClosed
        /\ main' = "seedPush"
  /\ UNCHANGED <<login, canceller, pages, closing, doneClosed, queueVars, task,
                 after, pageVars, rpcVars, panic>>

PushSeed ==
  /\ main = "seedPush"
  /\ \E h \in Hosts : SendPush(h)
  /\ main' = "block"
  /\ UNCHANGED <<login, canceller, pages, closing, doneClosed, qCancelled,
                 qClosed, qDone, pq, loops, issued, task, after, pageVars,
                 rpcVars, panic>>

\* A slip: Block waits for q.closed instead of q.done.
BlockOnClosed ==
  /\ main = "block"
  /\ qClosed
  /\ main' = "closeSend"
  /\ UNCHANGED <<login, canceller, pages, closing, doneClosed, queueVars, task,
                 after, pageVars, rpcVars, panic>>

\* q.Block().
Block ==
  /\ main = "block"
  /\ qDone
  /\ main' = "closeSend"
  /\ UNCHANGED <<login, canceller, pages, closing, doneClosed, queueVars, task,
                 after, pageVars, rpcVars, panic>>

\* A slip: sendChan is left open.
CloseSendChanForgotten ==
  /\ main = "closeSend"
  /\ main' = "checkDone"
  /\ UNCHANGED <<login, canceller, pages, closing, doneClosed, queueVars, task,
                 after, pageVars, rpcVars, panic>>

\* The deferred function: close(sendChan), then look at doneChan, then close it.
CloseSendChan ==
  /\ main = "closeSend"
  /\ main' = "checkDone"
  /\ sendClosed' = TRUE
  /\ UNCHANGED <<login, canceller, pages, closing, doneClosed, queueVars, task,
                 after, sendBuf, stopChan, connected, listener, rpcVars, panic>>

\* A slip: doneChan is closed without a look at it.
CheckDoneChanSkipped ==
  /\ main = "checkDone"
  /\ main' = "closeDone"
  /\ UNCHANGED <<login, canceller, pages, closing, doneClosed, queueVars, task,
                 after, pageVars, rpcVars, panic>>

CheckDoneChan ==
  /\ main = "checkDone"
  /\ main' = IF doneClosed THEN "exited" ELSE "closeDone"
  /\ UNCHANGED <<login, canceller, pages, closing, doneClosed, queueVars, task,
                 after, pageVars, rpcVars, panic>>

CloseDoneChan ==
  /\ main = "closeDone"
  /\ IF doneClosed
       THEN /\ panic' = "doneClosedTwice"
            /\ UNCHANGED <<main, doneClosed>>
       ELSE /\ doneClosed' = TRUE
            /\ main' = "exited"
            /\ UNCHANGED panic
  /\ UNCHANGED <<login, canceller, pages, closing, queueVars, task, after,
                 pageVars, rpcVars>>

-----------------------------------------------------------------------------
(* The goroutine that handles cancel requests, and CancelJob.              *)

CancellerSeesDone ==
  /\ canceller = "select"
  /\ doneClosed
  /\ canceller' = "exited"
  /\ UNCHANGED <<main, login, pages, closing, doneClosed, queueVars, task,
                 after, pageVars, rpcVars, panic>>

CancellerSeesStop ==
  /\ canceller = "select"
  /\ stopChan > 0
  /\ stopChan' = stopChan - 1
  /\ canceller' = "closeDone"
  /\ UNCHANGED <<main, login, pages, closing, doneClosed, queueVars, task,
                 after, sendBuf, sendClosed, connected, listener, rpcVars, panic>>

CancellerClosesDone ==
  /\ canceller = "closeDone"
  /\ IF doneClosed
       THEN /\ panic' = "doneClosedTwice"
            /\ UNCHANGED <<canceller, doneClosed>>
       ELSE /\ doneClosed' = TRUE
            /\ canceller' = "qCancel"
            /\ UNCHANGED panic
  /\ UNCHANGED <<main, login, pages, closing, queueVars, task, after, pageVars,
                 rpcVars>>

\* A slip: Cancel does not Close.
CancelQueueNoClose ==
  /\ canceller = "qCancel"
  /\ qCancelled' = TRUE
  /\ canceller' = "exited"
  /\ UNCHANGED <<main, login, pages, closing, doneClosed, qClosed, qDone, pq,
                 late, loops, cmdVars, pageVars, rpcVars, panic>>

\* q.Cancel(): mark the queue as cancelled, then Close it.
CancelQueue ==
  /\ canceller = "qCancel"
  /\ qCancelled' = TRUE
  /\ canceller' = "exited"
  /\ closing' = [closing EXCEPT !["cancel"] = "check"]
  /\ UNCHANGED <<main, login, pages, doneClosed, qClosed, qDone, pq, late,
                 loops, cmdVars, pageVars, rpcVars, panic>>

\* CancelJob: the job manager looks the job up ...
LookupJob(c) ==
  /\ rpc[c] = "idle"
  /\ rpc' = [rpc EXCEPT ![c] = IF registered THEN "send" ELSE "notFound"]
  /\ UNCHANGED <<main, login, canceller, pages, closing, doneClosed, queueVars,
                 task, after, pageVars, registered, panic>>

\* ... and the call meets the canceller on cancelChan.
CancelJob(c) ==
  /\ rpc[c] = "send"
  /\ canceller = "select"
  /\ canceller' = "closeDone"
  /\ rpc' = [rpc EXCEPT ![c] = "ok"]
  /\ UNCHANGED <<main, login, pages, closing, doneClosed, queueVars, task,
                 after, pageVars, registered, panic>>

\* jobManager drops jobs that are done.
ReapJob ==
  /\ registered
  /\ doneClosed
  /\ registered' = FALSE
  /\ UNCHANGED <<main, login, canceller, pages, closing, doneClosed, queueVars,
                 task, after, pageVars, rpc, panic>>

-----------------------------------------------------------------------------
(* The goroutine that handles AddPages requests.  Any error ends it: a URL *)
(* that does not parse or has no host, or a closed queue.                  *)

HandlePage ==
  /\ pages = "run"
  /\ "addPage" \in Events
  /\ \/ SendCheck /\ pages' = "push"
     \/ pages' = "exited" /\ UNCHANGED issued
  /\ UNCHANGED <<main, login, canceller, closing, doneClosed, qCancelled,
                 qClosed, qDone, pq, late, loops, queued, task, after, pageVars,
                 rpcVars, panic>>

PushPage ==
  /\ pages = "push"
  /\ \E h \in Hosts : SendPush(h)
  /\ pages' = "run"
  /\ UNCHANGED <<main, login, canceller, closing, doneClosed, qCancelled,
                 qClosed, qDone, pq, loops, issued, task, after, pageVars,
                 rpcVars, panic>>

PagesSeeDone ==
  /\ pages = "run"
  /\ doneClosed
  /\ pages' = "exited"
  /\ UNCHANGED <<main, login, canceller, closing, doneClosed, queueVars, task,
                 after, pageVars, rpcVars, panic>>

-----------------------------------------------------------------------------
(* A command of host h: Doer.Do, then the handler that the mux picks.      *)

taskUnchanged == <<main, login, canceller, pages, closing, doneClosed,
                   qCancelled, qClosed, qDone, pq, loops, rpcVars>>

\* processChan takes a command, unless the queue was cancelled meanwhile, and
\* fetches it, or tells the handler that robots.txt disallows it.
StartCommand(h) ==
  /\ h \in loops
  /\ task[h] = "none"
  /\ queued[h] > 0
  /\ ~qCancelled
  /\ queued' = [queued EXCEPT ![h] = @ - 1]
  /\ IF NilClient
       THEN panic' = "nilClient" /\ UNCHANGED task
       ELSE /\ \E r \in {"acquire", "visitErr"} : task' = [task EXCEPT ![h] = r]
            /\ UNCHANGED panic
  /\ UNCHANGED <<taskUnchanged, late, issued, after, pageVars>>

\* Doer.Do: a slot of the semaphore ...
InDo == {h \in Hosts : task[h] \in {"do", "ifaceCancel"}}

Acquire(h) ==
  /\ task[h] = "acquire"
  /\ Cardinality(InDo) < MaxConcurrentRequests
  /\ task' = [task EXCEPT ![h] = "do"]
  /\ UNCHANGED <<taskUnchanged, late, queued, issued, after, pageVars, panic>>

\* ... then the interface check and the request; returning frees the slot.
DoRequest(h) ==
  /\ task[h] = "do"
  /\ \E r \in {"visit", "visitErr"} \union
             (IF "ifaceGone" \in Events THEN {"ifaceCancel"} ELSE {}) :
       task' = [task EXCEPT ![h] = r]
  /\ UNCHANGED <<taskUnchanged, late, queued, issued, after, pageVars, panic>>

\* fetchErrorHandler: the client is told, unless the job is done.
FetchErrorHandler(h) ==
  /\ task[h] = "visitErr"
  /\ task' = [task EXCEPT ![h] = IF doneClosed THEN "none" ELSE "send"]
  /\ after' = [after EXCEPT ![h] = "return"]
  /\ UNCHANGED <<taskUnchanged, late, queued, issued, pageVars, panic>>

\* The handler of a response, up to its first blocking step.  The page is
\* dropped (the job is done, NoCallback, no handler for it), is an error page
\* or a page not to be followed, is read for links, or answers a HEAD command.
VisitPage(h) ==
  /\ task[h] = "visit"
  /\ \/ /\ task' = [task EXCEPT ![h] = "none"]
        /\ UNCHANGED after
     \/ /\ ~doneClosed
        /\ \E r \in {"send"} \union (IF "links" \in Events THEN {"mutex"} ELSE {})
                            \union (IF "head" \in Events THEN {"head"} ELSE {}) :
             task' = [task EXCEPT ![h] = r]
        /\ after' = [after EXCEPT ![h] = "return"]
     \/ /\ ~doneClosed
        /\ "loggedOut" \in Events
        /\ task' = [task EXCEPT ![h] = "send"]
        /\ after' = [after EXCEPT ![h] = "logoutCancel"]
  /\ UNCHANGED <<taskUnchanged, late, queued, issued, pageVars, panic>>

\* fetchHTTPHeadHandler: the GET of the same page.
HeadHandler(h) ==
  /\ task[h] = "head"
  /\ \/ SendCheck /\ task' = [task EXCEPT ![h] = "headPush"]
     \/ /\ qClosed \/ issued = MaxCmds
        /\ task' = [task EXCEPT ![h] = "none"]
        /\ UNCHANGED issued
  /\ UNCHANGED <<taskUnchanged, late, queued, after, pageVars, panic>>

PushHead(h) ==
  /\ task[h] = "headPush"
  /\ SendPush(h)
  /\ task' = [task EXCEPT ![h] = "none"]
  /\ UNCHANGED <<taskUnchanged, issued, after, pageVars, panic>>

\* enqueueLinks takes j.mu ...
LockLinks(h) ==
  /\ task[h] = "mutex"
  /\ Linking = {}
  /\ task' = [task EXCEPT ![h] = "links"]
  /\ UNCHANGED <<taskUnchanged, late, queued, issued, after, pageVars, panic>>

\* ... and sends its links one by one; an error of Send is only logged.
EnqueueLink(h) ==
  /\ task[h] = "links"
  /\ SendCheck
  /\ task' = [task EXCEPT ![h] = "push"]
  /\ UNCHANGED <<taskUnchanged, late, queued, after, pageVars, panic>>

PushLink(h) ==
  /\ task[h] = "push"
  /\ \E g \in Hosts : SendPush(g)
  /\ task' = [task EXCEPT ![h] = "links"]
  /\ UNCHANGED <<taskUnchanged, issued, after, pageVars, panic>>

\* The rest of the handler: ship the page if it is a callback page.
ShipPage(h) ==
  /\ task[h] = "links"
  /\ \E r \in {"none", "send"} : task' = [task EXCEPT ![h] = r]
  /\ UNCHANGED <<taskUnchanged, late, queued, issued, after, pageVars, panic>>

AfterSend(h) == IF after[h] = "return" THEN "none" ELSE "logoutCancel"

\* A slip: doneChan is not looked at again.
SendPageHTMLAnyway(h) ==
  /\ task[h] = "send"
  /\ task' = [task EXCEPT ![h] = IF ~connected THEN AfterSend(h) ELSE "select"]
  /\ UNCHANGED <<taskUnchanged, late, queued, issued, after, pageVars, panic>>

\* sendPageHTML: nothing to do without a client, or once the job is done.
SendPageHTML(h) ==
  /\ task[h] = "send"
  /\ task' = [task EXCEPT ![h] = IF ~connected \/ doneClosed
                                   THEN AfterSend(h) ELSE "select"]
  /\ UNCHANGED <<taskUnchanged, late, queued, issued, after, pageVars, panic>>

\* Its select, on the case of stopChan: the client is lost.
SelectStop(h) ==
  /\ task[h] = "select"
  /\ stopChan > 0
  /\ stopChan' = stopChan - 1
  /\ connected' = FALSE
  /\ task' = [task EXCEPT ![h] = IF CancelOnDisconnect
                                   THEN "lostCancel" ELSE AfterSend(h)]
  /\ UNCHANGED <<taskUnchanged, late, queued, issued, after, sendBuf, sendClosed,
                 listener, panic>>

\* Its select, on the case of sendChan.
SelectSend(h) ==
  /\ task[h] = "select"
  /\ IF sendClosed
       THEN /\ panic' = "sendOnClosed"
            /\ UNCHANGED <<task, sendBuf>>
       ELSE /\ sendBuf < SendCap
            /\ sendBuf' = sendBuf + 1
            /\ task' = [task EXCEPT ![h] = AfterSend(h)]
            /\ UNCHANGED panic
  /\ UNCHANGED <<taskUnchanged, late, queued, issued, after, sendClosed, stopChan,
                 connected, listener>>

\* A command asks for the job to be cancelled: the interface is gone, the
\* client is lost, or the site has logged us out.
CancelFromTask(h) ==
  /\ canceller = "select"
  /\ canceller' = "closeDone"
  /\ \/ task[h] = "ifaceCancel"  /\ task' = [task EXCEPT ![h] = "visitErr"]
     \/ task[h] = "lostCancel"   /\ task' = [task EXCEPT ![h] = AfterSend(h)]
     \/ task[h] = "logoutCancel" /\ task' = [task EXCEPT ![h] = "none"]
  /\ UNCHANGED <<main, login, pages, closing, doneClosed, queueVars, after,
                 pageVars, rpcVars, panic>>

-----------------------------------------------------------------------------
(* AddDomainAndListen: the subscription object, then the pages.            *)

listenUnchanged == <<main, login, canceller, pages, closing, doneClosed,
                     queueVars, task, after, rpcVars, panic>>

SendSubscription ==
  /\ listener = "sub"
  /\ listener' = "range"
  /\ UNCHANGED <<listenUnchanged, sendBuf, sendClosed, stopChan, connected>>

\* A slip: a closed channel is read without a look at ok.
StreamPageUnchecked ==
  /\ listener = "range"
  /\ sendBuf > 0 \/ sendClosed
  /\ sendBuf' = sendBuf - 1
  /\ UNCHANGED <<listenUnchanged, sendClosed, stopChan, connected, listener>>

StreamPage ==
  /\ listener = "range"
  /\ sendBuf > 0
  /\ sendBuf' = sendBuf - 1
  /\ UNCHANGED <<listenUnchanged, sendClosed, stopChan, connected, listener>>

\* ostream.Send fails: leave a token for the job and give up.
LoseClient ==
  /\ "disconnect" \in Events
  /\ \/ listener = "sub" /\ UNCHANGED sendBuf
     \/ listener = "range" /\ sendBuf > 0 /\ sendBuf' = sendBuf - 1
  /\ stopChan' = stopChan + 1
  /\ listener' = "lost"
  /\ UNCHANGED <<listenUnchanged, sendClosed, connected>>

\* A slip: the stream ends with doneChan.
EndStreamOnDone ==
  /\ listener = "range"
  /\ sendBuf = 0
  /\ doneClosed
  /\ listener' = "ended"
  /\ UNCHANGED <<listenUnchanged, sendBuf, sendClosed, stopChan, connected>>

EndStream ==
  /\ listener = "range"
  /\ sendBuf = 0
  /\ sendClosed
  /\ listener' = "ended"
  /\ UNCHANGED <<listenUnchanged, sendBuf, sendClosed, stopChan, connected>>

-----------------------------------------------------------------------------
RunJob == \/ SetupJobLogger \/ MakeHTTPClient \/ SendLoginPage \/ StartQueue
          \/ SendSeed \/ PushSeed \/ Block \/ CloseSendChan
          \/ CheckDoneChan \/ CloseDoneChan

Canceller == CancellerSeesDone \/ CancellerSeesStop \/ CancellerClosesDone
             \/ CancelQueue

Close(c) == CloseCheck(c) \/ CloseMark(c) \/ CloseDrain(c)

Loop(h) == LoopStart(h) \/ LoopExit(h)

Command(h) == \/ StartCommand(h) \/ Acquire(h) \/ DoRequest(h)
              \/ FetchErrorHandler(h) \/ VisitPage(h) \/ HeadHandler(h)
              \/ PushHead(h) \/ LockLinks(h) \/ EnqueueLink(h) \/ PushLink(h)
              \/ ShipPage(h) \/ SendPageHTML(h) \/ SelectStop(h)
              \/ SelectSend(h) \/ CancelFromTask(h)

Listener == SendSubscription \/ StreamPage \/ EndStream

Next ==
  /\ panic = "none"
  /\ \/ RunJob \/ Canceller \/ Listener \/ LoseClient
     \/ HandlePage \/ PushPage \/ PagesSeeDone \/ ReapJob \/ QueueExit
     \/ \E c \in Closers : Close(c)
     \/ \E h \in Hosts : Loop(h) \/ LoopIdle(h) \/ LoopIdleRace(h) \/ Command(h)
     \/ \E c \in Cancels : LookupJob(c) \/ CancelJob(c)

Spec == Init /\ [][Next]_vars

(***************************************************************************)
(* Goroutines that can run do run, a site answers or refuses a request, a  *)
(* client that is still there reads its stream, and the timer of an idle   *)
(* loop expires.  Nothing forces clients to call, links to be found, or    *)
(* faults to happen.                                                       *)
(***************************************************************************)
Alive(A) == panic = "none" /\ A

Fairness ==
  /\ WF_vars(Alive(RunJob))
  /\ WF_vars(Alive(Canceller))
  /\ WF_vars(Alive(Listener))
  /\ WF_vars(Alive(QueueExit))
  /\ WF_vars(Alive(PushPage \/ PagesSeeDone))
  /\ WF_vars(Alive(ReapJob))
  /\ \A c \in Closers : WF_vars(Alive(Close(c)))
  /\ \A h \in Hosts : /\ WF_vars(Alive(Loop(h)))
                      /\ WF_vars(Alive(LoopIdle(h)))
                      /\ WF_vars(Alive(Command(h)))
  /\ \A c \in Cancels : WF_vars(Alive(CancelJob(c)))

FairSpec == Spec /\ Fairness

-----------------------------------------------------------------------------
(* What the job promises.                                                  *)

\* A loop runs the commands of its host itself.
OneThread == ThreadsPerSite <= 1

\* Nobody but RunJob sends commands while RunJob sends the seed.
SeedAlone == ~Seeded \/ "addPage" \notin Events

\* No goroutine of the job can produce a page any more.
Quiet == loops = {} /\ \A h \in Hosts : task[h] = "none"

(***************************************************************************)
(* "Block blocks the current goroutine until the Queue is closed and all   *)
(* pending commands are drained" (fetch.go): once q.done is closed no loop *)
(* and no handler runs, if each host has one thread.                       *)
(***************************************************************************)
BlockDrains == OneThread /\ qDone => Quiet

(***************************************************************************)
(* RunJob closes sendChan when it returns, and a handler that then sends a *)
(* page kills the server with all its jobs.  q.Block() is what keeps the   *)
(* handlers out, if each host has one thread and the seed is sent alone.   *)
(***************************************************************************)
NoSendAfterClose ==
  OneThread /\ SeedAlone => panic # "sendOnClosed"

(***************************************************************************)
(* When the stream of AddDomainAndListen ends, every page has been         *)
(* streamed and no handler is left that has another one.                   *)
(***************************************************************************)
StreamEndsLast ==
  OneThread /\ SeedAlone /\ listener = "ended" => Quiet /\ sendBuf = 0

\* Those that wait in the select of sendPageHTML.
Shipping == IF main = "loginPage" THEN {"login"}
                                  ELSE {h \in Hosts : task[h] = "select"}

Life == INSTANCE JobLife WITH
  Shippers <- Hosts \union {"login"}, shipping <- Shipping, buffered <- sendBuf,
  listener <- IF listener = "sub" THEN "range" ELSE listener

(***************************************************************************)
(* With one thread a host and a seed sent alone, the job keeps the         *)
(* promises of JobLife on sendChan, which are what the streams and the     *)
(* client of Session rest on: a page that was past the check of doneChan   *)
(* is shipped although the job is cancelled meanwhile, and none after it.  *)
(***************************************************************************)
JobLives == Life!Spec

(***************************************************************************)
(* doneChan is closed by two goroutines and q.closed by several, after a   *)
(* check that does not exclude the others.  Nothing dies of it as long as  *)
(* the job never idles and its seed is good, whoever cancels it and        *)
(* whenever: the canceller is then the only one to close either.  Nor does *)
(* a login kill the server, except by the two nil values: the direct       *)
(* client of a rejected login, the response to a failed login script.      *)
(***************************************************************************)
NoPanic ==
  /\ OneThread /\ SeedAlone
  /\ {"idle", "badSeed"} \cap Events = {}
  /\ Login # "direct" \/ "loginRejected" \notin Events
  /\ Login # "chrome" \/ "loginError" \notin Events
  => panic = "none"

(***************************************************************************)
(* Three ways in which goroutines of a job wait for ever.  A command asks  *)
(* for the job to be cancelled after the canceller has had its one         *)
(* request; a command, or RunJob with the seed, pushes to q.ch when        *)
(* processQueue has gone and another push has filled it; a handler has a   *)
(* page for a full sendChan whose listener is gone, and somebody else has  *)
(* taken the token that says so.                                           *)
(***************************************************************************)
CancelIgnored ==
  /\ canceller \notin {"off", "select"}
  /\ \E h \in Hosts : task[h] \in {"ifaceCancel", "lostCancel", "logoutCancel"}

PushBlocked ==
  /\ pq = "exited" /\ late = 1
  /\ main = "seedPush" \/ \E h \in Hosts : task[h] \in {"headPush", "push"}

PageBlocked ==
  /\ sendBuf = SendCap /\ listener = "lost" /\ stopChan = 0
  /\ \E h \in Hosts : task[h] = "select"

Stuck == CancelIgnored \/ PushBlocked \/ PageBlocked

(***************************************************************************)
(* A CancelJob call that is answered ends the job: RunJob returns, unless  *)
(* the process dies first (NoPanic says when it cannot) or the job is      *)
(* stuck in one of the three ways above.  There is no fourth: no order of  *)
(* handlers, idle loops, a lost client and the teardown keeps RunJob       *)
(* otherwise.                                                              *)
(***************************************************************************)
CancelTerminates ==
  \A c \in Cancels :
    rpc[c] = "ok" ~> main = "exited" \/ panic # "none" \/ Stuck

(***************************************************************************)
(* The stream of a client that stays ends once RunJob has returned, unless *)
(* the process dies first.                                                 *)
(***************************************************************************)
StreamEnds ==
  main = "exited" ~> listener \in {"ended", "lost"} \/ panic # "none"

(***************************************************************************)
(* A crawl that nobody cancels ends by itself when its hosts are idle, and *)
(* its client is told, with the same exceptions.                           *)
(***************************************************************************)
CrawlFinishes ==
  <>(\/ main = "exited" /\ listener \in {"ended", "lost"}
     \/ panic # "none" \/ Stuck
     \/ \E c \in Cancels : rpc[c] # "idle")

(***************************************************************************)
(* A job whose network interface is gone, or whose site has logged it out, *)
(* stops.                                                                  *)
(***************************************************************************)
FaultStops ==
  (\E h \in Hosts : task[h] \in {"ifaceCancel", "logoutCancel"})
    ~> main = "exited"

-----------------------------------------------------------------------------
(* What comments, messages and the README say of the job, where the code   *)
(* does otherwise.                                                         *)

\* Queue is "safe to use from concurrent goroutines" (fetch.go).
QueueIsSafe == panic # "queueClosedTwice"
=============================================================================
