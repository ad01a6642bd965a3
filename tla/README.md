# A TLA+ model of ideacrawler

ideacrawler is a crawling server.  Clients open a *job* over gRPC, the server
crawls with the fetchbot library and streams pages back; in cluster mode the
requests of the server's jobs are carried out by workers, which are the same
program with a job of their own.  This directory has TLA+ specifications of the
parts of it that are concurrent or decide something, TLC configurations that
check them on small instances, and TLAPS proofs.

Paths are relative to the root of the repository; `fetch.go` is
`vendor/github.com/shsms/fetchbot/fetch.go`.

| module | what it is |
| --- | --- |
| `JobRun` | one job: `RunJob`, its goroutines and channels, the queue it blocks on, its client |
| `JobRunProofs` | proofs about `JobRun` |
| `MCJobRun` | `JobRun` for TLC (symmetry) |
| `CrawlFrontier` | which pages a job fetches, follows and ships |
| `CrawlFrontierProofs` | proofs about `CrawlFrontier` |
| `MCCrawlFrontier` | a site of five pages, and the sets of options |
| `WorkerManager` | the cluster server's rotation of workers and its calls of `Do` |
| `WorkerManagerProofs` | proofs about `WorkerManager` |
| `GoClient` | the Go client of a job, and the gRPC streams it uses |
| `Session` | `GoClient` together with the RPCs of the server, around a job |
| `PageDelivery` | what a session promises of the pages: the abstract specification |
| `JobLife` | what a job promises to those who stream its pages: the abstract specification of both `JobRun` and the job inside `Session` |
| `SessionProofs`, `DeliveryProofs`, `RequestProofs` | proofs about `Session`: types; that it implements `PageDelivery` and `JobLife`; that no request is lost or answered twice |
| `MCSession` | `Session` for TLC: two goroutines that call the client |
| `ChromeClient` | the browser that the jobs of a worker share |
| `ChromeClientProofs` | proofs about `ChromeClient` |
| `MCChromeClient` | `ChromeClient` for TLC: three callers |

To check: `tlc -config JobPages.cfg MCJobRun`, and likewise for every
configuration (the module of each is in `PROJECT.json`); `tlapm JobRunProofs.tla`,
and likewise for every module of proofs.

## Inventory

### The crawl job (`job.go`, `worker.go`)

*State*: the channels of a job (`cancelChan`, unbuffered; `doneChan`, only ever
closed; `sendChan`, 1000 pages; `stopChan`, one token; `reqChan`), the
subscriber with its `connected` flag, `duplicates` and `doneListeners` under
`j.mu`, and the fetchbot queue.

*Operations*: `addNewJob`, `RunJob` (log file, HTTP client and login, queue,
seed, `Block`, deferred teardown), the goroutine that cancels, the goroutine
that turns `AddPages` requests into commands, the GET, HEAD and error handlers,
`sendPageHTML`, and `AddDomainAndListen`, which streams `sendChan` to the
client.

*Interactions*: every handler runs in a host loop of the queue, and every
handler may send on `sendChan` and on `cancelChan`.  The cancel goroutine
receives from `cancelChan` and `stopChan` *once*, closes `doneChan` and calls
`q.Cancel()`, which waits for all loops.  The queue may also close itself when
its hosts are idle.  `RunJob` returns from `q.Block()` and closes `sendChan`
and, if nobody did, `doneChan`.

*Hard*: who closes which channel; who may still send on it; who waits for whom
when the client is gone, the buffer is full, or two hosts ask for a cancel.

*Correct if*: nothing is sent on a closed channel and nothing is closed twice
(an unrecovered panic ends the server with all of its jobs); the client's
stream ends after the last page, and does end; a cancel that was acknowledged
ends the job; an idle job ends.

### The crawl policy (`job.go`)

*State*: the options, `duplicates`, the commands in flight with their depth and
anchor text.  *Operations*: `fetchHTTPGetHandler`, `fetchHTTPHeadHandler`,
`enqueueLinks`, `checkEnqueueEligibility`, the callback decision.  *Hard*: pages
are read in any order by several hosts, a URL is found along many paths with
different depths and anchors, and the queue may close between two links.
*Correct if* a URL is fetched once, nothing the options exclude is fetched,
nothing they include is missed, and pages are shipped for the reasons that
`ideacrawler.proto` gives.

### The fetchbot queue (`fetch.go`)

*State*: `q.ch` (commands, capacity 1), `q.closed`, `q.cancelled`, `q.done`, one
goroutine and slice queue per host, counted by `q.wg`.  *Operations*: `Send`,
`Close`, `Cancel`, `Block`, `processQueue`, `processChan`, `AutoClose` when the
last host has been idle for `WorkerIdleTTL`.  *Hard*: check-then-act on
`q.closed` in `Send` and in `Close`, and a timer that races a command.

### Request control (`doer.go`)

`Doer.Do` takes a slot of a semaphore, looks for the network interface, delays,
and prefetches.  It can cancel the job, from inside a host's loop.

### Job registry and RPCs (`worker.go`)

*State*: the map of jobs, which `jobManager` alone touches, and the subscriber
of each job: `reqChan`, `sendChan`, `stopChan`, and the channels for lists of
links.  *Operations*: `AddDomainAndListen`, `AddPages`, `GetAnalyzedURLs`,
`CancelJob`, and the goroutine that removes ended jobs.  *Hard*: each RPC looks a
job up once and then works on its channels, while the job ends or its client
goes; the fields of the subscriber are read and written without a lock.
*Correct if* a request that was accepted comes to the queue, and a page that was
shipped comes to the client.

### The worker manager (`workermanager.go`, `workerqueue.go`)

*State*: the rotation (`workerQueue`), `addChan`, `nextReqChan`, `nextChan`,
`waitRegnChan`, `waitingList`.  *Operations*: `createNewClient`, `run`,
`respHandler`, `nextWorker`, and `Do` of the manager and of the Chrome manager.
*Hard*: all jobs call `Do` at the same time and share two channels for request
and reply; workers come and go; a page may come back at any time.  *Correct if*
load is spread, no connected worker is forgotten, every call gets a worker or
an error, and every page reaches its call.

### The Go client (`goclient/`)

*State*: `startedChan` and `stoppedChan`, `phChan` (1000 pages) between `run` and
the goroutine that forwards to `PageChan` (100), `AnalyzedURLChan`,
`addPagesClient`.  *Operations*: `NewCrawlJob`, `run`, `listenAnalyzedURLs`,
`AddPage`, `AddJS`, `IsAlive`, `Stop`.  *Hard*: `AddPage` opens its stream
lazily and without a lock, and the hosts of all jobs of a cluster server call it
at the same time; pages are in four channels and three hands between handler
and reader when the connection breaks or the job ends.  *Correct if* pages
arrive in order, each once, none is lost while the connection holds, and the end
of the job is seen after the last page has come in.

### The Chrome client (`chromeclient/`, `setupChromeClient` in `job.go`)

*State*: `up`, `chromeCmd`, `c` and `mgr`, shared by all jobs of a worker; `mu`
is there and nothing locks it.  *Operations*: `CheckChromeProcess`, `Start` and
its goroutine, `Do` with `newPage`, `doNavigate`, `doJS`, `closePage`.  *Hard*:
the browser crashes and is started again by whoever comes next; two requests may
start it at the same time, and others are in the middle of using it.  *Correct
if* there is one browser, a crash is noticed, tabs are used in the browser they
were made in and are closed again, and every request ends.

### The rest

`prefetchurl` parses HTML and CSS; `main.go` reads flags; `protofiles` is
generated; `pyclient`, `examples` and `statuscodes` have no state that others
depend on.  Not modelled.

`PROJECT.json` lists the components, the line each definition models, and the
hazards: what is hard to test in this code, at the line where it bites, with
the properties that would catch it.

## How the modules correspond to the code

### JobRun

Every goroutine has a variable with its control state, and a step ends where
the goroutine touches something that others see.

| code | model |
| --- | --- |
| `RunJob` | `main`: `SetupJobLogger`, `MakeHTTPClient`, `SendLoginPage`, `StartQueue`, `SendSeed`, `PushSeed`, `Block`; the deferred function is `CloseSendChan`, `CheckDoneChan`, `CloseDoneChan`, three steps because the canceller may come between them |
| cancel goroutine | `canceller`: `CancellerSeesDone`, `CancellerSeesStop`, `CancellerClosesDone`, `CancelQueue`; a receive from `cancelChan` is a joint step with its sender (`CancelJob`, `CancelFromTask`) |
| `AddPages` goroutine | `pages`: `HandlePage`, `PushPage`, `PagesSeeDone` |
| `Queue.Close` | `closing[c]`, a call by `Cancel` and one by the `AutoClose` of each host that was the last to go: `CloseCheck`, `CloseMark`, `CloseDrain` |
| `processQueue` | `pq`, `late`: it forwards commands at once, so a command that was pushed is in `queued[h]`; a push after it has gone is `late` |
| `processChan` | `loops`, `queued`: `LoopStart`, `LoopExit`, `LoopIdle`, `AutoClose`; `LoopIdleRace` is the command that processQueue sends to a channel its loop has just closed |
| a command | `task[h]`: `Doer.Do`, then the handler, statement by statement: `Acquire`, `DoRequest`, `VisitPage`, `HeadHandler`, `LockLinks`, `EnqueueLink`, `SendPageHTML`, ... |
| `AddDomainAndListen` | `listener` |
| `CancelJob` | `rpc[c]`: `LookupJob`, `CancelJob` |

`Events` says what the environment may do in an instance, and the faults that
the code handles are among it: a log file that cannot be created, a failed or
rejected login (with the nil client and the nil response that two of these
leave behind), a bad seed, a lost client, a missing interface, a site that logs
the crawler out, an idle host.  Channels that only carry data are counts:
`sendBuf` for `sendChan`, `stopChan` for its tokens.

Left out: the contents of pages and commands (see CrawlFrontier), robots.txt and
crawl delay, several jobs.  With `ThreadsPerSite > 1` a host still has one
`task`, run by a goroutine the loop does not wait for; that is enough to see
what it breaks.

### CrawlFrontier

A regular expression or XPath is the set of URLs, anchors or pages it matches,
and the options are a variable that never changes, so that one run covers all
their combinations.  `GetHandler` and `GetAndFollow` are the GET handler without
and with links to follow, `HeadHandler` the HEAD handler, `Fail` an error or a
command that is dropped because the job was cancelled.  `enqueueLinks` holds
`j.mu` from first to last link and is one step; the queue may close inside it,
and then an arbitrary part of its links is sent.  `gets`, `read`, `failed`,
`sent` and the `via` field of a command are history: what was asked for, by
whom, and what came of it.

A URL is a spelling, and `Normal` says what `purell.NormalizeURL` makes of each:
`Found` normalises every link of a page, as `enqueueLinks` does, while the seed
and added pages are marked and fetched as they are given.  So a seed that is not
in normal form is found again under another name; the seed of `Frontier` is one.

`shipped` has the pages with content.  The error pages that `Fail` stands for are
shipped whatever the options say, and no property here is about them.

### WorkerManager

`run` is `RunAdd`, `RunNext` and `RunOffer` (a worker is chosen first and put
into `nextChan` when there is room), `workerQueue.next` is `NextOfQueue`,
`respHandler` is `Register` (its other half is the call), `TakePage` and
`Deliver`.  A worker is a connection, so one that reconnects is a new worker.
A worker's job is an ordinary job of this program with the Mimetype `text/html`:
it sends one page back (`Answer`), or none if the response has another type
(`IgnoreType`), and with `prompt` in `Events` it may do so before the call has
registered.  That can
happen: the delay of at least a second that a worker's `Doer` makes follows a
successful request, and an error page is sent at once.

### GoClient and Session

`GoClient` has one variable for the control state of each goroutine of the
client (`job`, `run`, `fwd`, `listen`, `call[r]`, `stopCall`), its channels as
sequences, and the page that a goroutine has in hand between a receive and a
send (`held`, `fwdHeld`, `listHeld`).  A stream of gRPC is a sequence of at most
`Window` messages; `Send` waits for room, a break loses what is on the stream.
A request, its call and its page have the same name, so that it can be followed.

| code | model |
| --- | --- |
| `NewCrawlJob` | `NewCrawlJob`, `RecvSubscription`, `ReturnJob` |
| `run` and its deferred calls | `RunStart`, `InitAnalyzedURL`, `RecvPage`, `PushPage`, `RecvEnd`, `ClosePhChan`, `CloseStoppedChan` |
| the forwarding goroutine | `FwdWake`, `FwdTake`, `FwdPush`, `FwdExit` |
| `AddPage`, `AddJS` | `BeginCall`, `OpenAddPages`, `SendCall`: the three points at which other calls may come between |
| `AddDomainAndListen` | `AddNewJob`, `StreamPage`, `LoseClient`, `EndStream` |
| `AddPages` | `AddPagesRecv`, `AddPagesPush` for each stream |
| the goroutine that reads `reqChan` | `FeedPage`, `FeedPush`, `FeederDone` |
| the job | `FetchPage`, `DropPage`, `IgnoreType`, `AnalyzeLinks`, `SendList`, `SendPageHTML`, `ShipPage`, `CancelOnStop`, `CancelJob`, `IdleTimeout`, `CloseQueue`, `CloseSendChan`, `CloseDoneChan`, `ReapJob` |
| `GetAnalyzedURLs` | `GetAnalyzedURLs`, `MarkAnalyzed`, `MakeListChan`, `StreamList` |

The job inside `Session` is the one of `JobRun` seen from outside: one page at a
time, a queue that closes when it is idle or cancelled, and `sendChan` closed
after the last page; the option `CancelOnDisconnect` is off.  It loses requests
where the code does: `Send` looks at `q.closed` and pushes in two steps
(`FeedPage`, `FeedPush`), and what is pushed too late is gone; an idle timeout
may take waiting commands with it (`IdleTimeout`) before the queue is closed
(`CloseQueue`); a response of another type is not shipped (`IgnoreType`).
`dropped` is history and has what went in the last two ways.  The panics of these
races are in `JobRun`.  What the two have
in common is `JobLife`, an abstract specification that both implement: a page is
let in (`LetIn`: past the look at `doneChan` in `sendPageHTML`) until the job is
done, and then goes into `sendChan` (`Ship`) even if the job is cancelled under
it, unless the client is lost (`GiveUp`); the channel is closed once, when no
page is on its way into it (`CloseSend`); the stream ends when it is closed and
empty (`EndStream`).  `shipping` is the set of those in the select of
`sendPageHTML`: hosts, and the login, in `JobRun`, the one handler in `Session`.

`PageDelivery` is the abstract specification: pages are shipped (`Ship`), read
in that order (`Get`), and a break cuts off some of those not read (`Lose`).
The refinement mapping puts the channels behind each other: `shipped` is `got`,
`PageChan`, the hand of the forwarding goroutine, `phChan`, the hand of `run`,
the stream and `sendChan`, in this order; without a connection it ends at the
hand of `run`.  So a receive followed by a send is a stutter, `ShipPage` is
`Ship`, `ReadPage` is `Get`, and `Break` is `Lose` with exactly the pages on the
stream and in `sendChan` cut off.

### ChromeClient

A browser, its `exec.Cmd` and a connection to it have the name of the call that
made it, as each call checks the browser once.  `pc[a]` is the place of a call
in `CheckChromeProcess`, `Start` and `Do`; `waiter[a]` is the goroutine of
`Start`.  Every step between two uses of the shared fields is an action, so
`ExecCmd` starts the Cmd that is there *by then*, `WaiterWait` waits for the one
that is there by then, and so on.  `overlap` is history: it remembers that a
call was within `Start` while another was at work; `enabled` is history too, the
clients whose `Start` came to its end.  `Events` has crashes, a missing binary, a
browser that answers too late or fails half-way through `Start` (which leaves the
manager of an earlier browser, or nil, beside the new client), tabs that cannot
be attached to or closed, commands that fail, pages that do not answer.  A panic is a state that
nothing leaves.

## Runs

`Spec` is the specification without fairness, `FairSpec` with it.

| run | checks | result |
| --- | --- | --- |
| `JobPages` | `TypeOK`, `BlockDrains`, `NoSendAfterClose`, `StreamEndsLast`, `JobLives` | An unseeded job on two hosts with a direct login, pages added by clients, links, idle timeouts that race commands and each other, a site that logs it out, a lost client and a cancel: `Block` returns after every handler, nothing is sent on the closed `sendChan`, the stream ends last, and the job implements `JobLife` |
| `JobSeed` | `NoPanic`, `StreamEndsLast`, `CancelTerminates` (FairSpec) | A seeded job with a Chrome login and two request slots that never idles, with HEAD requests, a lost interface, a lost client and a cancel: no channel is closed twice, and a cancel that was answered ends the job, unless it is stuck in one of the ways below |
| `JobEnds` | `CancelTerminates`, `StreamEnds`, `CrawlFinishes` (FairSpec) | Hosts that go idle while links and HEAD requests push to the queue: a cancel that was answered ends the job and the stream; a crawl that nobody cancels ends when its hosts are idle, and after a bad seed; both unless the job is stuck, or the server dies of a panic (here, of a failed Chrome login or two closers) |
| `Frontier` | `TypeOK`, `FetchedOnce`, `NothingElse`, `NothingMissed`, `DepthRespected`, `ShippedAsAsked` | For the combinations of the options, from a seed that is not in normal form (the last two speak of jobs without `CheckContent`, the last one also not of jobs with an anchor pattern alone) |
| `Workers` | `TypeOK`, `Balanced`, `NoneForgotten`, `OneWorkerEach`, `CallsReturn` (FairSpec) | Two workers that join and are lost, three concurrent calls; every call returns, unless its worker is lost or ignores the response, a page overtakes a registration, or the second job of a worker could not be made |
| `Session` | `TypeOK`, `OneAnswerEach`, `NothingLost`, `Delivers`, `JobLives` | Two goroutines that call `AddPage` and `AddJS` on a job that lists links, with a break of the connection, an idle timeout and its races, and responses of another type: pages are delivered in order and once, no request is lost except to these, though both goroutines may open a stream, and the job is one of `JobLife` |
| `SessionEnds` | `NoNilSend`, `StoppedIsComplete`, `DeliversAll`, `PagesArrive`, `EndIsSeen` (FairSpec) | Two requests, one of which may have a bad URL, with a call of `Stop`, an idle timeout and its races, responses of another type and streams that fail to open: no call uses a stream that did not open, pages come to the queue and from there to the program, the end of the job is seen, and after the last page |
| `Chrome` | `TypeOK`, `OneBrowser`, `DialsItsBrowser`, `TabsClosed`, `CrashIsNoticed`, `CallsEnd` (FairSpec) | The job that makes the client and requests of two jobs, with every event |

The other runs show where the code does not do what its own text says; each has
an entry under `findings` with the line that says so.

| run | violated | because |
| --- | --- | --- |
| `JobCloseTwice` | `QueueIsSafe` | `Close` checks and closes `q.closed` in two steps; an idle timeout and a cancel can both pass the check |
| `JobFaultTwoHosts` | `FaultStops` (FairSpec) | `cancelChan` is unbuffered and read once; the second host that reports a fault waits for ever, and the cancel for it |
| `FrontierHead` | `ShippedAsDocumented` | the GET that follows a HEAD has depth 0 |
| `WorkersPrompt` | `Distributed` (FairSpec) | a page that comes before its call is registered is sent on a nil channel |

Some premises of the properties stand for behaviour that a reader of the code
should know of:

* `OneThread`: with `ThreadsPerSite > 1` a command runs in a goroutine that
  `q.wg` does not count (`fetch.go:406`), `Block` returns while it runs, and
  `RunJob` closes `sendChan` under it.
* `SeedAlone`: if the job is cancelled before the seed is sent, `Send` refuses it
  and `RunJob` leaves without `Block` (`job.go:784`), while commands that clients
  added in the meantime may still run.
* The logins in `NoPanic`: a rejected direct login returns a nil client and the
  nil error of `xpath.Compile` (`job.go:464`), after the message "Not
  proceeding", and the first request panics; a Chrome login whose script fails
  has a nil response, whose body is read before any error is looked at
  (`job.go:541-542`).
* `idle` and `badSeed` in `NoPanic`: with either, `doneChan` or `q.closed` has a
  second closer, and neither check excludes the other.
* `Stuck` in `CancelTerminates` and `CrawlFinishes`, the three ways in which a
  job waits for ever.  `CancelIgnored`: a host asks for a cancel when the
  canceller has had its one request (`doer.go:57`, `job.go:67`).  `PushBlocked`: a
  second push to `q.ch` after processQueue has gone (`fetch.go:195`).
  `PageBlocked`: a page for a full `sendChan` whose client is gone, when the
  canceller has taken the token of `stopChan` (`job.go:680`).  `JobSeed`
  reaches all three; the properties say that there is no fourth way.
* `ttlRace`: a command that arrives as the idle timer of its host expires is
  drained without being run, or sent to a channel that was just closed.
* `late`: a `Send` that looked at `q.closed` before `Close` and pushes after
  processQueue has gone reports success; its command stays in `q.ch`.
* `RawSeeds` in `FetchedOnce`: the seed is marked as it was given and links in
  normal form (`job.go:776`, `job.go:832`), so a link back to a seed that is not
  normal fetches it again.
* `AnchorOnly` in `ShippedAsAsked`: the test whether there is a pattern at all
  (`job.go:217`) leaves `callbackAnchorTextRegexp` out, so a job that has only
  that one ships every page, although `ideacrawler.proto:136` says that pages
  that match it are shipped and line 138 that only those are.
* `dropped` in `NothingLost` and `PagesArrive`: a response whose type is not the
  Mimetype of the job (`text/html` unless a client says otherwise) goes to
  fetchbot's handler that does nothing (`job.go:620`), and its request gets no
  answer of any kind; and what an idle timeout drains is gone.  `PagesArrive` also
  exempts what was pushed to a queue that is closed.
* `Seeded` in `JobEnds`: a job without a seed has no host loop until a page is
  added, so it has no idle timer either.
* No `broken` in `SessionEnds`: a client that is lost while `sendChan` is full
  hangs its job, see `PageBlocked`.
* No subscriber for links in `SessionEnds`: a handler that reads
  `analyzedURLConnected` before the channels are set (`worker.go:307`) waits for
  ever; this is the place `hung` of `task`, and `Session` reaches it.
* `feeder = "exited"` in `PagesArrive`: one bad URL ends the goroutine that
  takes pages (`job.go:702`), and all later pages of the job are lost.
* The premise of `NoNilSend`, which `SessionEnds` checks for one caller: if streams can fail to open *and* calls overlap,
  the call that failed sets `addPagesClient` to nil (`ideacrawlerclient.go:199`)
  under one that is about to use it.
* `~overlap` in `OneBrowser`, `DialsItsBrowser` and `TabsClosed`: two calls that
  find the browser down both start one (`chromeclient.go:86`), and the first is
  never stopped; a tab of the first is then looked for, or closed, in the second.
* `enabled` in `DialsItsBrowser`: a `Start` that fails after it has replaced `c`
  (`chromeclient.go:178-187`) leaves the `mgr` of an earlier browser, or nil.  `up`
  is true, so no later call starts again, and every tab is looked for in vain, or
  `newPage` panics, until the browser crashes.
* `JsCalls` and `unclosed` in `TabsClosed`: `doJS` never closes its tab, and the
  error of `CloseTarget` is not looked at (`chromeclient.go:243`); such tabs stay
  open for as long as the browser runs.
* `panic` in `CallsEnd` and `CrashIsNoticed`: `newPage` ignores the error of
  `CheckChromeProcess` (`chromeclient.go:209`) and uses a nil client or manager,
  `doJS` returns no response and no error for a status other than 200
  (`chromeclient.go:372`), and ignores the error of its last command
  (`chromeclient.go:438`).
* The exemptions in `CallsReturn`: a worker that is lost after `AddPage` never
  answers and its call has no timeout (`workermanager.go:110`), and a connected one
  does not answer when the response is not `text/html`; a worker whose second job
  could not be made, because its connection failed in between, joins with a nil
  job, as the check looks at `j` instead of `cj` (`workermanager.go:198`).

`StoppedIsComplete` is about the client, not about the program: when `IsAlive`
becomes false, pages may wait in `phChan` and `PageChan`.  A loop that reads
only while `IsAlive`, like the one of `main_test.go:200`, misses them.

Seen while reading, and outside of the model: `callbackXpathRegexp` compares
the value with the pattern's text and never compiles it (`job.go:255-262`);
`ideacrawler.proto` gives 600 as the least `maxIdleTime` and the code takes 10
(`job.go:661-667`); each `Doer` leaves a goroutine that produces random numbers
behind (`doer.go:103-111`); `execPrefetchReq` reads the body of a response that
is nil after an error (`doer.go:115`); `waitingList` keeps every registration
(`workermanager.go:90`); the goroutine of `GetAnalyzedURLs` never ends, since
nobody closes its channel (`worker.go:311`).

### Bounds

* Two hosts.  The interactions of hosts are pairwise: two hosts that share
  `cancelChan`, the semaphore, `sendChan` or `j.mu`, or one that is idle while
  the other is not.
* One `CancelJob` call: a second one finds that the canceller has left its select
  and waits, without an effect on the job.  The queue is closed by the canceller
  and by the `AutoClose` of each host; a host starts its next `Close` when its
  previous one has run, which is the bound on those.
* `SendCap = 1` instead of 1000: one page fills the buffer, the next one waits.
* `MaxCmds = 2` commands after the seed: enough for a host to be started by a
  link, to be restarted after it went idle, and for two commands to wait.  In
  `JobSeed` it is 3, so that after a link has started the second host both can
  push when the queue has closed.
* A lost interface is an event of `JobSeed`, being logged out one of `JobPages`;
  both ask for a cancel in the same way.  Idle timeouts are events of `JobPages`
  and `JobEnds`, where the queue closes by itself.
* The site of `MCCrawlFrontier` has a cycle, two paths of different length to
  one page, one page with two anchor texts, a link that leaves the site and comes
  back, and links and a seed that are not in normal form; depth limits are none, 1
  and 2.  The options that only say what is shipped (`callbackSeedUrl` and the two
  XPath patterns) are tried one at a time, each with all that say what is fetched.
* Two workers and three calls with `ChanCap = 2` (10 in the code), so that the
  channels fill up, a worker is lost in front of and behind the other, and a call
  can overtake another.
* Two requests in a session and 1 for the capacity of each channel and stream:
  with seven places between handler and program, two pages meet at every one of
  them, and every send has to wait in some state.  In `Session` the requests are
  of two goroutines, in `SessionEnds` of one; there the second may have a bad URL
  or a good one, and with a good one `sendChan` fills up as well.
* Three callers of the Chrome client, the one that makes it, one of the same and
  one of another job, so that two starts can overlap, and a browser can crash
  and be started again twice.

The theorems hold without the bounds on hosts, calls, workers, requests,
capacities and commands.

Deadlock is not checked: a job that has ended takes no step, and neither does a
server that has died of a panic.  That a job does not stop *before* its end is
what the liveness properties say.

### Fairness

Weak fairness of each goroutine that has been started: the Go scheduler runs
what can run.  Besides,

* a site answers or refuses (`Command(h)`).  The HTTP client has no timeout, so
  the code relies on it too;
* the idle timer of a loop that stays idle expires (`LoopIdle(h)`);
* a client that is still there reads its stream (`Listener`); losing it is
  `LoseClient`, which is not fair;
* a connected worker sends a page back (`Answer(c)`), or ignores the response;
* the program goes on reading `PageChan` and `AnalyzedURLChan` (`ReadPage`,
  `ReadList`): a client that does not read blocks its job by design;
* a command to a tab succeeds or fails (`Step(a)`); pages for which it does
  neither are in the place `endless`.

There is no fairness on clients (calls, new pages, `Stop`), on links or on faults, and
none on a select that could take one of several branches.  A send or receive on
a channel is one action of those who take part, so no strong fairness is needed.

## Proofs

The theorems are about `Spec`, for every value of the constants that satisfies
the `ASSUME` of its module: finitely many hosts or calls, any number of cancels,
workers and requests, any capacity above 0, any `Events`, any site, any options.

### JobRunProofs

| theorem | from |
| --- | --- |
| `TypeCorrect` | `TypeInv` |
| `BlockDrainsCorrect`, `NoSendAfterCloseCorrect`, `StreamEndsLastCorrect` | `DrainInv` |
| `NoPanicCorrect` | `DrainInv`, `CloseInv` |
| `JobLivesCorrect` | `TypeInv`, `DrainInv`, `LoginFirst` |

`TypeOK` is not inductive because of `stopChan \in 0..1`: that the listener puts
one token there and never comes back is `OneToken`.

That nothing is sent on the closed `sendChan` is the statement that `Block`
returned after every handler.  The argument, which is `DrainInv`: `q.done` is
closed after processQueue and all loops have ended (`DoneMeansDrained`); with
one thread a host a command runs inside its loop (`TaskHasLoop`); RunJob gets
to its deferred function past `Block`, or before there is a queue, or because
the queue refused the seed, and in that case, if clients add no pages, nothing
was ever sent (`LateMeansQuiet`, from `NotStarted` and `SeedFirst`); and the
first step of that function closes `sendChan` (`SendClosedLate`).  The premises
`OneThread` and `SeedAlone` of the properties are needed, for the reasons given
above.

`CloseInv` says who closes what.  `doneChan` has two closers and `q.closed` one
more than there are hosts, and no check excludes another; what excludes it is
that a job that never idles and has a good seed is closed by its canceller alone
(`ClosedByCanceller`): `Block` returns because the canceller closed the queue, and
it closes `doneChan` before that (`DoneThenCancel`), so that `RunJob` finds it
closed, or there never was a canceller (`DoneBeforeStart`).  The premise of
`NoPanic` is this choice, and the two logins.

`JobLivesCorrect` is the refinement of `JobLife`, with `OneThread` and `SeedAlone`
as assumptions of the theorem.  Eleven actions map to steps of `JobLife` and all
others to stutters.  `DrainInv` says that nobody is in the select when
`sendChan` is closed, and that no handler comes to it afterwards; `OneToken` that
who leaves the select by `stopChan` has lost its client; `LoginFirst` that the
page of the login is always let in, because there is no canceller yet.

### CrawlFrontierProofs

| theorem | from |
| --- | --- |
| `TypeCorrect` | itself |
| `FetchedOnceCorrect` | `OnceInv` |
| `NothingMissedCorrect` | `FoundInv` |
| `NothingElseCorrect` | itself and `PendingIsSent` |
| `ShippedAsAskedCorrect` | `LabelInv` |
| `DepthRespectedCorrect` | `DepthInv` |

`FetchedOnce` needs three things the property does not say: a URL that is not in
`duplicates` has not been asked for by seed or link, what links ask for is in
normal form (`LinksAreNormal`), so that two spellings cannot both be theirs, and
a HEAD command that is waiting is a GET still to be sent, so the two are counted
together (`HeadsArePromises`).  All that is assumed of `Normal` is that it is
idempotent.  `NothingMissed` speaks of the end of a crawl; during it,
everything seen was sent, everything sent is pending, read or failed, and the
eligible links of every page read were sent (`SeenIsSent`, `SentIsHandled`,
`ReadIsFollowed`).  `NothingElse` quantifies over all sets that are closed under
what the options allow, which says "reachable" without a recursive definition.
`ShippedAsAsked` needs the labels of waiting commands: without `CheckContent` a
command for a link has a depth above 0 and the anchor text of some link to its
URL (`LabelInv`).

`DepthRespected` is about the length of paths, and says so with a path (`Path(n,
url)` is a function on `0..n`), so that neither it nor its proof is recursive.
`DepthInv`: what waits at depth d has a path of d links from a seed or an added
page, and d is within the limit.  The depth in a command is what the code
carries along, so this is where a limit compared with the wrong depth would
show; a link extends the path of its page by one (`PathStep`).

### WorkerManagerProofs

| theorem | from |
| --- | --- |
| `TypeCorrect` | itself |
| `BalancedCorrect`, `NoneForgottenCorrect` | `RotationInv` |
| `OneWorkerEachCorrect` | itself, counting with `FiniteSetTheorems` |

`Balanced` is not inductive: it does not say *who* is next.  `InTurn` does: who
comes earlier in the rotation was handed out as often as who comes later, or
once less; handing out the first connected one and appending it keeps that.
`NoneForgotten` needs that a connection that has not been made is not in the
rotation yet (`NewIsOutside`), or it could be added twice.

### SessionProofs, DeliveryProofs and RequestProofs

| theorem | from |
| --- | --- |
| `TypeCorrect` | itself |
| `DeliversCorrect` | `TypeOK`, `HandsInv`, `StartsInv` |
| `StoppedCorrect` | `EndInv` |
| `NoNilSendCorrect` | `NilInv` |
| `JobLivesCorrect` | `TypeOK`, `EndInv`, `LifeInv` |
| `OneAnswerEachCorrect`, `NothingLostCorrect` | `RequestInv`, `OpenInv`, `WorkInv` |

`DeliversCorrect` is the refinement: `Init` maps to `Init`, and each action to
`Ship`, `Get`, `Lose` or a stutter.  For a move from one channel to the next to
be a stutter, the hand in between must be empty before the receive; `HandsInv`
says so, and needs `StartsInv`, that each goroutine is started once.  The lemmas
about concatenation (`Shift`, `TakeFirst`, `Prefix`) carry the rest.

`StoppedIsComplete` speaks of the end of a chain, and `EndInv` of each link: the
queue and the handler are done before `sendChan` is closed, `sendChan` is empty
before the stream ends, the stream before `run` leaves its loop.

`NilInv`: a call that is about to send found a stream, and nobody has taken it
away since, because streams open or because the caller is alone.

`JobLivesCorrect` is the second refinement: the job of the session implements
`JobLife`, as `JobRun` does.  `LifeInv` adds that a token in `stopChan` means a
lost listener, that there is no listener without a job, and that a handler has
one page.

`OneAnswerEach` speaks of six sequences behind each other, and a request that
gets into them comes from the streams of all calls.  `RequestInv` covers the
whole way: no request is twice among those the server has taken (`Once`), none of
these is on a stream too, and none is on two streams or twice on one (`Apart`),
none is there that no call has sent (`Asked`), and, while the job is open, none that was sent is missing
(`Safe`) but those in `dropped`.  Most steps move one request to the next place or drop some; they are
*quiet*: the set of requests on the way does not grow, and while the job is open
does not shrink except into `dropped`.  A command between the two steps of `Send`
counts as waiting (`Waiting` is `queue` and `feeding`), wherever it ends.  `QuietKeeps` shows once that a quiet step keeps `RequestInv`,
and one lemma for each step shows that it is quiet; only `SendCall`, which puts a
new request on a stream, and `AddPagesPush`, which moves one from a stream to
`reqChan`, are treated by themselves.  That a request is refused or a page
dropped only when the job is no longer open is `OpenInv`: doneChan and sendChan
are closed after the queue, and `connected` is reset, or a token left, only after
a break.  The lemmas about sequences (`JoinParts` and others) say what
concatenation does to the set of elements and to injectivity.

### ChromeClientProofs

All four theorems follow from `Inv`: the types, `KnownInv`, `OverlapSeen`,
`WaiterInv` and `TabInv`.  `OneBrowser` needs the reason why a second browser is
not started: `up` is true while one runs.  That is a property of the goroutine
of `Start`, which sets `up` *after* the browser has been started and waits for
whatever `chromeCmd` is; `WaiterInv` says that, without overlap, it belongs to
the one browser there is and finds its own Cmd.  `DialsItsBrowser` and
`TabsClosed` need `TabInv`: a request works on a tab of the client that is there,
and its manager is that of the client, except within `Start`, if `Start` has set
the client up to the end.  As a `Start` that fails half-way leaves anything as
the manager, `TabInv` also says that a client is set up by the call that
connected it, and not before that call leaves `Start`.

### With TLC only

* Liveness (`CancelTerminates`, `StreamEnds`, `CrawlFinishes`, `CallsReturn`,
  `DeliversAll`, `PagesArrive`, `EndIsSeen`, `CrashIsNoticed`, `CallsEnd`): out of
  the prover's reach.

All invariants, and all refinements without fairness, that a passing run checks are
proved.

## Not modelled

* `Stop` of the Chrome client: only `zmain` uses it, which nothing calls.  What a
  browser, a site or gRPC does is external.
* `prefetchurl` and the prefetching of `doer.go`: parsing, and requests whose
  answers are thrown away.
* robots.txt, crawl delay and the slice queues of fetchbot: they delay commands
  and keep their order per host, on which no property rests.
* Several jobs at once in `JobRun` and `Session`: jobs share the map of
  `jobManager`, the browser and the workers; the last two are the subject of
  `ChromeClient` and `WorkerManager`.
* `main.go`, `options.go`, generated code, the Python client, the examples and
  the status codes: no state of their own.

## Plan

1. `FetchQueue`: the queue in detail (`q.ch` with its buffer, `processQueue`'s
   table of hosts, the slice queues with `inch` and `out`, the idle timer), with
   the queue that `JobRun` assumes as its abstract specification.
2. `CancelOnDisconnect` in `Session`.
