--------------------------- MODULE WorkerManager ---------------------------
(***************************************************************************)
(* The cluster server's side of its workers (workermanager.go,             *)
(* workerqueue.go): run keeps the rotation of workers, respHandler matches *)
(* the pages that workers send back with the calls that wait for them, and *)
(* Do, which the hosts of all jobs call at the same time, uses both.       *)
(*                                                                         *)
(* A worker here is one connection: one that comes back is a new worker.   *)
(* A call of Do stands for its request; its id, a UUID, is the call        *)
(* itself.  What a worker does with a page is done by a job of the same    *)
(* program, made by newWorkerJob: it sends one page back for each request  *)
(* that fails or whose response is of the job's Mimetype, and none for the *)
(* others.  These jobs follow no links and have a year of idle time.       *)
(***************************************************************************)
EXTENDS Integers, Sequences, FiniteSets, Functions

CONSTANTS
  Workers,      \* connections that workers make
  Calls,        \* calls of Do, of either manager
  ChromeCalls,  \* those of chromeWorkerManager.Do
  NoWorker,     \* the nil worker
  ChanCap,      \* capacity of addChan and nextChan (10 in the code)
  Events        \* what the environment may do in this instance

AllEvents ==
  { "lost",         \* the connection of a worker breaks
    "chromeFails",  \* the second job of a worker cannot be made
    "otherType",    \* a response is not of the Mimetype of the worker's job
    "prompt" }      \* a page comes back before its call is registered

ASSUME ManagerAssumption ==
  /\ ChromeCalls \subseteq Calls
  /\ IsFiniteSet(Calls) /\ "select" \notin Calls
  /\ NoWorker \notin Workers
  /\ "none" \notin Workers \union {NoWorker}
  /\ ChanCap \in Nat \ {0}
  /\ Events \subseteq AllEvents

VARIABLES
  conn,      \* state of each connection
  chrome,    \* workers whose cJob is not nil
  addChan,   \* workers to be added to the rotation
  workers,   \* wm.workers, the rotation
  nextReqs,  \* tokens in nextReqChan
  offer,     \* what run is about to put into nextChan
  nextChan,  \* workers handed out and not yet taken
  call,      \* control state of each call
  target,    \* the worker a call uses
  waiting,   \* keys of waitingList
  pageChan,  \* pages that have come back, by their call
  handler,   \* the call whose page respHandler delivers
  ignored,   \* calls whose response the worker's job handed to nobody
  turns,     \* how often each worker was handed out since one was added
  panic      \* a nil job was used

connVars == <<conn, chrome>>
rotation == <<addChan, workers, nextReqs, offer, nextChan, turns>>
callVars == <<call, target>>
pageVars == <<waiting, pageChan, handler, ignored>>
vars == <<conn, chrome, addChan, workers, nextReqs, offer, nextChan, call,
          target, waiting, pageChan, handler, ignored, turns, panic>>

CallStates == {"idle", "next", "add", "register", "await", "done", "failed"}

TypeOK ==
  /\ conn \in [Workers -> {"new", "ready", "lost"}]
  /\ chrome \subseteq Workers
  /\ addChan \in Seq(Workers) /\ Len(addChan) <= ChanCap
  /\ workers \in Seq(Workers)
  /\ nextReqs \in Nat
  /\ offer \in {"none"} \union Workers \union {NoWorker}
  /\ nextChan \in Seq(Workers \union {NoWorker}) /\ Len(nextChan) <= ChanCap
  /\ call \in [Calls -> CallStates]
  /\ target \in [Calls -> Workers \union {NoWorker}]
  /\ waiting \subseteq Calls
  /\ pageChan \in Seq(Calls)
  /\ handler \in {"select"} \union Calls
  /\ ignored \subseteq Calls
  /\ turns \in [Workers -> Nat]
  /\ panic \in BOOLEAN

Init ==
  /\ conn = [w \in Workers |-> "new"] /\ chrome = {}
  /\ addChan = <<>> /\ workers = <<>>
  /\ nextReqs = 0 /\ offer = "none" /\ nextChan = <<>>
  /\ call = [c \in Calls |-> "idle"]
  /\ target = [c \in Calls |-> NoWorker]
  /\ waiting = {} /\ pageChan = <<>> /\ handler = "select" /\ ignored = {}
  /\ turns = [w \in Workers |-> 0]
  /\ panic = FALSE

-----------------------------------------------------------------------------
(* The rotation.                                                           *)

\* createNewClient: both jobs are made, but the error of the second is not looked
\* at.
CreateNewClient(w) ==
  /\ conn[w] = "new"
  /\ Len(addChan) < ChanCap
  /\ conn' = [conn EXCEPT ![w] = "ready"]
  /\ \/ chrome' = chrome \union {w}
     \/ "chromeFails" \in Events /\ UNCHANGED chrome
  /\ addChan' = Append(addChan, w)
  /\ UNCHANGED <<workers, nextReqs, offer, nextChan, callVars, pageVars, turns,
                 panic>>

LoseWorker(w) ==
  /\ "lost" \in Events
  /\ conn[w] = "ready"
  /\ conn' = [conn EXCEPT ![w] = "lost"]
  /\ UNCHANGED <<chrome, rotation, callVars, pageVars, panic>>

\* run, on the case of addChan.
RunAdd ==
  /\ offer = "none"
  /\ addChan # <<>>
  /\ workers' = Append(workers, Head(addChan))
  /\ addChan' = Tail(addChan)
  /\ turns' = [w \in Workers |-> 0]
  /\ UNCHANGED <<connVars, nextReqs, offer, nextChan, callVars, pageVars, panic>>

\* The connected workers' places in the rotation, and the first of them.
ReadyPlaces == {i \in DOMAIN workers : conn[workers[i]] = "ready"}

FirstReady(i) == i \in ReadyPlaces /\ \A j \in ReadyPlaces : i <= j

\* A slip: the worker is not pushed back.
HandOutForgotten(i) ==
  /\ offer' = workers[i]
  /\ workers' = SubSeq(workers, i + 1, Len(workers))
  /\ turns' = [turns EXCEPT ![workers[i]] = @ + 1]

\* A slip: the worker is pushed back in front.
HandOutInFront(i) ==
  /\ offer' = workers[i]
  /\ workers' = SubSeq(workers, i, Len(workers))
  /\ turns' = [turns EXCEPT ![workers[i]] = @ + 1]

\* The worker at place i is handed out and goes to the end; the ones before it,
\* that are lost, are dropped.
HandOut(i) ==
  /\ offer' = workers[i]
  /\ workers' = Append(SubSeq(workers, i + 1, Len(workers)), workers[i])
  /\ turns' = [turns EXCEPT ![workers[i]] = @ + 1]

\* A slip: without a worker nothing is handed out.
NextOfQueueSilent ==
  IF ReadyPlaces = {}
    THEN workers' = <<>> /\ UNCHANGED <<offer, turns>>
    ELSE \E i \in ReadyPlaces : FirstReady(i) /\ HandOut(i)

\* workerQueue.next: the first connected worker, or nil.
NextOfQueue ==
  IF ReadyPlaces = {}
    THEN offer' = NoWorker /\ workers' = <<>> /\ UNCHANGED turns
    ELSE \E i \in ReadyPlaces : FirstReady(i) /\ HandOut(i)

\* run, on the case of nextReqChan ...
RunNext ==
  /\ offer = "none"
  /\ nextReqs > 0
  /\ nextReqs' = nextReqs - 1
  /\ NextOfQueue
  /\ UNCHANGED <<connVars, addChan, nextChan, callVars, pageVars, panic>>

\* A slip: run does not wait for room in nextChan.
RunOfferUnbounded ==
  /\ offer # "none"
  /\ nextChan' = Append(nextChan, offer)
  /\ offer' = "none"
  /\ UNCHANGED <<connVars, addChan, workers, nextReqs, callVars, pageVars, turns,
                 panic>>

\* ... then the worker goes into nextChan.
RunOffer ==
  /\ offer # "none"
  /\ Len(nextChan) < ChanCap
  /\ nextChan' = Append(nextChan, offer)
  /\ offer' = "none"
  /\ UNCHANGED <<connVars, addChan, workers, nextReqs, callVars, pageVars, turns,
                 panic>>

-----------------------------------------------------------------------------
(* Do, and the pages that come back.                                       *)

\* nextWorker: ask for a worker, and take the next one that is handed out.
AskWorker(c) ==
  /\ call[c] = "idle"
  /\ nextReqs < ChanCap
  /\ call' = [call EXCEPT ![c] = "next"]
  /\ nextReqs' = nextReqs + 1
  /\ UNCHANGED <<connVars, addChan, workers, offer, nextChan, target, pageVars,
                 turns, panic>>

TakeWorker(c) ==
  /\ call[c] = "next"
  /\ nextChan # <<>>
  /\ nextChan' = Tail(nextChan)
  /\ target' = [target EXCEPT ![c] = Head(nextChan)]
  /\ call' = [call EXCEPT ![c] = IF Head(nextChan) = NoWorker THEN "failed"
                                                               ELSE "add"]
  /\ UNCHANGED <<connVars, addChan, workers, nextReqs, offer, pageVars, turns,
                 panic>>

\* AddPage of the worker's job.  A lost connection may go unnoticed.
AddPage(c) ==
  LET w == target[c]
  IN  /\ call[c] = "add"
      /\ IF c \in ChromeCalls /\ w \notin chrome
           THEN panic' = TRUE /\ UNCHANGED call
           ELSE /\ \/ call' = [call EXCEPT ![c] = "register"]
                   \/ /\ conn[w] = "lost"
                      /\ call' = [call EXCEPT ![c] = "failed"]
                /\ UNCHANGED panic
      /\ UNCHANGED <<connVars, rotation, target, pageVars>>

\* The call meets respHandler on waitRegnChan.
Register(c) ==
  /\ call[c] = "register"
  /\ handler = "select"
  /\ call' = [call EXCEPT ![c] = "await"]
  /\ waiting' = waiting \union {c}
  /\ UNCHANGED <<connVars, rotation, target, pageChan, handler, ignored, panic>>

\* The worker's job has a response for the call, the first.
Responds(c) ==
  /\ \/ call[c] = "await"
     \/ call[c] = "register" /\ "prompt" \in Events
  /\ conn[target[c]] = "ready"
  /\ c # handler /\ c \notin Range(pageChan) \union ignored

\* It is sent back as a page ...
Answer(c) ==
  /\ Responds(c)
  /\ pageChan' = Append(pageChan, c)
  /\ UNCHANGED <<connVars, rotation, callVars, waiting, handler, ignored, panic>>

\* ... or it has another type than the worker's job handles, and goes to the
\* handler that does nothing.
IgnoreType(c) ==
  /\ "otherType" \in Events
  /\ Responds(c)
  /\ ignored' = ignored \union {c}
  /\ UNCHANGED <<connVars, rotation, callVars, waiting, pageChan, handler, panic>>

\* respHandler takes a page ...
TakePage ==
  /\ handler = "select"
  /\ pageChan # <<>>
  /\ handler' = Head(pageChan)
  /\ pageChan' = Tail(pageChan)
  /\ UNCHANGED <<connVars, rotation, callVars, waiting, ignored, panic>>

\* A slip: respHandler does not come back for the next page.
DeliverOnce(c) ==
  /\ handler = c
  /\ c \in waiting
  /\ call[c] = "await"
  /\ call' = [call EXCEPT ![c] = "done"]
  /\ UNCHANGED <<connVars, rotation, target, pageVars, panic>>

\* ... and sends it to the call that waits for it.  Without a registration the
\* channel is nil, and a send on it blocks for ever.
Deliver(c) ==
  /\ handler = c
  /\ c \in waiting
  /\ call[c] = "await"
  /\ call' = [call EXCEPT ![c] = "done"]
  /\ handler' = "select"
  /\ UNCHANGED <<connVars, rotation, target, waiting, pageChan, ignored, panic>>

-----------------------------------------------------------------------------
Run == RunAdd \/ RunNext \/ RunOffer

RespHandler == TakePage \/ \E c \in Calls : Deliver(c)

\* A call that has begun.
Do(c) == TakeWorker(c) \/ AddPage(c) \/ Register(c)

Next ==
  /\ ~panic
  /\ \/ Run \/ RespHandler
     \/ \E w \in Workers : CreateNewClient(w) \/ LoseWorker(w)
     \/ \E c \in Calls : AskWorker(c) \/ Do(c) \/ Answer(c) \/ IgnoreType(c)

Spec == Init /\ [][Next]_vars

(***************************************************************************)
(* The two goroutines and the calls that have begun run when they can, and *)
(* the jobs of connected workers see to each request.                      *)
(***************************************************************************)
Fairness ==
  /\ WF_vars(Run /\ ~panic)
  /\ WF_vars(RespHandler /\ ~panic)
  /\ \A c \in Calls : /\ WF_vars(Do(c) /\ ~panic)
                      /\ WF_vars((Answer(c) \/ IgnoreType(c)) /\ ~panic)

FairSpec == Spec /\ Fairness

-----------------------------------------------------------------------------
(* What the manager promises.                                              *)

(***************************************************************************)
(* The load is spread: between two connected workers in the rotation, one  *)
(* is never handed out twice more than the other, whatever the calls and   *)
(* the losses of other workers.                                            *)
(***************************************************************************)
Balanced ==
  \A v, w \in Range(workers) : turns[v] <= turns[w] + 1

(***************************************************************************)
(* No connected worker falls out of the rotation, and none is in it twice: *)
(* next drops only workers that are lost.                                  *)
(***************************************************************************)
NoneForgotten ==
  LET all == workers \o addChan
  IN  /\ IsInjective(all)
      /\ \A w \in Workers : conn[w] = "ready" => w \in Range(all)

(***************************************************************************)
(* The workers that are handed out but not taken, and the requests that    *)
(* wait for one, are as many as the calls that wait in nextWorker: none of *)
(* them takes the worker of another call and leaves it without.            *)
(***************************************************************************)
OneWorkerEach ==
  Cardinality({c \in Calls : call[c] = "next"}) =
    nextReqs + Len(nextChan) + (IF offer = "none" THEN 0 ELSE 1)

(***************************************************************************)
(* Every call of Do that has begun returns, with a page or with an error,  *)
(* unless the worker it uses is lost, or the worker's job ignored the type *)
(* of the response, or respHandler is stuck because a page overtook the    *)
(* registration of its call, or a nil job was used: of the calls of Do,    *)
(* which are finitely many, again and again none else is on its way.       *)
(***************************************************************************)
CallsReturn ==
  []<>(\/ panic
       \/ handler # "select" /\ handler \notin waiting
       \/ \A c \in Calls : \/ call[c] \in {"idle", "done", "failed"}
                           \/ call[c] = "await" /\ c \in ignored
                           \/ target[c] \in Workers /\ conn[target[c]] = "lost")

-----------------------------------------------------------------------------
(* What the README says of the cluster, where the code does otherwise.     *)

\* "In cluster mode, jobs from a single client get distributed to multiple
\* workers automatically" (README.md): the page that a call has a connected
\* worker fetch comes back to it.
Distributed == \A c \in Calls : call[c] = "register" ~> call[c] = "done"
=============================================================================
