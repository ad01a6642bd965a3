---------------------------- MODULE JobRunProofs ----------------------------
(***************************************************************************)
(* Proofs about JobRun: its type invariant, and what q.Block() and the     *)
(* order of the two closes in RunJob guarantee, for every set of hosts,    *)
(* every number of CancelJob calls and every bound.                        *)
(***************************************************************************)
EXTENDS JobRun, TLAPS

-----------------------------------------------------------------------------
(* The inductive invariant, part by part.                                  *)

Early == {"logger", "client", "loginPage", "start", "leaked"}
Late  == {"closeSend", "checkDone", "closeDone", "exited"}

\* Nothing runs and nothing can be sent.
Barren == Quiet /\ \A h \in Hosts : queued[h] = 0

\* The listener leaves at most one token in stopChan, as its last step.
OneToken == listener # "lost" => stopChan = 0

\* Before f.Start() there is no queue, no canceller and no closer; the queue
\* exists from then on.
NotStarted ==
  /\ main \in Early => pq = "off"
  /\ main \in {"seed", "seedPush", "block"} => pq # "off"
  /\ pq = "off" => /\ Barren
                   /\ canceller = "off" /\ pages = "off"
                   /\ closing = [c \in Closers |-> "off"]
                   /\ ~qDone

\* q.Block() returns only after processQueue and all loops.
DoneMeansDrained == qDone => pq = "exited" /\ loops = {}

\* The command a host works on is run by its loop.
TaskHasLoop == OneThread => \A h \in Hosts : task[h] # "none" => h \in loops

\* Requests come in on reqChan only if clients call AddPages.
PagesNeedClients == pages = "push" => "addPage" \in Events

\* Until the seed is pushed there is nothing to do, if clients add no pages.
SeedFirst ==
  "addPage" \notin Events /\ main \in {"seed", "seedPush"} => Barren

\* RunJob gets to its deferred function past q.Block(), before f.Start(), or
\* with a queue that nothing was ever sent to.
LateMeansQuiet ==
  SeedAlone /\ main \in Late =>
    \/ qDone
    \/ pq = "off"
    \/ "addPage" \notin Events /\ Barren

\* sendChan is closed by the first step of that function.
SendClosedLate == sendClosed <=> main \in {"checkDone", "closeDone", "exited"}

\* The stream ends on a closed and empty channel.
EndedMeansClosed == listener = "ended" => sendClosed /\ sendBuf = 0

TypeInv == TypeOK /\ OneToken

DrainInv ==
  /\ NotStarted /\ DoneMeansDrained /\ TaskHasLoop
  /\ PagesNeedClients /\ SeedFirst /\ LateMeansQuiet /\ SendClosedLate
  /\ EndedMeansClosed /\ NoSendAfterClose

-----------------------------------------------------------------------------
(* Who closes what.                                                        *)

\* Only RunJob closes doneChan while there is no queue.
DoneBeforeStart == pq = "off" /\ doneClosed => main = "exited"

\* The canceller closes doneChan before it cancels the queue.
DoneThenCancel ==
  /\ canceller = "qCancel" => doneClosed
  /\ closing["cancel"] # "off" => canceller = "exited" /\ doneClosed

\* A queue is closed by a call of Close, and processQueue ends after that.
ClosedByCloser ==
  /\ pq = "exited" => qClosed
  /\ qClosed <=> \E c \in Closers : closing[c] \in {"drain", "exited"}

\* Faults have causes.
CausesOfCancel ==
  /\ login = "rejected" => "loginRejected" \in Events
  /\ stopChan > 0 => "disconnect" \in Events
  /\ \A h \in Hosts :
       /\ task[h] = "ifaceCancel" => "ifaceGone" \in Events
       /\ task[h] = "lostCancel" => "disconnect" \in Events
       /\ task[h] = "logoutCancel" => "loggedOut" \in Events
       /\ after[h] = "logoutCancel" => "loggedOut" \in Events

\* A job that never idles, with a good seed, is closed by its canceller alone:
\* RunJob finds doneChan closed, or never had a canceller.
ClosedByCanceller ==
  {"idle", "badSeed"} \cap Events = {} =>
    /\ \A h \in Hosts : closing[h] = "off"
    /\ canceller \in {"select", "closeDone"} => ~doneClosed
    /\ main \in Late /\ pq # "off" => doneClosed
    /\ main = "closeDone" => pq = "off"
    /\ closing["cancel"] = "close" => ~qClosed

CloseInv ==
  /\ DoneBeforeStart /\ DoneThenCancel /\ ClosedByCloser /\ CausesOfCancel
  /\ ClosedByCanceller /\ NoPanic

-----------------------------------------------------------------------------
(* The type invariant.                                                     *)

LEMMA TypeStep == TypeInv /\ Next => TypeInv'
<1> SUFFICES ASSUME TypeInv, Next PROVE TypeInv'
  OBVIOUS
<1> USE JobAssumption DEF TypeInv, TypeOK, OneToken, MainStates, TaskStates
<1>c. "cancel" \in Closers /\ Hosts \subseteq Closers
  BY DEF Closers
<1>1. CASE SetupJobLogger
  BY <1>1 DEF SetupJobLogger, queueVars, pageVars, rpcVars
<1>2. CASE MakeHTTPClient
  BY <1>2 DEF MakeHTTPClient, queueVars, pageVars, rpcVars
<1>3. CASE SendLoginPage
  <2>1. connected' \in BOOLEAN
    BY <1>3 DEF SendLoginPage
  <2>2. QED
    BY <1>3, <2>1 DEF SendLoginPage, queueVars, rpcVars,
       AfterLogin
<1>4. CASE StartQueue
  BY <1>4 DEF StartQueue, cmdVars, pageVars, rpcVars
<1>5. CASE SendSeed
  BY <1>5 DEF SendSeed, queueVars, pageVars, rpcVars, Linking
<1>6. CASE PushSeed
  BY <1>6 DEF PushSeed, pageVars, rpcVars, SendPush
<1>7. CASE Block
  BY <1>7 DEF Block, queueVars, pageVars, rpcVars
<1>8. CASE CloseSendChan
  BY <1>8 DEF CloseSendChan, queueVars, rpcVars
<1>9. CASE CheckDoneChan
  BY <1>9 DEF CheckDoneChan, queueVars, pageVars, rpcVars
<1>10. CASE CloseDoneChan
  <2>1. doneClosed' \in BOOLEAN
    BY <1>10 DEF CloseDoneChan
  <2>2. QED
    BY <1>10, <2>1 DEF CloseDoneChan, queueVars, pageVars, rpcVars
<1>11. CASE CancellerSeesDone
  BY <1>11 DEF CancellerSeesDone, queueVars, pageVars, rpcVars
<1>12. CASE CancellerSeesStop
  BY <1>12 DEF CancellerSeesStop, queueVars, rpcVars
<1>13. CASE CancellerClosesDone
  <2>1. doneClosed' \in BOOLEAN
    BY <1>13 DEF CancellerClosesDone
  <2>2. QED
    BY <1>13, <2>1 DEF CancellerClosesDone, queueVars, pageVars,
       rpcVars
<1>14. CASE CancelQueue
  BY <1>14, <1>c DEF CancelQueue, cmdVars, pageVars, rpcVars
<1>15. CASE SendSubscription
  BY <1>15 DEF SendSubscription, listenUnchanged, rpcVars, queueVars
<1>16. CASE StreamPage
  BY <1>16 DEF StreamPage, listenUnchanged, rpcVars, queueVars
<1>17. CASE EndStream
  BY <1>17 DEF EndStream, listenUnchanged, rpcVars, queueVars
<1>18. CASE LoseClient
  BY <1>18 DEF LoseClient, listenUnchanged, rpcVars, queueVars
<1>19. CASE HandlePage
  BY <1>19 DEF HandlePage, pageVars, rpcVars, SendCheck
<1>20. CASE PushPage
  BY <1>20 DEF PushPage, pageVars, rpcVars, SendPush
<1>21. CASE PagesSeeDone
  BY <1>21 DEF PagesSeeDone, queueVars, pageVars, rpcVars
<1>22. CASE ReapJob
  <2>1. registered' \in BOOLEAN
    BY <1>22 DEF ReapJob
  <2>2. QED
    BY <1>22, <2>1 DEF ReapJob, queueVars, pageVars
<1>23. CASE QueueExit
  BY <1>23 DEF QueueExit, pageVars, rpcVars
<1>24. ASSUME NEW c \in Closers, CloseCheck(c) PROVE TypeInv'
  BY <1>24 DEF CloseCheck, queueVars, pageVars, rpcVars
<1>25. ASSUME NEW c \in Closers, CloseMark(c) PROVE TypeInv'
  <2>1. qClosed' \in BOOLEAN
    BY <1>25 DEF CloseMark, queueVars, cmdVars
  <2>2. /\ closing' \in [Closers -> {"off", "check", "close", "drain", "exited"}]
        /\ panic' \in {panic, "queueClosedTwice"}
    BY <1>25 DEF CloseMark
  <2>3. QED
    BY <1>25, <2>1, <2>2 DEF CloseMark, cmdVars, pageVars, rpcVars
<1>26. ASSUME NEW c \in Closers, CloseDrain(c) PROVE TypeInv'
  BY <1>26 DEF CloseDrain, cmdVars, pageVars, rpcVars, WgZero
<1>27. ASSUME NEW h \in Hosts, LoopStart(h) PROVE TypeInv'
  BY <1>27 DEF LoopStart, cmdVars, pageVars, rpcVars
<1>28. ASSUME NEW h \in Hosts, LoopExit(h) PROVE TypeInv'
  BY <1>28 DEF LoopExit, pageVars, rpcVars, LoopFree
<1>29. ASSUME NEW h \in Hosts, LoopIdle(h) PROVE TypeInv'
  <2>1. closing' \in [Closers -> {"off", "check", "close", "drain", "exited"}]
    BY <1>29, <1>c DEF LoopIdle, AutoClose
  <2>2. QED
    BY <1>29, <2>1 DEF LoopIdle, cmdVars, pageVars, rpcVars
<1>60. ASSUME NEW h \in Hosts, LoopIdleRace(h) PROVE TypeInv'
  <2>1. closing' \in [Closers -> {"off", "check", "close", "drain", "exited"}]
    BY <1>60, <1>c DEF LoopIdleRace, AutoClose
  <2>2. QED
    BY <1>60, <2>1 DEF LoopIdleRace, pageVars, rpcVars
<1>30. ASSUME NEW h \in Hosts, StartCommand(h) PROVE TypeInv'
  BY <1>30 DEF StartCommand, pageVars, taskUnchanged, NilClient, rpcVars
<1>31. ASSUME NEW h \in Hosts, Acquire(h) PROVE TypeInv'
  BY <1>31 DEF Acquire, pageVars, taskUnchanged, InDo, rpcVars
<1>32. ASSUME NEW h \in Hosts, DoRequest(h) PROVE TypeInv'
  BY <1>32 DEF DoRequest, pageVars, taskUnchanged, rpcVars
<1>33. ASSUME NEW h \in Hosts, FetchErrorHandler(h) PROVE TypeInv'
  BY <1>33 DEF FetchErrorHandler, pageVars, taskUnchanged, rpcVars
<1>34. ASSUME NEW h \in Hosts, VisitPage(h) PROVE TypeInv'
  BY <1>34 DEF VisitPage, pageVars, taskUnchanged, rpcVars
<1>35. ASSUME NEW h \in Hosts, HeadHandler(h) PROVE TypeInv'
  BY <1>35 DEF HeadHandler, pageVars, taskUnchanged, SendCheck, rpcVars
<1>36. ASSUME NEW h \in Hosts, PushHead(h) PROVE TypeInv'
  BY <1>36 DEF PushHead, pageVars, taskUnchanged, SendPush, rpcVars
<1>37. ASSUME NEW h \in Hosts, LockLinks(h) PROVE TypeInv'
  BY <1>37 DEF LockLinks, pageVars, taskUnchanged, Linking, rpcVars
<1>38. ASSUME NEW h \in Hosts, EnqueueLink(h) PROVE TypeInv'
  BY <1>38 DEF EnqueueLink, pageVars, taskUnchanged, SendCheck, rpcVars
<1>39. ASSUME NEW h \in Hosts, PushLink(h) PROVE TypeInv'
  BY <1>39 DEF PushLink, pageVars, taskUnchanged, SendPush, rpcVars
<1>40. ASSUME NEW h \in Hosts, ShipPage(h) PROVE TypeInv'
  BY <1>40 DEF ShipPage, pageVars, taskUnchanged, rpcVars
<1>41. ASSUME NEW h \in Hosts, SendPageHTML(h) PROVE TypeInv'
  BY <1>41 DEF SendPageHTML, pageVars, taskUnchanged, AfterSend, rpcVars
<1>42. ASSUME NEW h \in Hosts, SelectStop(h) PROVE TypeInv'
  <2>1. connected' \in BOOLEAN
    BY <1>42 DEF SelectStop
  <2>2. QED
    BY <1>42, <2>1 DEF SelectStop, taskUnchanged, AfterSend,
       rpcVars
<1>43. ASSUME NEW h \in Hosts, SelectSend(h) PROVE TypeInv'
  BY <1>43 DEF SelectSend, taskUnchanged, AfterSend, rpcVars
<1>44. ASSUME NEW h \in Hosts, CancelFromTask(h) PROVE TypeInv'
  BY <1>44 DEF CancelFromTask, queueVars, pageVars, rpcVars, AfterSend
<1>45. ASSUME NEW c \in Cancels, LookupJob(c) PROVE TypeInv'
  BY <1>45 DEF LookupJob, queueVars, pageVars
<1>46. ASSUME NEW c \in Cancels, CancelJob(c) PROVE TypeInv'
  BY <1>46 DEF CancelJob, queueVars, pageVars
<1>47. QED
  BY <1>1, <1>2, <1>3, <1>4, <1>5, <1>6, <1>7, <1>8, <1>9, <1>10, <1>11,
     <1>12, <1>13, <1>14, <1>15, <1>16, <1>17, <1>18, <1>19, <1>20, <1>21,
     <1>22, <1>23, <1>24, <1>25, <1>26, <1>27, <1>28, <1>29, <1>60, <1>30, <1>31,
     <1>32, <1>33, <1>34, <1>35, <1>36, <1>37, <1>38, <1>39, <1>40, <1>41,
     <1>42, <1>43, <1>44, <1>45, <1>46
     DEF Next, RunJob, Canceller, Listener, Close, Loop, Command

LEMMA TypeStutter == TypeInv /\ UNCHANGED vars => TypeInv'
  BY DEF TypeInv, TypeOK, OneToken, vars

LEMMA TypeInit == Init => TypeInv
<1> SUFFICES ASSUME Init PROVE TypeInv
  OBVIOUS
<1>1. /\ doneClosed \in BOOLEAN /\ sendClosed \in BOOLEAN
      /\ qCancelled \in BOOLEAN /\ qClosed \in BOOLEAN /\ qDone \in BOOLEAN
      /\ connected \in BOOLEAN /\ registered \in BOOLEAN
  BY DEF Init
<1>2. /\ closing \in [Closers -> {"off", "check", "close", "drain", "exited"}]
      /\ queued \in [Hosts -> Nat]
      /\ task \in [Hosts -> TaskStates]
      /\ after \in [Hosts -> {"return", "logoutCancel"}]
      /\ rpc \in [Cancels -> {"idle", "send", "ok", "notFound"}]
  BY DEF Init, TaskStates, Closers
<1>3. /\ issued \in 0..MaxCmds /\ sendBuf \in 0..SendCap
      /\ late \in 0..1 /\ stopChan \in 0..1 /\ loops \subseteq Hosts
  BY JobAssumption DEF Init
<1>4. QED
  BY <1>1, <1>2, <1>3 DEF Init, TypeInv, TypeOK, OneToken, MainStates

(***************************************************************************)
(* Every variable of a job keeps its type; in particular sendChan and      *)
(* stopChan never exceed what is put into them: the listener leaves one    *)
(* token at most.                                                          *)
(***************************************************************************)
THEOREM TypeCorrect == Spec => []TypeOK
<1>1. Init => TypeInv
  BY TypeInit
<1>2. TypeInv /\ [Next]_vars => TypeInv'
  BY TypeStep, TypeStutter
<1>3. TypeInv => TypeOK
  BY DEF TypeInv
<1>4. QED
  BY <1>1, <1>2, <1>3, PTL DEF Spec

-----------------------------------------------------------------------------
(* q.Block() and the end of the stream.                                    *)

LEMMA DrainStep == TypeOK /\ TypeOK' /\ DrainInv /\ Next => DrainInv'
<1> SUFFICES ASSUME TypeOK, TypeOK', DrainInv, Next PROVE DrainInv'
  OBVIOUS
<1> USE JobAssumption DEF TypeOK, DrainInv, NotStarted, DoneMeansDrained,
      TaskHasLoop, PagesNeedClients, SeedFirst, LateMeansQuiet,
      SendClosedLate, EndedMeansClosed, NoSendAfterClose, Barren, Quiet,
      OneThread, SeedAlone, Early, Late, Closers
<1>1. CASE SetupJobLogger
  BY <1>1 DEF SetupJobLogger, queueVars, pageVars, rpcVars
<1>2. CASE MakeHTTPClient
  BY <1>2 DEF MakeHTTPClient, queueVars, pageVars, rpcVars
<1>3. CASE SendLoginPage
  BY <1>3 DEF SendLoginPage, queueVars, rpcVars, AfterLogin
<1>4. CASE StartQueue
  BY <1>4 DEF StartQueue, cmdVars, pageVars, rpcVars
<1>5. CASE SendSeed
  BY <1>5 DEF SendSeed, queueVars, pageVars, rpcVars, Linking
<1>6. CASE PushSeed
  BY <1>6 DEF PushSeed, pageVars, rpcVars, SendPush
<1>7. CASE Block
  BY <1>7 DEF Block, queueVars, pageVars, rpcVars
<1>8. CASE CloseSendChan
  BY <1>8 DEF CloseSendChan, queueVars, rpcVars
<1>9. CASE CheckDoneChan
  BY <1>9 DEF CheckDoneChan, queueVars, pageVars, rpcVars
<1>10. CASE CloseDoneChan
  BY <1>10 DEF CloseDoneChan, queueVars, pageVars, rpcVars
<1>11. CASE CancellerSeesDone
  BY <1>11 DEF CancellerSeesDone, queueVars, pageVars, rpcVars
<1>12. CASE CancellerSeesStop
  BY <1>12 DEF CancellerSeesStop, queueVars, rpcVars
<1>13. CASE CancellerClosesDone
  BY <1>13 DEF CancellerClosesDone, queueVars, pageVars, rpcVars
<1>14. CASE CancelQueue
  BY <1>14 DEF CancelQueue, cmdVars, pageVars, rpcVars
<1>15. CASE SendSubscription
  BY <1>15 DEF SendSubscription, listenUnchanged, rpcVars, queueVars
<1>16. CASE StreamPage
  BY <1>16 DEF StreamPage, listenUnchanged, rpcVars, queueVars
<1>17. CASE EndStream
  BY <1>17 DEF EndStream, listenUnchanged, rpcVars, queueVars
<1>18. CASE LoseClient
  BY <1>18 DEF LoseClient, listenUnchanged, rpcVars, queueVars
<1>19. CASE HandlePage
  BY <1>19 DEF HandlePage, pageVars, rpcVars, SendCheck
<1>20. CASE PushPage
  BY <1>20 DEF PushPage, pageVars, rpcVars, SendPush
<1>21. CASE PagesSeeDone
  BY <1>21 DEF PagesSeeDone, queueVars, pageVars, rpcVars
<1>22. CASE ReapJob
  BY <1>22 DEF ReapJob, queueVars, pageVars
<1>23. CASE QueueExit
  BY <1>23 DEF QueueExit, pageVars, rpcVars
<1>24. ASSUME NEW c \in Closers, CloseCheck(c) PROVE DrainInv'
  BY <1>24 DEF CloseCheck, queueVars, pageVars, rpcVars
<1>25. ASSUME NEW c \in Closers, CloseMark(c) PROVE DrainInv'
  BY <1>25 DEF CloseMark, cmdVars, pageVars, rpcVars
<1>26. ASSUME NEW c \in Closers, CloseDrain(c) PROVE DrainInv'
  BY <1>26 DEF CloseDrain, cmdVars, pageVars, rpcVars, WgZero
<1>27. ASSUME NEW h \in Hosts, LoopStart(h) PROVE DrainInv'
  BY <1>27 DEF LoopStart, cmdVars, pageVars, rpcVars
<1>28. ASSUME NEW h \in Hosts, LoopExit(h) PROVE DrainInv'
  BY <1>28 DEF LoopExit, pageVars, rpcVars, LoopFree
<1>29. ASSUME NEW h \in Hosts, LoopIdle(h) PROVE DrainInv'
  BY <1>29 DEF LoopIdle, AutoClose, cmdVars, pageVars, rpcVars, LoopFree
<1>60. ASSUME NEW h \in Hosts, LoopIdleRace(h) PROVE DrainInv'
  BY <1>60 DEF LoopIdleRace, AutoClose, pageVars, rpcVars, LoopFree
<1>30. ASSUME NEW h \in Hosts, StartCommand(h) PROVE DrainInv'
  BY <1>30 DEF StartCommand, pageVars, taskUnchanged, NilClient, rpcVars
<1>31. ASSUME NEW h \in Hosts, Acquire(h) PROVE DrainInv'
  BY <1>31 DEF Acquire, pageVars, taskUnchanged, InDo, rpcVars
<1>32. ASSUME NEW h \in Hosts, DoRequest(h) PROVE DrainInv'
  BY <1>32 DEF DoRequest, pageVars, taskUnchanged, rpcVars
<1>33. ASSUME NEW h \in Hosts, FetchErrorHandler(h) PROVE DrainInv'
  BY <1>33 DEF FetchErrorHandler, pageVars, taskUnchanged, rpcVars
<1>34. ASSUME NEW h \in Hosts, VisitPage(h) PROVE DrainInv'
  BY <1>34 DEF VisitPage, pageVars, taskUnchanged, rpcVars
<1>35. ASSUME NEW h \in Hosts, HeadHandler(h) PROVE DrainInv'
  BY <1>35 DEF HeadHandler, pageVars, taskUnchanged, SendCheck, rpcVars
<1>36. ASSUME NEW h \in Hosts, PushHead(h) PROVE DrainInv'
  BY <1>36 DEF PushHead, pageVars, taskUnchanged, SendPush, rpcVars
<1>37. ASSUME NEW h \in Hosts, LockLinks(h) PROVE DrainInv'
  BY <1>37 DEF LockLinks, pageVars, taskUnchanged, Linking, rpcVars
<1>38. ASSUME NEW h \in Hosts, EnqueueLink(h) PROVE DrainInv'
  BY <1>38 DEF EnqueueLink, pageVars, taskUnchanged, SendCheck, rpcVars
<1>39. ASSUME NEW h \in Hosts, PushLink(h) PROVE DrainInv'
  BY <1>39 DEF PushLink, pageVars, taskUnchanged, SendPush, rpcVars
<1>40. ASSUME NEW h \in Hosts, ShipPage(h) PROVE DrainInv'
  BY <1>40 DEF ShipPage, pageVars, taskUnchanged, rpcVars
<1>41. ASSUME NEW h \in Hosts, SendPageHTML(h) PROVE DrainInv'
  BY <1>41 DEF SendPageHTML, pageVars, taskUnchanged, AfterSend, rpcVars
<1>42. ASSUME NEW h \in Hosts, SelectStop(h) PROVE DrainInv'
  BY <1>42 DEF SelectStop, taskUnchanged, AfterSend, rpcVars
<1>43. ASSUME NEW h \in Hosts, SelectSend(h) PROVE DrainInv'
  BY <1>43 DEF SelectSend, taskUnchanged, AfterSend, rpcVars
<1>44. ASSUME NEW h \in Hosts, CancelFromTask(h) PROVE DrainInv'
  BY <1>44 DEF CancelFromTask, queueVars, pageVars, rpcVars, AfterSend
<1>45. ASSUME NEW c \in Cancels, LookupJob(c) PROVE DrainInv'
  BY <1>45 DEF LookupJob, queueVars, pageVars
<1>46. ASSUME NEW c \in Cancels, CancelJob(c) PROVE DrainInv'
  BY <1>46 DEF CancelJob, queueVars, pageVars
<1>47. QED
  BY <1>1, <1>2, <1>3, <1>4, <1>5, <1>6, <1>7, <1>8, <1>9, <1>10, <1>11,
     <1>12, <1>13, <1>14, <1>15, <1>16, <1>17, <1>18, <1>19, <1>20, <1>21,
     <1>22, <1>23, <1>24, <1>25, <1>26, <1>27, <1>28, <1>29, <1>60, <1>30, <1>31,
     <1>32, <1>33, <1>34, <1>35, <1>36, <1>37, <1>38, <1>39, <1>40, <1>41,
     <1>42, <1>43, <1>44, <1>45, <1>46
     DEF Next, RunJob, Canceller, Listener, Close, Loop, Command

LEMMA DrainStutter == DrainInv /\ UNCHANGED vars => DrainInv'
  BY DEF
     DrainInv, NotStarted, DoneMeansDrained, TaskHasLoop, PagesNeedClients,
     SeedFirst, LateMeansQuiet, SendClosedLate, EndedMeansClosed,
     NoSendAfterClose, Barren, Quiet, OneThread, SeedAlone, Early, Late,
     Closers, vars

LEMMA DrainInit == Init => DrainInv
  BY JobAssumption DEF Init, DrainInv,
     NotStarted, DoneMeansDrained, TaskHasLoop, PagesNeedClients, SeedFirst,
     LateMeansQuiet, SendClosedLate, EndedMeansClosed, NoSendAfterClose,
     Barren, Quiet, OneThread, SeedAlone, Early, Late, Closers

LEMMA DrainCorrect == Spec => [](TypeInv /\ DrainInv)
<1>1. Init => TypeInv /\ DrainInv
  BY TypeInit, DrainInit
<1>2. TypeInv /\ DrainInv /\ [Next]_vars => (TypeInv /\ DrainInv)'
  BY TypeStep, TypeStutter, DrainStep, DrainStutter DEF TypeInv
<1>3. QED
  BY <1>1, <1>2, PTL DEF Spec

\* With one thread a host, q.Block() returns to RunJob only after every loop and
\* every handler, however the queue was closed.
THEOREM BlockDrainsCorrect == Spec => []BlockDrains
<1>1. DrainInv => BlockDrains
  BY DEF DrainInv, DoneMeansDrained, TaskHasLoop, BlockDrains, Quiet
<1>2. QED
  BY <1>1, DrainCorrect, PTL

(***************************************************************************)
(* However many hosts, clients and pages a job has: if each host has one   *)
(* thread and clients do not add pages to a seeded job, no handler sends   *)
(* on sendChan after RunJob has closed it.                                 *)
(***************************************************************************)
THEOREM NoSendAfterCloseCorrect == Spec => []NoSendAfterClose
<1>1. DrainInv => NoSendAfterClose
  BY DEF DrainInv
<1>2. QED
  BY <1>1, DrainCorrect, PTL

(***************************************************************************)
(* Under the same conditions the stream of a client ends only when all of  *)
(* its pages are streamed and no handler is left.                          *)
(***************************************************************************)
THEOREM StreamEndsLastCorrect == Spec => []StreamEndsLast
<1>1. TypeInv /\ DrainInv => StreamEndsLast
  BY DEF TypeInv, StreamEndsLast, TypeOK, DrainInv, NotStarted,
     DoneMeansDrained, TaskHasLoop, LateMeansQuiet, SendClosedLate,
     EndedMeansClosed, Barren, Quiet, OneThread, SeedAlone, Early, Late
<1>2. QED
  BY <1>1, DrainCorrect, PTL

-----------------------------------------------------------------------------
(* doneChan and q.closed are closed once.                                  *)

LEMMA CloseStep ==
  TypeOK /\ TypeOK' /\ DrainInv /\ DrainInv' /\ CloseInv /\ Next => CloseInv'
<1> SUFFICES ASSUME TypeOK, TypeOK', DrainInv, DrainInv', CloseInv, Next
             PROVE  CloseInv'
  OBVIOUS
<1> USE JobAssumption DEF TypeOK, DrainInv, NotStarted, DoneMeansDrained,
      NoSendAfterClose, OneThread, SeedAlone, Early, Late, Closers, CloseInv,
      DoneBeforeStart, DoneThenCancel, ClosedByCloser, CausesOfCancel,
      ClosedByCanceller, NoPanic
<1>1. CASE SetupJobLogger
  BY <1>1 DEF SetupJobLogger, queueVars, pageVars, rpcVars
<1>2. CASE MakeHTTPClient
  BY <1>2 DEF MakeHTTPClient, queueVars, pageVars, rpcVars
<1>3. CASE SendLoginPage
  BY <1>3 DEF SendLoginPage, queueVars, rpcVars, AfterLogin
<1>4. CASE StartQueue
  BY <1>4 DEF StartQueue, cmdVars, pageVars, rpcVars
<1>5. CASE SendSeed
  BY <1>5 DEF SendSeed, queueVars, pageVars, rpcVars, Linking
<1>6. CASE PushSeed
  BY <1>6 DEF PushSeed, pageVars, rpcVars, SendPush
<1>7. CASE Block
  BY <1>7 DEF Block, queueVars, pageVars, rpcVars
<1>8. CASE CloseSendChan
  BY <1>8 DEF CloseSendChan, queueVars, rpcVars
<1>9. CASE CheckDoneChan
  BY <1>9 DEF CheckDoneChan, queueVars, pageVars, rpcVars
<1>10. CASE CloseDoneChan
  BY <1>10 DEF CloseDoneChan, queueVars, pageVars, rpcVars
<1>11. CASE CancellerSeesDone
  BY <1>11 DEF CancellerSeesDone, queueVars, pageVars, rpcVars
<1>12. CASE CancellerSeesStop
  BY <1>12 DEF CancellerSeesStop, queueVars, rpcVars
<1>13. CASE CancellerClosesDone
  BY <1>13 DEF CancellerClosesDone, queueVars, pageVars, rpcVars
<1>14. CASE CancelQueue
  BY <1>14 DEF CancelQueue, cmdVars, pageVars, rpcVars
<1>15. CASE SendSubscription
  BY <1>15 DEF SendSubscription, listenUnchanged, rpcVars, queueVars
<1>16. CASE StreamPage
  BY <1>16 DEF StreamPage, listenUnchanged, rpcVars, queueVars
<1>17. CASE EndStream
  BY <1>17 DEF EndStream, listenUnchanged, rpcVars, queueVars
<1>18. CASE LoseClient
  BY <1>18 DEF LoseClient, listenUnchanged, rpcVars, queueVars
<1>19. CASE HandlePage
  BY <1>19 DEF HandlePage, pageVars, rpcVars, SendCheck
<1>20. CASE PushPage
  BY <1>20 DEF PushPage, pageVars, rpcVars, SendPush
<1>21. CASE PagesSeeDone
  BY <1>21 DEF PagesSeeDone, queueVars, pageVars, rpcVars
<1>22. CASE ReapJob
  BY <1>22 DEF ReapJob, queueVars, pageVars
<1>23. CASE QueueExit
  BY <1>23 DEF QueueExit, pageVars, rpcVars
<1>24. ASSUME NEW c \in Closers, CloseCheck(c) PROVE CloseInv'
  BY <1>24 DEF CloseCheck, queueVars, pageVars, rpcVars
<1>25. ASSUME NEW c \in Closers, CloseMark(c) PROVE CloseInv'
  <2>1. CASE qClosed
    BY <1>25, <2>1 DEF CloseMark, cmdVars, pageVars, rpcVars
  <2>2. CASE ~qClosed
    <3>1. /\ closing[c] = "close" /\ qClosed' = TRUE
          /\ closing' = [closing EXCEPT ![c] = "drain"]
          /\ UNCHANGED <<main, login, canceller, doneClosed, pq, task, after,
                         stopChan, panic>>
      BY <1>25, <2>2 DEF CloseMark, cmdVars, pageVars, rpcVars
    <3>2. closing'[c] = "drain" /\ \A d \in Closers \ {c} : closing'[d] = closing[d]
      BY <3>1
    <3>3. ClosedByCloser'
      BY <3>1, <3>2
    <3>4. DoneBeforeStart' /\ DoneThenCancel' /\ CausesOfCancel' /\ NoPanic'
      BY <3>1, <3>2
    <3>5. ClosedByCanceller'
      BY <3>1, <3>2
    <3>6. QED
      BY <3>3, <3>4, <3>5
  <2>3. QED
    BY <2>1, <2>2
<1>26. ASSUME NEW c \in Closers, CloseDrain(c) PROVE CloseInv'
  BY <1>26 DEF CloseDrain, cmdVars, pageVars, rpcVars, WgZero
<1>27. ASSUME NEW h \in Hosts, LoopStart(h) PROVE CloseInv'
  BY <1>27 DEF LoopStart, cmdVars, pageVars, rpcVars
<1>28. ASSUME NEW h \in Hosts, LoopExit(h) PROVE CloseInv'
  BY <1>28 DEF LoopExit, pageVars, rpcVars, LoopFree
<1>29. ASSUME NEW h \in Hosts, LoopIdle(h) PROVE CloseInv'
  BY <1>29 DEF LoopIdle, AutoClose, cmdVars, pageVars, rpcVars, LoopFree
<1>60. ASSUME NEW h \in Hosts, LoopIdleRace(h) PROVE CloseInv'
  BY <1>60 DEF LoopIdleRace, AutoClose, pageVars, rpcVars, LoopFree
<1>30. ASSUME NEW h \in Hosts, StartCommand(h) PROVE CloseInv'
  BY <1>30 DEF StartCommand, pageVars, taskUnchanged, NilClient, rpcVars
<1>31. ASSUME NEW h \in Hosts, Acquire(h) PROVE CloseInv'
  BY <1>31 DEF Acquire, pageVars, taskUnchanged, InDo, rpcVars
<1>32. ASSUME NEW h \in Hosts, DoRequest(h) PROVE CloseInv'
  BY <1>32 DEF DoRequest, pageVars, taskUnchanged, rpcVars
<1>33. ASSUME NEW h \in Hosts, FetchErrorHandler(h) PROVE CloseInv'
  BY <1>33 DEF FetchErrorHandler, pageVars, taskUnchanged, rpcVars
<1>34. ASSUME NEW h \in Hosts, VisitPage(h) PROVE CloseInv'
  BY <1>34 DEF VisitPage, pageVars, taskUnchanged, rpcVars
<1>35. ASSUME NEW h \in Hosts, HeadHandler(h) PROVE CloseInv'
  BY <1>35 DEF HeadHandler, pageVars, taskUnchanged, SendCheck, rpcVars
<1>36. ASSUME NEW h \in Hosts, PushHead(h) PROVE CloseInv'
  BY <1>36 DEF PushHead, pageVars, taskUnchanged, SendPush, rpcVars
<1>37. ASSUME NEW h \in Hosts, LockLinks(h) PROVE CloseInv'
  BY <1>37 DEF LockLinks, pageVars, taskUnchanged, Linking, rpcVars
<1>38. ASSUME NEW h \in Hosts, EnqueueLink(h) PROVE CloseInv'
  BY <1>38 DEF EnqueueLink, pageVars, taskUnchanged, SendCheck, rpcVars
<1>39. ASSUME NEW h \in Hosts, PushLink(h) PROVE CloseInv'
  BY <1>39 DEF PushLink, pageVars, taskUnchanged, SendPush, rpcVars
<1>40. ASSUME NEW h \in Hosts, ShipPage(h) PROVE CloseInv'
  BY <1>40 DEF ShipPage, pageVars, taskUnchanged, rpcVars
<1>41. ASSUME NEW h \in Hosts, SendPageHTML(h) PROVE CloseInv'
  BY <1>41 DEF SendPageHTML, pageVars, taskUnchanged, AfterSend, rpcVars
<1>42. ASSUME NEW h \in Hosts, SelectStop(h) PROVE CloseInv'
  BY <1>42 DEF SelectStop, taskUnchanged, AfterSend, rpcVars
<1>43. ASSUME NEW h \in Hosts, SelectSend(h) PROVE CloseInv'
  BY <1>43 DEF SelectSend, taskUnchanged, AfterSend, rpcVars
<1>44. ASSUME NEW h \in Hosts, CancelFromTask(h) PROVE CloseInv'
  BY <1>44 DEF CancelFromTask, queueVars, pageVars, rpcVars, AfterSend
<1>45. ASSUME NEW c \in Cancels, LookupJob(c) PROVE CloseInv'
  BY <1>45 DEF LookupJob, queueVars, pageVars
<1>46. ASSUME NEW c \in Cancels, CancelJob(c) PROVE CloseInv'
  BY <1>46 DEF CancelJob, queueVars, pageVars
<1>47. QED
  BY <1>1, <1>2, <1>3, <1>4, <1>5, <1>6, <1>7, <1>8, <1>9, <1>10, <1>11,
     <1>12, <1>13, <1>14, <1>15, <1>16, <1>17, <1>18, <1>19, <1>20, <1>21,
     <1>22, <1>23, <1>24, <1>25, <1>26, <1>27, <1>28, <1>29, <1>60, <1>30, <1>31,
     <1>32, <1>33, <1>34, <1>35, <1>36, <1>37, <1>38, <1>39, <1>40, <1>41,
     <1>42, <1>43, <1>44, <1>45, <1>46
     DEF Next, RunJob, Canceller, Listener, Close, Loop, Command

LEMMA CloseStutter == CloseInv /\ UNCHANGED vars => CloseInv'
  BY DEF
     OneThread, SeedAlone, Early, Late, Closers, CloseInv, DoneBeforeStart,
     DoneThenCancel, ClosedByCloser, CausesOfCancel, ClosedByCanceller,
     NoPanic, vars

LEMMA CloseInit == Init => CloseInv
  BY JobAssumption DEF Init, OneThread,
     SeedAlone, Early, Late, Closers, CloseInv, DoneBeforeStart,
     DoneThenCancel, ClosedByCloser, CausesOfCancel, ClosedByCanceller,
     NoPanic

(***************************************************************************)
(* The check-then-close pairs of doneChan and q.closed are harmless in a   *)
(* job that never idles, for every number of hosts, of CancelJob calls and *)
(* of handlers that ask for the end themselves: the server does not die of *)
(* such a job, but for the nil values that a login may leave.              *)
(***************************************************************************)
THEOREM NoPanicCorrect == Spec => []NoPanic
<1>1. Init => CloseInv
  BY CloseInit
<1>2. /\ TypeInv /\ DrainInv /\ (TypeInv /\ DrainInv)'
      /\ CloseInv /\ [Next]_vars
      => CloseInv'
  BY CloseStep, CloseStutter DEF TypeInv
<1>3. CloseInv => NoPanic
  BY DEF CloseInv
<1>4. QED
  BY <1>1, <1>2, <1>3, DrainCorrect, PTL DEF Spec

-----------------------------------------------------------------------------
(* The job implements JobLife.                                             *)

\* While RunJob logs in, nobody has taken its client away or ended the job.
LoginFirst ==
  main \in {"logger", "client", "loginPage"} => connected /\ ~doneClosed

\* The steps that neither ship, nor stream, nor close sendChan or doneChan.
AsideMain == SetupJobLogger \/ StartQueue \/ SendSeed \/ PushSeed \/ Block \/ CheckDoneChan

AsideQueue ==
  \/ CancellerSeesDone \/ CancellerSeesStop \/ CancelQueue
  \/ HandlePage \/ PushPage \/ PagesSeeDone \/ ReapJob \/ QueueExit
  \/ \E c \in Closers : Close(c)
  \/ \E h \in Hosts : Loop(h) \/ LoopIdle(h) \/ LoopIdleRace(h)
  \/ \E c \in Cancels : LookupJob(c) \/ CancelJob(c)

AsideTask(h) ==
  \/ StartCommand(h) \/ Acquire(h) \/ DoRequest(h) \/ FetchErrorHandler(h) \/ VisitPage(h)
  \/ HeadHandler(h) \/ PushHead(h) \/ LockLinks(h) \/ EnqueueLink(h) \/ PushLink(h)
  \/ ShipPage(h) \/ CancelFromTask(h)

Aside == AsideMain \/ AsideQueue \/ \E h \in Hosts : AsideTask(h)

\* They leave what JobLife speaks of as it is.
LEMMA AsideLeavesJob ==
  ASSUME TypeOK, Aside
  PROVE  /\ UNCHANGED <<Shipping, sendBuf, sendClosed, doneClosed, connected, listener>>
         /\ UNCHANGED main \/ SetupJobLogger \/ main' \notin {"logger", "client", "loginPage"}
<1> USE DEF queueVars, cmdVars, pageVars, rpcVars, taskUnchanged
<1>1. CASE AsideMain
  <2>1. /\ UNCHANGED <<task, sendBuf, sendClosed, doneClosed, connected, listener>>
        /\ main # "loginPage" /\ main' # "loginPage"
        /\ SetupJobLogger \/ main' \notin {"logger", "client", "loginPage"}
    BY <1>1 DEF AsideMain, SetupJobLogger, StartQueue, SendSeed, PushSeed, Block,
                CheckDoneChan
  <2> QED
    BY <2>1 DEF Shipping
<1>2. CASE AsideQueue
  <2>1. (\E c \in Closers : Close(c)) =>
          UNCHANGED <<main, task, sendBuf, sendClosed, doneClosed, connected, listener>>
    BY DEF Close, CloseCheck, CloseMark, CloseDrain
  <2>2. (\E h \in Hosts : Loop(h) \/ LoopIdle(h) \/ LoopIdleRace(h)) =>
          UNCHANGED <<main, task, sendBuf, sendClosed, doneClosed, connected, listener>>
    BY DEF Loop, LoopStart, LoopExit, LoopIdle, LoopIdleRace
  <2>3. (\E c \in Cancels : LookupJob(c) \/ CancelJob(c)) =>
          UNCHANGED <<main, task, sendBuf, sendClosed, doneClosed, connected, listener>>
    BY DEF LookupJob, CancelJob
  <2>4. \/ CancellerSeesDone \/ CancellerSeesStop \/ CancelQueue
        \/ HandlePage \/ PushPage \/ PagesSeeDone \/ ReapJob \/ QueueExit
        => UNCHANGED <<main, task, sendBuf, sendClosed, doneClosed, connected, listener>>
    BY DEF CancellerSeesDone, CancellerSeesStop, CancelQueue, HandlePage, PushPage,
           PagesSeeDone, ReapJob, QueueExit
  <2> QED
    BY <1>2, <2>1, <2>2, <2>3, <2>4 DEF AsideQueue, Shipping
<1>3. ASSUME NEW h \in Hosts, AsideTask(h)
      PROVE  /\ UNCHANGED <<Shipping, sendBuf, sendClosed, doneClosed, connected, listener>>
             /\ UNCHANGED main
  <2>1. UNCHANGED <<main, sendBuf, sendClosed, doneClosed, connected, listener>>
    BY <1>3 DEF AsideTask, StartCommand, Acquire, DoRequest, FetchErrorHandler, VisitPage,
                HeadHandler, PushHead, LockLinks, EnqueueLink, PushLink, ShipPage,
                CancelFromTask
  <2>2. \/ UNCHANGED task
        \/ \E t \in TaskStates \ {"select"} :
             task[h] # "select" /\ task' = [task EXCEPT ![h] = t]
    BY <1>3 DEF AsideTask, StartCommand, Acquire, DoRequest, FetchErrorHandler, VisitPage,
                HeadHandler, PushHead, LockLinks, EnqueueLink, PushLink, ShipPage,
                CancelFromTask, AfterSend, TaskStates
  <2>3. {g \in Hosts : task'[g] = "select"} = {g \in Hosts : task[g] = "select"}
    BY <2>2 DEF TypeOK
  <2> QED
    BY <2>1, <2>3 DEF Shipping
<1> QED
  BY <1>1, <1>2, <1>3 DEF Aside

\* RunJob logs in before anybody can cancel or drop its client.
LEMMA LoginFirstCorrect == Spec => []LoginFirst
<1> USE DEF queueVars, cmdVars, pageVars, rpcVars, taskUnchanged
<1>1. Init => LoginFirst
  BY DEF Init, LoginFirst
<1>2. TypeOK /\ DrainInv /\ LoginFirst /\ [Next]_vars => LoginFirst'
  <2> SUFFICES ASSUME TypeOK, DrainInv, LoginFirst, [Next]_vars PROVE LoginFirst'
    OBVIOUS
  <2>1. CASE UNCHANGED vars
    BY <2>1 DEF vars, LoginFirst
  <2>2. CASE Aside
    BY <2>2, AsideLeavesJob DEF SetupJobLogger, LoginFirst
  <2>3. CASE MakeHTTPClient \/ SendLoginPage
    BY <2>3 DEF MakeHTTPClient, SendLoginPage, AfterLogin, LoginFirst
  <2>4. CASE CloseSendChan \/ CloseDoneChan
    BY <2>4 DEF CloseSendChan, CloseDoneChan, LoginFirst
  <2>5. CASE Listener \/ LoseClient
    BY <2>5 DEF Listener, SendSubscription, StreamPage, EndStream, LoseClient,
                listenUnchanged, LoginFirst
  <2>6. CASE CancellerClosesDone
    BY <2>6 DEF CancellerClosesDone, LoginFirst, DrainInv, NotStarted, Early
  <2>7. ASSUME NEW h \in Hosts, SendPageHTML(h) \/ SelectSend(h) \/ SelectStop(h)
        PROVE  LoginFirst'
    <3>1. task[h] # "none" /\ UNCHANGED main
      BY <2>7 DEF SendPageHTML, SelectSend, SelectStop
    <3> QED
      BY <3>1 DEF LoginFirst, DrainInv, NotStarted, Barren, Quiet, Early
  <2> QED
    BY <2>1, <2>2, <2>3, <2>4, <2>5, <2>6, <2>7
    DEF Next, RunJob, Canceller, Command, Aside, AsideMain, AsideQueue, AsideTask
<1> QED
  BY <1>1, <1>2, DrainCorrect, PTL DEF Spec, TypeInv

\* No handler is left when RunJob is about to close sendChan, nor after it.
LEMMA LateIsQuiet ==
  ASSUME OneThread, SeedAlone, DrainInv, main \in Late
  PROVE  Quiet
  BY DEF DrainInv, LateMeansQuiet, DoneMeansDrained, TaskHasLoop, NotStarted, Barren, Quiet

\* A step that is not aside is one of JobLife.
LEMMA JobStepLives ==
  ASSUME OneThread, SeedAlone, TypeInv, DrainInv, LoginFirst, Next
  PROVE  Life!Next \/ UNCHANGED Life!vars
<1> USE DEF queueVars, cmdVars, pageVars, rpcVars, taskUnchanged
<1>t. TypeOK /\ (stopChan > 0 => listener = "lost")
  BY DEF TypeInv, OneToken
<1>q. sendClosed => \A h \in Hosts : task[h] = "none"
  BY LateIsQuiet DEF DrainInv, SendClosedLate, Late, Quiet
<1>l. main \in {"client", "loginPage"} =>
        ~sendClosed /\ connected /\ ~doneClosed /\ \A h \in Hosts : task[h] = "none"
  BY DEF LoginFirst, DrainInv, SendClosedLate, NotStarted, Early, Barren, Quiet
<1>1. CASE Aside
  BY <1>1, <1>t, AsideLeavesJob DEF Life!vars
<1>2. CASE MakeHTTPClient
  <2>1. /\ UNCHANGED <<task, sendBuf, sendClosed, doneClosed, listener>>
        /\ main = "client" /\ Shipping = {}
    BY <1>2, <1>l DEF MakeHTTPClient, Shipping
  <2>2. Shipping' = {} \/ Shipping' = {"login"}
    BY <1>l, <2>1 DEF Shipping
  <2> QED
    BY <1>l, <2>1, <2>2 DEF Life!Next, Life!LetIn, Life!vars
<1>3. CASE SendLoginPage
  <2>1. /\ UNCHANGED <<task, sendClosed, doneClosed, listener>>
        /\ main = "loginPage" /\ main' # "loginPage"
    BY <1>3 DEF SendLoginPage, AfterLogin
  <2>2. Shipping = {"login"} /\ Shipping' = {}
    BY <1>l, <2>1 DEF Shipping
  <2>3. \/ sendBuf' = sendBuf + 1
        \/ listener = "lost" /\ UNCHANGED sendBuf
    BY <1>3, <1>t, <1>l, <2>1 DEF SendLoginPage
  <2> QED
    BY <1>l, <2>1, <2>2, <2>3 DEF Life!Next, Life!Ship, Life!GiveUp
<1>4. CASE CloseSendChan
  <2>1. /\ UNCHANGED <<task, sendBuf, doneClosed, listener>>
        /\ main = "closeSend" /\ main' = "checkDone" /\ sendClosed' = TRUE
    BY <1>4 DEF CloseSendChan
  <2>2. ~sendClosed /\ \A h \in Hosts : task[h] = "none"
    BY <2>1, LateIsQuiet DEF DrainInv, SendClosedLate, Late, Quiet
  <2>3. Shipping = {} /\ Shipping' = {}
    BY <2>1, <2>2 DEF Shipping
  <2> QED
    BY <2>1, <2>2, <2>3 DEF Life!Next, Life!CloseSend
<1>5. CASE CloseDoneChan \/ CancellerClosesDone
  <2>1. /\ UNCHANGED <<task, sendBuf, sendClosed, listener>>
        /\ UNCHANGED doneClosed \/ (~doneClosed /\ doneClosed' = TRUE)
        /\ UNCHANGED main \/ {main, main'} \cap {"loginPage"} = {}
    BY <1>5 DEF CloseDoneChan, CancellerClosesDone
  <2>2. UNCHANGED Shipping
    BY <2>1 DEF Shipping
  <2> QED
    BY <2>1, <2>2 DEF Life!Next, Life!CloseDone, Life!vars
<1>6. CASE Listener \/ LoseClient
  <2>1. UNCHANGED <<Shipping, sendClosed, doneClosed>>
    BY <1>6 DEF Listener, SendSubscription, StreamPage, EndStream, LoseClient,
                listenUnchanged, Shipping
  <2>2. CASE SendSubscription
    BY <2>1, <2>2 DEF SendSubscription, Life!vars
  <2>3. CASE StreamPage
    BY <2>1, <2>3, <1>t DEF StreamPage, TypeOK, Life!Next, Life!Stream
  <2>4. CASE EndStream
    BY <2>1, <2>4 DEF EndStream, Life!Next, Life!EndStream
  <2>5. CASE LoseClient
    BY <2>1, <2>5 DEF LoseClient, Life!Next, Life!Lose
  <2> QED
    BY <1>6, <2>2, <2>3, <2>4, <2>5 DEF Listener
<1>7. ASSUME NEW h \in Hosts, SendPageHTML(h)
      PROVE  Life!Next \/ UNCHANGED Life!vars
  <2>1. /\ UNCHANGED <<main, sendBuf, sendClosed, doneClosed, listener>>
        /\ task[h] = "send" /\ ~sendClosed /\ main # "loginPage"
    BY <1>7, <1>q, <1>l DEF SendPageHTML
  <2>2. CASE ~doneClosed /\ task' = [task EXCEPT ![h] = "select"]
    <3>1. Shipping' = Shipping \union {h} /\ h \notin Shipping
      BY <1>t, <2>1, <2>2 DEF Shipping, TypeOK
    <3> QED
      BY <2>1, <2>2, <3>1 DEF Life!Next, Life!LetIn
  <2>3. CASE task' = [task EXCEPT ![h] = AfterSend(h)]
    <3>1. Shipping' = Shipping
      BY <1>t, <2>1, <2>3 DEF Shipping, TypeOK, AfterSend
    <3> QED
      BY <2>1, <3>1 DEF Life!vars
  <2> QED
    BY <1>7, <2>2, <2>3 DEF SendPageHTML
<1>8. ASSUME NEW h \in Hosts, SelectStop(h) \/ SelectSend(h)
      PROVE  Life!Next \/ UNCHANGED Life!vars
  <2>1. /\ UNCHANGED <<main, sendClosed, doneClosed, listener>>
        /\ task[h] = "select" /\ ~sendClosed /\ main # "loginPage"
    BY <1>8, <1>q, <1>l DEF SelectStop, SelectSend
  <2>2. \/ listener = "lost" /\ UNCHANGED sendBuf
        \/ sendBuf' = sendBuf + 1
    BY <1>8, <1>t, <2>1 DEF SelectStop, SelectSend
  <2>3. \E t \in TaskStates \ {"select"} : task' = [task EXCEPT ![h] = t]
    BY <1>8, <2>1 DEF SelectStop, SelectSend, AfterSend, TaskStates
  <2>4. h \in Shipping /\ Shipping' = Shipping \ {h}
    BY <1>t, <2>1, <2>3 DEF Shipping, TypeOK
  <2> QED
    BY <2>1, <2>2, <2>4 DEF Life!Next, Life!Ship, Life!GiveUp
<1> QED
  BY <1>1, <1>2, <1>3, <1>4, <1>5, <1>6, <1>7, <1>8
  DEF Next, RunJob, Canceller, Command, Aside, AsideMain, AsideQueue, AsideTask

(***************************************************************************)
(* With one thread a host and a seed sent alone, RunJob, its goroutines    *)
(* and its handlers implement JobLife, for any hosts, cancels, options and *)
(* events: a page is let into sendChan only until doneChan is closed, is   *)
(* shipped then unless the client is lost, and sendChan is closed after    *)
(* the last of them.                                                       *)
(***************************************************************************)
THEOREM JobLivesCorrect ==
  ASSUME OneThread, SeedAlone
  PROVE  Spec => JobLives
<1>1. Init => Life!Init
  BY DEF Init, Life!Init, Shipping
<1>2. TypeInv /\ DrainInv /\ LoginFirst /\ [Next]_vars => [Life!Next]_(Life!vars)
  <2>1. UNCHANGED vars => UNCHANGED Life!vars
    BY DEF vars, Life!vars, Shipping
  <2> QED
    BY <2>1, JobStepLives
<1> QED
  BY <1>1, <1>2, DrainCorrect, LoginFirstCorrect, PTL DEF Spec, JobLives, Life!Spec
=============================================================================
