---------------------------- MODULE SessionProofs ----------------------------
(***************************************************************************)
(* Proofs about Session: for any number of requests, callers and streams,  *)
(* and for channels and windows of any size, client and server deliver the *)
(* pages of a job as PageDelivery says (Delivers), and what that rests on. *)
(***************************************************************************)
EXTENDS Session, SequenceTheorems, TLAPS

USE DEF jobVars, runVars, fwdVars, listVars, callVars, pageWire, addWire, urlWire,
        clientVars, wireVars, shipVars, feedVars, queueVars, taskVars, listerVars,
        serverVars

-----------------------------------------------------------------------------
(* Sequences.                                                              *)

\* A channel with room takes what a goroutine has in hand.
LEMMA PushOne ==
  ASSUME NEW S, NEW s \in Seq(S), NEW t \in Seq(S), NEW n \in Nat,
         Len(s) < n, Len(t) <= 1
  PROVE  s \o t \in Seq(S) /\ Len(s \o t) <= n
<1>1. Len(s) \in Nat /\ Len(t) \in Nat
  BY LenProperties
<1> QED
  BY <1>1, ConcatProperties

\* ... or a value.
LEMMA AppendOne ==
  ASSUME NEW S, NEW s \in Seq(S), NEW e \in S, NEW n \in Nat, Len(s) < n
  PROVE  Append(s, e) \in Seq(S) /\ Len(Append(s, e)) <= n
<1>1. Len(s) \in Nat
  BY LenProperties
<1> QED
  BY <1>1, AppendProperties

\* Taking the first value of a channel.
LEMMA TakeOne ==
  ASSUME NEW S, NEW s \in Seq(S), s # <<>>
  PROVE  /\ Head(s) \in S
         /\ <<Head(s)>> \in Seq(S) /\ Len(<<Head(s)>>) = 1
         /\ Tail(s) \in Seq(S)
         /\ \A n \in Nat : Len(s) <= n => Len(Tail(s)) <= n
<1>1. /\ Head(s) \in S /\ Tail(s) \in Seq(S) /\ Len(Tail(s)) = Len(s) - 1
      /\ Len(s) \in Nat
  BY HeadTailProperties, LenProperties
<1>2. <<Head(s)>> \in Seq(S) /\ Len(<<Head(s)>>) = 1
  BY <1>1
<1> QED
  BY <1>1, <1>2

\* What a channel holds is of its type.
LEMMA RangeOf ==
  ASSUME NEW S, NEW s \in Seq(S)
  PROVE  Range(s) \subseteq S
<1>1. DOMAIN s = 1..Len(s) /\ \A i \in 1..Len(s) : s[i] \in S
  BY LenProperties, ElementOfSeq
<1> QED
  BY <1>1 DEF Range

\* A channel is cut in two.
LEMMA CutSeq ==
  ASSUME NEW S, NEW s \in Seq(S), NEW n \in 0..Len(s)
  PROVE  /\ SubSeq(s, 1, n) \in Seq(S) /\ SubSeq(s, n + 1, Len(s)) \in Seq(S)
         /\ SubSeq(s, 1, n) \o SubSeq(s, n + 1, Len(s)) = s
<1>1. Len(s) \in Nat /\ \A i \in 1..Len(s) : s[i] \in S
  BY LenProperties, ElementOfSeq
<1>2. SubSeq(s, 1, n) \in Seq(S) /\ SubSeq(s, n + 1, Len(s)) \in Seq(S)
  <2>1. SubSeq(s, 1, n) \in Seq(S)
    <3>1. 1 \in Int /\ n \in Int /\ \A i \in 1..n : s[i] \in S
      BY <1>1
    <3> QED
      BY <3>1, SubSeqProperties
  <2>2. SubSeq(s, n + 1, Len(s)) \in Seq(S)
    <3>1. n + 1 \in Int /\ Len(s) \in Int /\ \A i \in (n + 1)..Len(s) : s[i] \in S
      BY <1>1
    <3> QED
      BY <3>1, SubSeqProperties
  <2> QED
    BY <2>1, <2>2
<1>3. SubSeq(s, 1, n) \o SubSeq(s, n + 1, Len(s)) = SubSeq(s, 1, Len(s))
  <2>1. /\ 1 \in 1..(Len(s) + 1) /\ n \in (1 - 1)..Len(s)
        /\ Len(s) \in n..Len(s)
    BY <1>1
  <2> QED
    BY <2>1, ConcatAdjacentSubSeq
<1>4. SubSeq(s, 1, Len(s)) = s
  BY SubSeqFull
<1> QED
  BY <1>2, <1>3, <1>4

-----------------------------------------------------------------------------
(* The type invariant.                                                     *)

\* A step of the client keeps the types: it leaves the server alone.
LEMMA ClientType ==
  ASSUME TypeOK, ClientNext, UNCHANGED serverVars
  PROVE  TypeOK'
<1> USE ClientAssumption
<1>s. ShipTypeOK' /\ FeedTypeOK' /\ QueueTypeOK' /\ TaskTypeOK' /\ ListerTypeOK'
  BY DEF TypeOK, ShipTypeOK, FeedTypeOK, QueueTypeOK, TaskTypeOK, ListerTypeOK
<1> SUFFICES ClientTypeOK' /\ WireTypeOK'
  BY <1>s DEF TypeOK
<1> USE DEF TypeOK
<1>1. CASE NewCrawlJob
  <2>8. ClientTypeOK'
    BY <1>1 DEF NewCrawlJob, ClientTypeOK, WireTypeOK
  <2>9. WireTypeOK'
    BY <1>1 DEF NewCrawlJob, ClientTypeOK, WireTypeOK
  <2> QED
    BY <2>8, <2>9
<1>2. CASE RecvSubscription
  <2>8. ClientTypeOK'
    BY <1>2 DEF RecvSubscription, ClientTypeOK, WireTypeOK
  <2>9. WireTypeOK'
    BY <1>2 DEF RecvSubscription, ClientTypeOK, WireTypeOK
  <2> QED
    BY <2>8, <2>9
<1>3. CASE ReturnJob
  <2>8. ClientTypeOK'
    BY <1>3 DEF ReturnJob, ClientTypeOK, WireTypeOK
  <2>9. WireTypeOK'
    BY <1>3 DEF ReturnJob, ClientTypeOK, WireTypeOK
  <2> QED
    BY <2>8, <2>9
<1>4. CASE RunStart
  <2>8. ClientTypeOK'
    BY <1>4 DEF RunStart, ClientTypeOK, WireTypeOK
  <2>9. WireTypeOK'
    BY <1>4 DEF RunStart, ClientTypeOK, WireTypeOK
  <2> QED
    BY <2>8, <2>9
<1>5. CASE InitAnalyzedURL
  <2>8. ClientTypeOK'
    BY <1>5 DEF InitAnalyzedURL, ClientTypeOK, WireTypeOK
  <2>9. WireTypeOK'
    BY <1>5 DEF InitAnalyzedURL, ClientTypeOK, WireTypeOK
  <2> QED
    BY <2>8, <2>9
<1>6. CASE RecvEnd
  <2>8. ClientTypeOK'
    BY <1>6 DEF RecvEnd, ClientTypeOK, WireTypeOK
  <2>9. WireTypeOK'
    BY <1>6 DEF RecvEnd, ClientTypeOK, WireTypeOK
  <2> QED
    BY <2>8, <2>9
<1>7. CASE ClosePhChan
  <2>8. ClientTypeOK'
    BY <1>7 DEF ClosePhChan, ClientTypeOK, WireTypeOK
  <2>9. WireTypeOK'
    BY <1>7 DEF ClosePhChan, ClientTypeOK, WireTypeOK
  <2> QED
    BY <2>8, <2>9
<1>8. CASE CloseStoppedChan
  <2>8. ClientTypeOK'
    BY <1>8 DEF CloseStoppedChan, ClientTypeOK, WireTypeOK
  <2>9. WireTypeOK'
    BY <1>8 DEF CloseStoppedChan, ClientTypeOK, WireTypeOK
  <2> QED
    BY <2>8, <2>9
<1>9. CASE FwdWake
  <2>8. ClientTypeOK'
    BY <1>9 DEF FwdWake, ClientTypeOK, WireTypeOK
  <2>9. WireTypeOK'
    BY <1>9 DEF FwdWake, ClientTypeOK, WireTypeOK
  <2> QED
    BY <2>8, <2>9
<1>10. CASE FwdExit
  <2>8. ClientTypeOK'
    BY <1>10 DEF FwdExit, ClientTypeOK, WireTypeOK
  <2>9. WireTypeOK'
    BY <1>10 DEF FwdExit, ClientTypeOK, WireTypeOK
  <2> QED
    BY <2>8, <2>9
<1>11. CASE ListenEnd
  <2>8. ClientTypeOK'
    BY <1>11 DEF ListenEnd, ClientTypeOK, WireTypeOK
  <2>9. WireTypeOK'
    BY <1>11 DEF ListenEnd, ClientTypeOK, WireTypeOK
  <2> QED
    BY <2>8, <2>9
<1>12. CASE Stop
  <2>8. ClientTypeOK'
    BY <1>12 DEF Stop, ClientTypeOK, WireTypeOK
  <2>9. WireTypeOK'
    BY <1>12 DEF Stop, ClientTypeOK, WireTypeOK
  <2> QED
    BY <2>8, <2>9
<1>13. CASE RecvPage
  <2>1. /\ <<Head(pageStream)>> \in Seq(Requests) /\ Len(<<Head(pageStream)>>) = 1
        /\ Tail(pageStream) \in Seq(Requests) /\ Len(Tail(pageStream)) <= Window
    BY <1>13, TakeOne DEF RecvPage, ClientTypeOK, WireTypeOK
  <2>8. ClientTypeOK'
    BY <1>13, <2>1 DEF RecvPage, ClientTypeOK, WireTypeOK
  <2>9. WireTypeOK'
    BY <1>13, <2>1 DEF RecvPage, ClientTypeOK, WireTypeOK
  <2> QED
    BY <2>8, <2>9
<1>14. CASE PushPage
  <2>1. phChan \o held \in Seq(Requests) /\ Len(phChan \o held) <= PhCap
    BY <1>14, PushOne DEF PushPage, ClientTypeOK, WireTypeOK
  <2>2. <<>> \in Seq(Requests) /\ Len(<<>>) = 0
    BY EmptySeq
  <2>8. ClientTypeOK'
    BY <1>14, <2>1, <2>2 DEF PushPage, ClientTypeOK, WireTypeOK
  <2>9. WireTypeOK'
    BY <1>14, <2>1, <2>2 DEF PushPage, ClientTypeOK, WireTypeOK
  <2> QED
    BY <2>8, <2>9
<1>15. CASE FwdTake
  <2>1. /\ <<Head(phChan)>> \in Seq(Requests) /\ Len(<<Head(phChan)>>) = 1
        /\ Tail(phChan) \in Seq(Requests) /\ Len(Tail(phChan)) <= PhCap
    BY <1>15, TakeOne DEF FwdTake, ClientTypeOK, WireTypeOK
  <2>8. ClientTypeOK'
    BY <1>15, <2>1 DEF FwdTake, ClientTypeOK, WireTypeOK
  <2>9. WireTypeOK'
    BY <1>15, <2>1 DEF FwdTake, ClientTypeOK, WireTypeOK
  <2> QED
    BY <2>8, <2>9
<1>16. CASE FwdPush
  <2>1. pageChan \o fwdHeld \in Seq(Requests) /\ Len(pageChan \o fwdHeld) <= PageCap
    BY <1>16, PushOne DEF FwdPush, ClientTypeOK, WireTypeOK
  <2>2. <<>> \in Seq(Requests) /\ Len(<<>>) = 0
    BY EmptySeq
  <2>8. ClientTypeOK'
    BY <1>16, <2>1, <2>2 DEF FwdPush, ClientTypeOK, WireTypeOK
  <2>9. WireTypeOK'
    BY <1>16, <2>1, <2>2 DEF FwdPush, ClientTypeOK, WireTypeOK
  <2> QED
    BY <2>8, <2>9
<1>17. CASE ListenRecv
  <2>1. /\ <<Head(urlStream)>> \in Seq(Requests) /\ Len(<<Head(urlStream)>>) = 1
        /\ Tail(urlStream) \in Seq(Requests) /\ Len(Tail(urlStream)) <= Window
    BY <1>17, TakeOne DEF ListenRecv, ClientTypeOK, WireTypeOK
  <2>8. ClientTypeOK'
    BY <1>17, <2>1 DEF ListenRecv, ClientTypeOK, WireTypeOK
  <2>9. WireTypeOK'
    BY <1>17, <2>1 DEF ListenRecv, ClientTypeOK, WireTypeOK
  <2> QED
    BY <2>8, <2>9
<1>18. CASE ListenPush
  <2>1. urlChan \o listHeld \in Seq(Requests) /\ Len(urlChan \o listHeld) <= PageCap
    BY <1>18, PushOne DEF ListenPush, ClientTypeOK, WireTypeOK
  <2>2. <<>> \in Seq(Requests) /\ Len(<<>>) = 0
    BY EmptySeq
  <2>8. ClientTypeOK'
    BY <1>18, <2>1, <2>2 DEF ListenPush, ClientTypeOK, WireTypeOK
  <2>9. WireTypeOK'
    BY <1>18, <2>1, <2>2 DEF ListenPush, ClientTypeOK, WireTypeOK
  <2> QED
    BY <2>8, <2>9
<1>19. CASE ReadList
  <2>1. /\ <<Head(urlChan)>> \in Seq(Requests) /\ Len(<<Head(urlChan)>>) = 1
        /\ Tail(urlChan) \in Seq(Requests) /\ Len(Tail(urlChan)) <= PageCap
    BY <1>19, TakeOne DEF ReadList, ClientTypeOK, WireTypeOK
  <2>8. ClientTypeOK'
    BY <1>19, <2>1 DEF ReadList, ClientTypeOK, WireTypeOK
  <2>9. WireTypeOK'
    BY <1>19, <2>1 DEF ReadList, ClientTypeOK, WireTypeOK
  <2> QED
    BY <2>8, <2>9
<1>20. CASE ReadPage
  <2>1. /\ Head(pageChan) \in Requests
        /\ Tail(pageChan) \in Seq(Requests) /\ Len(Tail(pageChan)) <= PageCap
    BY <1>20, TakeOne DEF ReadPage, ClientTypeOK
  <2>2. Append(got, Head(pageChan)) \in Seq(Requests)
    BY <2>1, AppendProperties DEF ClientTypeOK
  <2>8. ClientTypeOK'
    BY <1>20, <2>1, <2>2 DEF ReadPage, ClientTypeOK, WireTypeOK
  <2>9. WireTypeOK'
    BY <1>20, <2>1, <2>2 DEF ReadPage, ClientTypeOK, WireTypeOK
  <2> QED
    BY <2>8, <2>9
<1>21. ASSUME NEW r \in Requests, BeginCall(r)
      PROVE  ClientTypeOK' /\ WireTypeOK'
  <2>8. ClientTypeOK'
    BY <1>21 DEF BeginCall, ClientTypeOK, WireTypeOK, CallStates
  <2>9. WireTypeOK'
    BY <1>21 DEF BeginCall, ClientTypeOK, WireTypeOK, CallStates
  <2> QED
    BY <2>8, <2>9
<1>22. ASSUME NEW r \in Requests, OpenAddPages(r)
      PROVE  ClientTypeOK' /\ WireTypeOK'
  <2>1. /\ call' \in [Requests -> CallStates]
        /\ addClient' \in Requests \union {NoStream}
    BY <1>22 DEF OpenAddPages, ClientTypeOK, CallStates
  <2>2. UNCHANGED <<jobVars, runVars, fwdVars, got, listVars, stopCall, panic>>
    BY <1>22 DEF OpenAddPages
  <2>8. ClientTypeOK'
    BY <2>1, <2>2 DEF ClientTypeOK
  <2>9. WireTypeOK'
    BY <1>22 DEF OpenAddPages, WireTypeOK
  <2> QED
    BY <2>8, <2>9
<1>23. ASSUME NEW r \in Requests, SendCall(r)
      PROVE  ClientTypeOK' /\ WireTypeOK'
  <2>1. addClient \in Requests => Append(addStream[addClient], r) \in Seq(Requests)
    BY AppendProperties DEF WireTypeOK
  <2>2. CASE addClient = NoStream
    BY <1>23, <2>2 DEF SendCall, SendRequest, ClientTypeOK, WireTypeOK
  <2>3. CASE addClient # NoStream
    <3>1. ClientTypeOK'
      <4>1. call' \in [Requests -> CallStates]
        BY <1>23, <2>3 DEF SendCall, SendRequest, CallStates, ClientTypeOK
      <4>2. UNCHANGED <<jobVars, runVars, fwdVars, got, listVars, stopCall, panic,
                        addClient>>
        BY <1>23, <2>3 DEF SendCall, SendRequest
      <4> QED
        BY <4>1, <4>2 DEF ClientTypeOK
    <3>2. WireTypeOK'
      BY <1>23, <2>1, <2>3 DEF SendCall, SendRequest, ClientTypeOK, WireTypeOK
    <3> QED
      BY <3>1, <3>2
  <2> QED
    BY <2>2, <2>3
<1> QED
  BY <1>1, <1>2, <1>3, <1>4, <1>5, <1>6, <1>7, <1>8, <1>9, <1>10, <1>11,
     <1>12, <1>13, <1>14, <1>15, <1>16, <1>17, <1>18, <1>19, <1>20, <1>21,
     <1>22, <1>23
  DEF ClientNext, Program, Run, Forward, ListenAnalyzedURLs, AddPage, AddJS, CallStep

\* So does a step of the server, which changes little of the client.
LEMMA ServerType ==
  ASSUME TypeOK, ServerNext
  PROVE  TypeOK'
<1> USE ClientAssumption, SessionAssumption
<1>u. /\ UNCHANGED clientVars => ClientTypeOK'
      /\ UNCHANGED wireVars => WireTypeOK'
      /\ UNCHANGED shipVars => ShipTypeOK'
      /\ UNCHANGED feedVars => FeedTypeOK'
      /\ UNCHANGED queueVars => QueueTypeOK'
      /\ UNCHANGED taskVars => TaskTypeOK'
      /\ UNCHANGED listerVars => ListerTypeOK'
  <2>1. UNCHANGED clientVars => ClientTypeOK'
    BY DEF TypeOK, ClientTypeOK
  <2>2. UNCHANGED wireVars => WireTypeOK'
    BY DEF TypeOK, WireTypeOK
  <2>3. UNCHANGED shipVars => ShipTypeOK'
    BY DEF TypeOK, ShipTypeOK
  <2>4. UNCHANGED feedVars => FeedTypeOK'
    BY DEF TypeOK, FeedTypeOK
  <2>5. UNCHANGED queueVars => QueueTypeOK'
    BY DEF TypeOK, QueueTypeOK
  <2>6. UNCHANGED taskVars => TaskTypeOK'
    BY DEF TypeOK, TaskTypeOK
  <2>7. UNCHANGED listerVars => ListerTypeOK'
    BY DEF TypeOK, ListerTypeOK
  <2> QED
    BY <2>1, <2>2, <2>3, <2>4, <2>5, <2>6, <2>7
<1> USE DEF TypeOK
<1>1. CASE AddNewJob
  <2>5. ClientTypeOK' /\ TaskTypeOK' /\ ListerTypeOK'
    BY <1>1, <1>u DEF AddNewJob
  <2>6. WireTypeOK'
    BY <1>1 DEF AddNewJob, WireTypeOK
  <2>7. ShipTypeOK'
    BY <1>1 DEF AddNewJob, ShipTypeOK
  <2>8. FeedTypeOK'
    BY <1>1 DEF AddNewJob, FeedTypeOK
  <2>9. QueueTypeOK'
    BY <1>1 DEF AddNewJob, QueueTypeOK
  <2> QED
    BY <2>5, <2>6, <2>7, <2>8, <2>9
<1>2. CASE StreamPage
  <2>1. /\ Head(sendChan) \in Requests
        /\ <<Head(sendChan)>> \in Seq(Requests) /\ Len(<<Head(sendChan)>>) = 1
        /\ Tail(sendChan) \in Seq(Requests) /\ Len(Tail(sendChan)) <= SendCap
    BY <1>2, TakeOne DEF StreamPage, WireTypeOK, ShipTypeOK, FeedTypeOK, ListerTypeOK
  <2>2. /\ Append(pageStream, Head(sendChan)) \in Seq(Requests) /\ Len(Append(pageStream, Head(sendChan))) <= Window
    BY <1>2, <2>1, AppendOne DEF StreamPage, WireTypeOK, ShipTypeOK, FeedTypeOK, ListerTypeOK
  <2>5. ClientTypeOK' /\ FeedTypeOK' /\ QueueTypeOK' /\ TaskTypeOK' /\ ListerTypeOK'
    BY <1>2, <1>u DEF StreamPage
  <2>6. WireTypeOK'
    BY <1>2, <2>1, <2>2 DEF StreamPage, WireTypeOK
  <2>7. ShipTypeOK'
    BY <1>2, <2>1, <2>2 DEF StreamPage, ShipTypeOK
  <2> QED
    BY <2>5, <2>6, <2>7
<1>3. CASE LoseClient
  <2>1. /\ Head(sendChan) \in Requests
        /\ <<Head(sendChan)>> \in Seq(Requests) /\ Len(<<Head(sendChan)>>) = 1
        /\ Tail(sendChan) \in Seq(Requests) /\ Len(Tail(sendChan)) <= SendCap
    BY <1>3, TakeOne DEF LoseClient, WireTypeOK, ShipTypeOK, FeedTypeOK, ListerTypeOK
  <2>5. ClientTypeOK' /\ WireTypeOK' /\ FeedTypeOK' /\ QueueTypeOK' /\ TaskTypeOK' /\ ListerTypeOK'
    BY <1>3, <1>u DEF LoseClient
  <2>6. ShipTypeOK'
    BY <1>3, <2>1 DEF LoseClient, ShipTypeOK
  <2> QED
    BY <2>5, <2>6
<1>4. CASE EndStream
  <2>5. ClientTypeOK' /\ FeedTypeOK' /\ QueueTypeOK' /\ TaskTypeOK' /\ ListerTypeOK'
    BY <1>4, <1>u DEF EndStream
  <2>6. WireTypeOK'
    BY <1>4 DEF EndStream, WireTypeOK
  <2>7. ShipTypeOK'
    BY <1>4 DEF EndStream, ShipTypeOK
  <2> QED
    BY <2>5, <2>6, <2>7
<1>5. CASE Break
  <2>1. <<>> \in Seq(Requests) /\ Len(<<>>) = 0
    BY EmptySeq
  <2>5. ClientTypeOK' /\ ShipTypeOK' /\ QueueTypeOK' /\ TaskTypeOK' /\ ListerTypeOK'
    BY <1>5, <1>u DEF Break
  <2>6. WireTypeOK'
    BY <1>5, <2>1 DEF Break, WireTypeOK
  <2>7. FeedTypeOK'
    BY <1>5, <2>1 DEF Break, FeedTypeOK
  <2> QED
    BY <2>5, <2>6, <2>7
<1>6. ASSUME NEW s \in Requests, AddPagesRecv(s)
      PROVE  TypeOK'
  <2>1. /\ <<Head(addStream[s])>> \in Seq(Requests) /\ Len(<<Head(addStream[s])>>) = 1
        /\ Tail(addStream[s]) \in Seq(Requests)
    BY <1>6, TakeOne DEF AddPagesRecv, WireTypeOK
  <2>2. <<>> \in Seq(Requests)
    BY EmptySeq
  <2>3. /\ UNCHANGED <<clientVars, pageWire, urlWire, shipVars, reqChan, feeder>>
        /\ UNCHANGED <<feeding, queueVars, taskVars, listerVars>>
        /\ TakeRequest(s) \/ EndAddPages(s)
    BY <1>6 DEF AddPagesRecv
  <2>4. /\ ClientTypeOK' /\ ShipTypeOK' /\ QueueTypeOK' /\ TaskTypeOK'
        /\ ListerTypeOK'
    BY <2>3, <1>u
  <2>5. CASE TakeRequest(s)
    <3>1. WireTypeOK'
      BY <2>1, <2>3, <2>5 DEF TakeRequest, WireTypeOK
    <3>2. FeedTypeOK'
      BY <2>1, <2>3, <2>5 DEF TakeRequest, FeedTypeOK
    <3> QED
      BY <2>4, <3>1, <3>2
  <2>6. CASE EndAddPages(s)
    <3>1. WireTypeOK'
      BY <2>2, <2>3, <2>6 DEF EndAddPages, WireTypeOK
    <3>2. FeedTypeOK'
      BY <2>3, <2>6 DEF EndAddPages, FeedTypeOK
    <3> QED
      BY <2>4, <3>1, <3>2
  <2> QED
    BY <2>3, <2>5, <2>6
<1>7. ASSUME NEW s \in Requests, AddPagesPush(s)
      PROVE  TypeOK'
  <2>1. /\ reqChan \o adding[s] \in Seq(Requests) /\ Len(reqChan \o adding[s]) <= ReqCap
    BY <1>7, PushOne DEF AddPagesPush, WireTypeOK, ShipTypeOK, FeedTypeOK, ListerTypeOK
  <2>2. <<>> \in Seq(Requests) /\ Len(<<>>) = 0
    BY EmptySeq
  <2>5. ClientTypeOK' /\ WireTypeOK' /\ ShipTypeOK' /\ QueueTypeOK' /\ TaskTypeOK' /\ ListerTypeOK'
    BY <1>7, <1>u DEF AddPagesPush
  <2>6. FeedTypeOK'
    BY <1>7, <2>1, <2>2 DEF AddPagesPush, FeedTypeOK
  <2> QED
    BY <2>5, <2>6
<1>8. CASE FeedPage
  <2>1. /\ <<Head(reqChan)>> \in Seq(Requests) /\ Len(<<Head(reqChan)>>) = 1
        /\ Tail(reqChan) \in Seq(Requests) /\ Len(Tail(reqChan)) <= ReqCap
    BY <1>8, TakeOne DEF FeedPage, FeedTypeOK
  <2>5. /\ ClientTypeOK' /\ WireTypeOK' /\ ShipTypeOK' /\ QueueTypeOK' /\ TaskTypeOK'
        /\ ListerTypeOK'
    BY <1>8, <1>u DEF FeedPage
  <2>2. /\ feeding' \in Seq(Requests) /\ Len(feeding') <= 1
        /\ feeder' \in {"push", "exited"}
    <3>1. UNCHANGED feeding \/ feeding' = <<Head(reqChan)>>
      BY <1>8 DEF FeedPage
    <3>2. feeder' \in {"push", "exited"}
      BY <1>8 DEF FeedPage
    <3>3. feeding \in Seq(Requests) /\ Len(feeding) <= 1
      BY DEF FeedTypeOK
    <3>4. ASSUME UNCHANGED feeding PROVE feeding' \in Seq(Requests) /\ Len(feeding') <= 1
      BY <3>3, <3>4
    <3>5. ASSUME feeding' = <<Head(reqChan)>>
          PROVE  feeding' \in Seq(Requests) /\ Len(feeding') <= 1
      BY <2>1, <3>5
    <3> QED
      BY <3>1, <3>2, <3>4, <3>5
  <2>3. reqChan' = Tail(reqChan) /\ UNCHANGED <<adder, adding>>
    BY <1>8 DEF FeedPage
  <2>6. FeedTypeOK'
    BY <2>1, <2>2, <2>3 DEF FeedTypeOK
  <2> QED
    BY <2>5, <2>6
<1>p. CASE FeedPush
  <2>1. queue \o feeding \in Seq(Requests)
    BY ConcatProperties DEF FeedTypeOK, QueueTypeOK
  <2>2. <<>> \in Seq(Requests) /\ Len(<<>>) = 0
    BY EmptySeq
  <2>5. ClientTypeOK' /\ WireTypeOK' /\ ShipTypeOK' /\ TaskTypeOK' /\ ListerTypeOK'
    BY <1>p, <1>u DEF FeedPush
  <2>6. FeedTypeOK'
    BY <1>p, <2>2 DEF FeedPush, FeedTypeOK
  <2>7. QueueTypeOK'
    BY <1>p, <2>1 DEF FeedPush, QueueTypeOK
  <2> QED
    BY <2>5, <2>6, <2>7
<1>9. CASE FeederDone
  <2>5. ClientTypeOK' /\ WireTypeOK' /\ ShipTypeOK' /\ QueueTypeOK' /\ TaskTypeOK' /\ ListerTypeOK'
    BY <1>9, <1>u DEF FeederDone
  <2>6. FeedTypeOK'
    BY <1>9 DEF FeederDone, FeedTypeOK
  <2> QED
    BY <2>5, <2>6
<1>10. CASE FetchPage
  <2>1. /\ <<Head(queue)>> \in Seq(Requests) /\ Len(<<Head(queue)>>) = 1
        /\ Tail(queue) \in Seq(Requests)
    BY <1>10, TakeOne DEF FetchPage, QueueTypeOK
  <2>5. ClientTypeOK' /\ WireTypeOK' /\ ShipTypeOK' /\ FeedTypeOK' /\ ListerTypeOK'
    BY <1>10, <1>u DEF FetchPage
  <2>6. QueueTypeOK'
    BY <1>10, <2>1 DEF FetchPage, QueueTypeOK
  <2>7. TaskTypeOK'
    BY <1>10, <2>1 DEF FetchPage, TaskTypeOK
  <2> QED
    BY <2>5, <2>6, <2>7
<1>11. CASE AnalyzeLinks
  <2>5. ClientTypeOK' /\ WireTypeOK' /\ ShipTypeOK' /\ FeedTypeOK' /\ QueueTypeOK' /\ ListerTypeOK'
    BY <1>11, <1>u DEF AnalyzeLinks
  <2>6. TaskTypeOK'
    BY <1>11 DEF AnalyzeLinks, TaskTypeOK
  <2> QED
    BY <2>5, <2>6
<1>12. CASE SendList
  <2>1. Len(listChan) < ListCap =>
          listChan \o page \in Seq(Requests) /\ Len(listChan \o page) <= ListCap
    BY PushOne DEF ShipTypeOK, FeedTypeOK, QueueTypeOK, TaskTypeOK, ListerTypeOK
  <2>5. ClientTypeOK' /\ WireTypeOK' /\ ShipTypeOK' /\ FeedTypeOK' /\ QueueTypeOK'
    BY <1>12, <1>u DEF SendList
  <2>6. TaskTypeOK'
    BY <1>12, <2>1 DEF SendList, TaskTypeOK
  <2>7. ListerTypeOK'
    BY <1>12, <2>1 DEF SendList, ListerTypeOK
  <2> QED
    BY <2>5, <2>6, <2>7
<1>13. CASE ShipPage
  <2>1. Len(sendChan) < SendCap =>
          sendChan \o page \in Seq(Requests) /\ Len(sendChan \o page) <= SendCap
    BY PushOne DEF ShipTypeOK, TaskTypeOK
  <2>2. <<>> \in Seq(Requests) /\ Len(<<>>) = 0
    BY EmptySeq
  <2>a. \/ UNCHANGED sendChan
        \/ Len(sendChan) < SendCap /\ sendChan' = sendChan \o page
    BY <1>13 DEF ShipPage
  <2>b. sendChan' \in Seq(Requests) /\ Len(sendChan') <= SendCap
    BY <2>1, <2>a DEF ShipTypeOK
  <2>c. UNCHANGED stopChan \/ stopChan' = 0
    BY <1>13 DEF ShipPage
  <2>3. /\ sendChan' \in Seq(Requests) /\ Len(sendChan') <= SendCap
        /\ stopChan' \in 0..1
    BY <2>b, <2>c DEF ShipTypeOK
  <2>4. connected' \in BOOLEAN /\ UNCHANGED <<listener, sendClosed>>
    BY <1>13 DEF ShipPage, ShipTypeOK
  <2>5. ClientTypeOK' /\ WireTypeOK' /\ FeedTypeOK' /\ QueueTypeOK' /\ ListerTypeOK'
    BY <1>13, <1>u DEF ShipPage
  <2>6. ShipTypeOK'
    BY <2>3, <2>4 DEF ShipTypeOK
  <2>7. TaskTypeOK'
    BY <1>13, <2>2, <2>3, <2>4 DEF ShipPage, EndTask, TaskTypeOK
  <2> QED
    BY <2>5, <2>6, <2>7
<1>d. CASE DropPage \/ SendPageHTML
  <2>1. <<>> \in Seq(Requests) /\ Len(<<>>) = 0
    BY EmptySeq
  <2>2. EndTask \/ (task' = "select" /\ UNCHANGED page)
    BY <1>d DEF DropPage, SendPageHTML
  <2>a. ASSUME EndTask PROVE TaskTypeOK'
    BY <2>1, <2>a DEF EndTask, TaskTypeOK
  <2>b. ASSUME task' = "select", UNCHANGED page PROVE TaskTypeOK'
    BY <2>b DEF TaskTypeOK
  <2>3. TaskTypeOK'
    BY <2>2, <2>a, <2>b
  <2>4. ClientTypeOK' /\ WireTypeOK' /\ ShipTypeOK' /\ FeedTypeOK' /\ QueueTypeOK' /\ ListerTypeOK'
    BY <1>d, <1>u DEF DropPage, SendPageHTML
  <2> QED
    BY <2>3, <2>4
<1>i. CASE IgnoreType
  <2>1. <<>> \in Seq(Requests) /\ Len(<<>>) = 0
    BY EmptySeq
  <2>2. Range(page) \subseteq Requests
    BY RangeOf DEF TaskTypeOK
  <2>3. TaskTypeOK'
    BY <1>i, <2>1 DEF IgnoreType, EndTask, TaskTypeOK
  <2>4. QueueTypeOK'
    BY <1>i, <2>2 DEF IgnoreType, QueueTypeOK
  <2>5. ClientTypeOK' /\ WireTypeOK' /\ ShipTypeOK' /\ FeedTypeOK' /\ ListerTypeOK'
    BY <1>i, <1>u DEF IgnoreType
  <2> QED
    BY <2>3, <2>4, <2>5
<1>14. CASE CancelOnStop
  <2>1. <<>> \in Seq(Requests) /\ Len(<<>>) = 0
    BY EmptySeq
  <2>5. ClientTypeOK' /\ WireTypeOK' /\ FeedTypeOK' /\ TaskTypeOK' /\ ListerTypeOK'
    BY <1>14, <1>u DEF CancelOnStop, CancelQueue
  <2>6. ShipTypeOK'
    BY <1>14, <2>1 DEF CancelOnStop, CancelQueue, ShipTypeOK
  <2>7. QueueTypeOK'
    BY <1>14, <2>1 DEF CancelOnStop, CancelQueue, QueueTypeOK
  <2> QED
    BY <2>5, <2>6, <2>7
<1>15. CASE CancelJob
  <2>1. <<>> \in Seq(Requests) /\ Len(<<>>) = 0
    BY EmptySeq
  <2>5. WireTypeOK' /\ ShipTypeOK' /\ FeedTypeOK' /\ TaskTypeOK' /\ ListerTypeOK'
    BY <1>15, <1>u DEF CancelJob, CancelQueue
  <2>6. ClientTypeOK'
    BY <1>15, <2>1 DEF CancelJob, CancelQueue, ClientTypeOK
  <2>7. QueueTypeOK'
    BY <1>15, <2>1 DEF CancelJob, CancelQueue, QueueTypeOK
  <2> QED
    BY <2>5, <2>6, <2>7
<1>16. CASE IdleTimeout
  <2>1. PICK n \in 0..Len(queue) :
          /\ queue' = SubSeq(queue, n + 1, Len(queue))
          /\ dropped' = dropped \union Range(SubSeq(queue, 1, n))
    BY <1>16 DEF IdleTimeout
  <2>2. SubSeq(queue, n + 1, Len(queue)) \in Seq(Requests)
        /\ SubSeq(queue, 1, n) \in Seq(Requests)
    BY CutSeq DEF QueueTypeOK
  <2>3. Range(SubSeq(queue, 1, n)) \subseteq Requests
    BY <2>2, RangeOf
  <2>5. ClientTypeOK' /\ WireTypeOK' /\ ShipTypeOK' /\ FeedTypeOK' /\ TaskTypeOK' /\ ListerTypeOK'
    BY <1>16, <1>u DEF IdleTimeout
  <2>a. idleOver' = TRUE /\ UNCHANGED <<registered, doneClosed, qClosed>>
    BY <1>16 DEF IdleTimeout
  <2>b. idleOver' \in BOOLEAN
    BY <2>a
  <2>6. QueueTypeOK'
    BY <2>1, <2>2, <2>3, <2>a, <2>b DEF QueueTypeOK
  <2> QED
    BY <2>5, <2>6
<1>c. CASE CloseQueue
  <2>5. ClientTypeOK' /\ WireTypeOK' /\ ShipTypeOK' /\ FeedTypeOK' /\ TaskTypeOK' /\ ListerTypeOK'
    BY <1>c, <1>u DEF CloseQueue
  <2>6. QueueTypeOK'
    BY <1>c DEF CloseQueue, QueueTypeOK
  <2> QED
    BY <2>5, <2>6
<1>17. CASE CloseSendChan
  <2>5. ClientTypeOK' /\ WireTypeOK' /\ FeedTypeOK' /\ QueueTypeOK' /\ TaskTypeOK' /\ ListerTypeOK'
    BY <1>17, <1>u DEF CloseSendChan
  <2>6. ShipTypeOK'
    BY <1>17 DEF CloseSendChan, ShipTypeOK
  <2> QED
    BY <2>5, <2>6
<1>18. CASE CloseDoneChan
  <2>5. ClientTypeOK' /\ WireTypeOK' /\ ShipTypeOK' /\ FeedTypeOK' /\ TaskTypeOK' /\ ListerTypeOK'
    BY <1>18, <1>u DEF CloseDoneChan
  <2>6. QueueTypeOK'
    BY <1>18 DEF CloseDoneChan, QueueTypeOK
  <2> QED
    BY <2>5, <2>6
<1>19. CASE ReapJob
  <2>5. ClientTypeOK' /\ WireTypeOK' /\ ShipTypeOK' /\ FeedTypeOK' /\ TaskTypeOK' /\ ListerTypeOK'
    BY <1>19, <1>u DEF ReapJob
  <2>6. QueueTypeOK'
    BY <1>19 DEF ReapJob, QueueTypeOK
  <2> QED
    BY <2>5, <2>6
<1>20. CASE GetAnalyzedURLs
  <2>5. ClientTypeOK' /\ ShipTypeOK' /\ FeedTypeOK' /\ QueueTypeOK' /\ TaskTypeOK'
    BY <1>20, <1>u DEF GetAnalyzedURLs
  <2>6. WireTypeOK'
    BY <1>20 DEF GetAnalyzedURLs, WireTypeOK
  <2>7. ListerTypeOK'
    BY <1>20 DEF GetAnalyzedURLs, ListerTypeOK
  <2> QED
    BY <2>5, <2>6, <2>7
<1>21. CASE MarkAnalyzed
  <2>5. ClientTypeOK' /\ WireTypeOK' /\ ShipTypeOK' /\ FeedTypeOK' /\ QueueTypeOK' /\ TaskTypeOK'
    BY <1>21, <1>u DEF MarkAnalyzed
  <2>6. ListerTypeOK'
    BY <1>21 DEF MarkAnalyzed, ListerTypeOK
  <2> QED
    BY <2>5, <2>6
<1>22. CASE MakeListChan
  <2>5. ClientTypeOK' /\ WireTypeOK' /\ ShipTypeOK' /\ FeedTypeOK' /\ QueueTypeOK' /\ TaskTypeOK'
    BY <1>22, <1>u DEF MakeListChan
  <2>6. ListerTypeOK'
    BY <1>22 DEF MakeListChan, ListerTypeOK
  <2> QED
    BY <2>5, <2>6
<1>23. CASE StreamList
  <2>1. /\ Head(listChan) \in Requests
        /\ <<Head(listChan)>> \in Seq(Requests) /\ Len(<<Head(listChan)>>) = 1
        /\ Tail(listChan) \in Seq(Requests) /\ Len(Tail(listChan)) <= ListCap
    BY <1>23, TakeOne DEF StreamList, WireTypeOK, ShipTypeOK, FeedTypeOK, ListerTypeOK
  <2>2. Len(urlStream) < Window =>
          /\ Append(urlStream, Head(listChan)) \in Seq(Requests)
          /\ Len(Append(urlStream, Head(listChan))) <= Window
    BY <2>1, AppendOne DEF WireTypeOK
  <2>5. ClientTypeOK' /\ ShipTypeOK' /\ FeedTypeOK' /\ QueueTypeOK' /\ TaskTypeOK'
    BY <1>23, <1>u DEF StreamList
  <2>6. WireTypeOK'
    BY <1>23, <2>1, <2>2 DEF StreamList, WireTypeOK
  <2>7. ListerTypeOK'
    BY <1>23, <2>1, <2>2 DEF StreamList, ListerTypeOK
  <2> QED
    BY <2>5, <2>6, <2>7
<1> QED
  BY <1>1, <1>2, <1>3, <1>4, <1>5, <1>6, <1>7, <1>8, <1>9, <1>10, <1>11,
     <1>12, <1>13, <1>d, <1>14, <1>15, <1>16, <1>17, <1>18, <1>19, <1>20, <1>21,
     <1>22, <1>23, <1>p, <1>i, <1>c
  DEF ServerNext, Listener, AddPages, Feeder, Task, EndJob, Lister

(***************************************************************************)
(* The channels and streams between the program and the job stay within    *)
(* their capacity, whatever their sizes, and goroutines have at most one   *)
(* page in hand.                                                           *)
(***************************************************************************)
THEOREM TypeCorrect == Spec => []TypeOK
<1>1. Init => TypeOK
  <2> SUFFICES ASSUME Init PROVE TypeOK
    OBVIOUS
  <2> USE ClientAssumption, SessionAssumption
  <2>1. <<>> \in Seq(Requests) /\ Len(<<>>) = 0
    BY EmptySeq
  <2>2. ClientTypeOK
    <3>1. /\ started \in BOOLEAN /\ stopped \in BOOLEAN /\ phClosed \in BOOLEAN
          /\ panic \in BOOLEAN
      BY DEF Init, ClientInit
    <3> QED
      BY <2>1, <3>1 DEF Init, ClientInit, ClientTypeOK, CallStates
  <2>3. WireTypeOK
    <3>1. urlOpen \in BOOLEAN
      BY DEF Init, ClientInit
    <3> QED
      BY <2>1, <3>1 DEF Init, ClientInit, WireTypeOK
  <2>4. /\ sendClosed \in BOOLEAN /\ connected \in BOOLEAN /\ registered \in BOOLEAN
        /\ doneClosed \in BOOLEAN /\ qClosed \in BOOLEAN /\ listsOn \in BOOLEAN
        /\ idleOver \in BOOLEAN
        /\ listsMade \in BOOLEAN /\ listStop \in BOOLEAN
    BY DEF Init
  <2>5. ShipTypeOK /\ FeedTypeOK
    BY <2>1, <2>4 DEF Init, ShipTypeOK, FeedTypeOK
  <2>6. QueueTypeOK /\ TaskTypeOK /\ ListerTypeOK
    BY <2>1, <2>4 DEF Init, QueueTypeOK, TaskTypeOK, ListerTypeOK
  <2> QED
    BY <2>2, <2>3, <2>5, <2>6 DEF TypeOK
<1>2. TypeOK /\ [Next]_vars => TypeOK'
  <2>1. TypeOK /\ UNCHANGED vars => TypeOK'
    BY DEF TypeOK, ClientTypeOK, WireTypeOK, ShipTypeOK, FeedTypeOK, QueueTypeOK,
           TaskTypeOK, ListerTypeOK, vars
  <2> QED
    BY <2>1, ClientType, ServerType DEF Next
<1> QED
  BY <1>1, <1>2, PTL DEF Spec

=============================================================================
