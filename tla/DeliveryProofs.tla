--------------------------- MODULE DeliveryProofs ---------------------------
(***************************************************************************)
(* Session implements PageDelivery: for any number of requests, callers    *)
(* and streams, and for channels and windows of any size, every step of    *)
(* client and server ships a page, is the read of the next one, loses the  *)
(* pages that have not arrived, or moves a page on its way.                *)
(***************************************************************************)
EXTENDS SessionProofs

USE DEF jobVars, runVars, fwdVars, listVars, callVars, pageWire, addWire, urlWire,
        clientVars, wireVars, shipVars, feedVars, queueVars, taskVars, listerVars,
        serverVars

-----------------------------------------------------------------------------
(* Sequences.                                                              *)

\* Concatenation.  With a name of its own the provers see the facts below, and
\* not its definition.
Join(s, t) == s \o t

LEMMA JoinFacts ==
  ASSUME NEW S, NEW s \in Seq(S), NEW t \in Seq(S)
  PROVE  /\ Join(s, t) \in Seq(S)
         /\ Join(s, <<>>) = s /\ Join(<<>>, s) = s
         /\ \A u \in Seq(S) : Join(Join(s, t), u) = Join(s, Join(t, u))
<1>1. Join(s, t) \in Seq(S)
  BY ConcatProperties DEF Join
<1>2. Join(s, <<>>) = s /\ Join(<<>>, s) = s
  BY ConcatEmptySeq DEF Join
<1>3. ASSUME NEW u \in Seq(S)
      PROVE  Join(Join(s, t), u) = Join(s, Join(t, u))
  BY ConcatAssociative DEF Join
<1> QED
  BY <1>1, <1>2, <1>3

\* Moving pages between neighbouring channels keeps their order.
LEMMA Shift ==
  ASSUME NEW S, NEW a \in Seq(S), NEW b \in Seq(S), NEW c \in Seq(S),
         NEW b2 \in Seq(S), NEW c2 \in Seq(S), Join(b, c) = Join(b2, c2)
  PROVE  Join(Join(a, b), c) = Join(Join(a, b2), c2)
BY JoinFacts

\* The value that is taken off a channel is the first of it.
LEMMA TakeFirst ==
  ASSUME NEW S, NEW s \in Seq(S), s # <<>>
  PROVE  Join(<<Head(s)>>, Tail(s)) = s
<1>1. SubSeq(s, 1, Len(s)) = s
  BY SubSeqFull
<1>2. Len(s) \in Nat \ {0}
  BY EmptySeq
<1>3. SubSeq(s, 1, Len(s)) = <<s[1]>> \o SubSeq(s, 1 + 1, Len(s))
  BY <1>2, SubSeqRecursiveFirst
<1>4. Tail(s) = SubSeq(s, 2, Len(s))
  BY TailIsSubSeq
<1>5. Head(s) = s[1]
  OBVIOUS
<1> QED
  BY <1>1, <1>2, <1>3, <1>4, <1>5 DEF Join

\* What is added at the end leaves the places before it alone.
LEMMA Extend ==
  ASSUME NEW S, NEW s \in Seq(S), NEW t \in Seq(S), NEW i \in 1..Len(s)
  PROVE  i \in 1..Len(s \o t) /\ (s \o t)[i] = s[i] /\ s \o t \in Seq(S)
<1>1. Len(s) \in Nat /\ Len(t) \in Nat
  BY LenProperties
<1> QED
  BY <1>1, ConcatProperties

\* A prefix of a concatenation.
LEMMA Prefix ==
  ASSUME NEW S, NEW s \in Seq(S), NEW t \in Seq(S)
  PROVE  SubSeq(s \o t, 1, Len(s)) = s
<1>1. Len(s) \in Nat /\ Len(t) \in Nat
  BY LenProperties
<1>2. CASE s = <<>>
  BY <1>2, SubSeqEmpty, ConcatProperties
<1>3. CASE s # <<>>
  <2>1. Len(s) \in Nat \ {0}
    BY <1>3, EmptySeq
  <2>2. 1 \in 1..Len(s) /\ Len(s) \in 1..Len(s)
    BY <2>1
  <2> QED
    BY <2>2, SubSeqOfConcat1, SubSeqFull
<1> QED
  BY <1>2, <1>3

-----------------------------------------------------------------------------
(* The invariant.                                                          *)

(***************************************************************************)
(* A goroutine has a page in hand only between taking and pushing it, and  *)
(* nothing is on a stream that broke.  For this, run and the forwarding    *)
(* goroutine start once, after AddDomainAndListen has been answered.       *)
(***************************************************************************)
HandsInv ==
  /\ run # "push" => held = <<>>
  /\ fwd # "push" => fwdHeld = <<>>
  /\ pageEnd = "broken" => pageStream = <<>>

StartsInv ==
  /\ job \in {"new", "subscribe"} => run = "off"
  /\ run \in {"off", "start", "analyzed"} => fwd = "off"
  /\ listener = "off" => pageStream = <<>>

\* The hands are empty where they should be.
THEOREM HandsCorrect == Spec => [](HandsInv /\ StartsInv)
<1>1. Init => HandsInv /\ StartsInv
  BY DEF Init, ClientInit, HandsInv, StartsInv
<1>2. HandsInv /\ StartsInv /\ [Next]_vars => HandsInv' /\ StartsInv'
  <2> SUFFICES ASSUME HandsInv, StartsInv, [Next]_vars PROVE HandsInv' /\ StartsInv'
    OBVIOUS
  <2>1. UNCHANGED <<job, run, held, fwd, fwdHeld, pageEnd, pageStream, listener>> =>
          HandsInv' /\ StartsInv'
    BY DEF HandsInv, StartsInv
  <2>2. CASE UNCHANGED vars
    BY <2>1, <2>2 DEF vars
  <2>3. CASE ClientNext /\ UNCHANGED serverVars
    <3> UNCHANGED listener
      BY <2>3
    <3>1. CASE NewCrawlJob
      BY <3>1 DEF NewCrawlJob, HandsInv, StartsInv
    <3>2. CASE RecvSubscription
      BY <3>2 DEF RecvSubscription, HandsInv, StartsInv
    <3>3. CASE ReturnJob
      BY <3>3 DEF ReturnJob, HandsInv, StartsInv
    <3>4. CASE RunStart
      BY <3>4 DEF RunStart, HandsInv, StartsInv
    <3>5. CASE InitAnalyzedURL
      BY <3>5 DEF InitAnalyzedURL, HandsInv, StartsInv
    <3>6. CASE RecvPage
      BY <3>6 DEF RecvPage, HandsInv, StartsInv
    <3>7. CASE PushPage
      BY <3>7 DEF PushPage, HandsInv, StartsInv
    <3>8. CASE RecvEnd
      BY <3>8 DEF RecvEnd, HandsInv, StartsInv
    <3>9. CASE ClosePhChan
      BY <3>9 DEF ClosePhChan, HandsInv, StartsInv
    <3>10. CASE CloseStoppedChan
      BY <3>10 DEF CloseStoppedChan, HandsInv, StartsInv
    <3>11. CASE FwdWake
      BY <3>11 DEF FwdWake, HandsInv, StartsInv
    <3>12. CASE FwdTake
      BY <3>12 DEF FwdTake, HandsInv, StartsInv
    <3>13. CASE FwdPush
      BY <3>13 DEF FwdPush, HandsInv, StartsInv
    <3>14. CASE FwdExit
      BY <3>14 DEF FwdExit, HandsInv, StartsInv
    <3>15. ListenAnalyzedURLs \/ ReadList \/ ReadPage \/ Stop => HandsInv' /\ StartsInv'
      BY <2>1 DEF ListenAnalyzedURLs, ListenRecv, ListenPush, ListenEnd, ReadList,
                  ReadPage, Stop
    <3>16. (\E r \in Requests : AddPage(r) \/ AddJS(r)) => HandsInv' /\ StartsInv'
      BY <2>1 DEF AddPage, AddJS, CallStep, BeginCall, OpenAddPages, SendCall
    <3> QED
      BY <2>3, <3>1, <3>2, <3>3, <3>4, <3>5, <3>6, <3>7, <3>8,
         <3>9, <3>10, <3>11, <3>12, <3>13, <3>14, <3>15, <3>16
      DEF ClientNext, Program, Run, Forward
  <2>4. CASE ServerNext
    <3>1. CASE AddNewJob
      BY <3>1 DEF AddNewJob, HandsInv, StartsInv
    <3>2. CASE StreamPage
      BY <3>2 DEF StreamPage, HandsInv, StartsInv
    <3>3. CASE LoseClient
      BY <3>3 DEF LoseClient, HandsInv, StartsInv
    <3>4. CASE EndStream
      BY <3>4 DEF EndStream, HandsInv, StartsInv
    <3>5. CASE Break
      BY <3>5 DEF Break, HandsInv, StartsInv
    <3>6. Feeder \/ Task \/ EndJob => HandsInv' /\ StartsInv'
      BY <2>1 DEF Feeder, FeedPage, FeedPush, FeederDone, Task, FetchPage, DropPage,
                  IgnoreType, AnalyzeLinks, SendList, SendPageHTML, ShipPage, EndJob, CloseSendChan, CloseDoneChan, ReapJob
    <3>7. Lister \/ CancelOnStop \/ CancelJob \/ IdleTimeout \/ CloseQueue => HandsInv' /\ StartsInv'
      BY <2>1 DEF Lister, GetAnalyzedURLs, MarkAnalyzed, MakeListChan, StreamList,
                  CancelOnStop, CancelJob, IdleTimeout, CloseQueue
    <3>8. (\E s \in Requests : AddPages(s)) => HandsInv' /\ StartsInv'
      BY <2>1 DEF AddPages, AddPagesRecv, AddPagesPush
    <3> QED
      BY <2>4, <3>1, <3>2, <3>3, <3>4, <3>5, <3>6, <3>7, <3>8 DEF ServerNext, Listener
  <2> QED
    BY <2>2, <2>3, <2>4 DEF Next
<1> QED
  BY <1>1, <1>2, PTL DEF Spec

-----------------------------------------------------------------------------
(* The refinement.                                                         *)

\* The pages at the client are a sequence, with those it has read in front.
LEMMA ClientPagesType ==
  ASSUME TypeOK
  PROVE  /\ ClientPages \in Seq(Requests)
         /\ Len(got) \in 0..Len(ClientPages)
         /\ Shipped \in Seq(Requests)
         /\ pageStream \o sendChan \in Seq(Requests)
         /\ (ClientPages \o pageStream) \o sendChan
              = ClientPages \o (pageStream \o sendChan)
<1>1. /\ got \in Seq(Requests) /\ pageChan \in Seq(Requests)
      /\ fwdHeld \in Seq(Requests) /\ phChan \in Seq(Requests)
      /\ held \in Seq(Requests) /\ pageStream \in Seq(Requests)
      /\ sendChan \in Seq(Requests)
  BY DEF TypeOK, ClientTypeOK, WireTypeOK, ShipTypeOK
<1> DEFINE a == got \o pageChan
           b == a \o fwdHeld
           c == b \o phChan
           d == c \o held
<1>2. a \in Seq(Requests) /\ Len(a) = Len(got) + Len(pageChan)
  BY <1>1, ConcatProperties
<1>3. b \in Seq(Requests) /\ Len(b) = Len(a) + Len(fwdHeld)
  BY <1>1, <1>2, ConcatProperties
<1>4. c \in Seq(Requests) /\ Len(c) = Len(b) + Len(phChan)
  BY <1>1, <1>3, ConcatProperties
<1>5. d \in Seq(Requests) /\ Len(d) = Len(c) + Len(held)
  BY <1>1, <1>4, ConcatProperties
<1>6. ClientPages = d
  BY DEF ClientPages
<1>7. /\ Len(got) \in Nat /\ Len(pageChan) \in Nat /\ Len(fwdHeld) \in Nat
      /\ Len(phChan) \in Nat /\ Len(held) \in Nat
  BY <1>1, LenProperties
<1>8. ClientPages \in Seq(Requests) /\ Len(got) \in 0..Len(ClientPages)
  <2> HIDE DEF a, b, c, d
  <2> QED
    BY <1>2, <1>3, <1>4, <1>5, <1>6, <1>7
<1> HIDE DEF a, b, c, d
<1>9. pageStream \o sendChan \in Seq(Requests)
  BY <1>1, ConcatProperties
<1>10. (ClientPages \o pageStream) \o sendChan = ClientPages \o (pageStream \o sendChan)
  BY <1>1, <1>8, ConcatAssociative, SMTT(30)
<1>11. ClientPages \o (pageStream \o sendChan) \in Seq(Requests)
  BY <1>8, <1>9, ConcatProperties
<1> QED
  BY <1>8, <1>9, <1>10, <1>11 DEF Shipped

\* run and the forwarding goroutine move pages on, and keep their order.
LEMMA Moves ==
  ASSUME TypeOK, HandsInv, RecvPage \/ PushPage \/ FwdTake \/ FwdPush,
         UNCHANGED sendChan
  PROVE  UNCHANGED <<Shipped, got, pageEnd>>
<1>1. /\ got \in Seq(Requests) /\ pageChan \in Seq(Requests)
      /\ fwdHeld \in Seq(Requests) /\ phChan \in Seq(Requests)
      /\ held \in Seq(Requests) /\ pageStream \in Seq(Requests)
      /\ <<>> \in Seq(Requests)
  BY EmptySeq DEF TypeOK, ClientTypeOK, WireTypeOK
<1>2. UNCHANGED <<got, pageEnd>>
  BY DEF RecvPage, PushPage, FwdTake, FwdPush
<1> DEFINE a == Join(got, pageChan)
           b == Join(a, fwdHeld)
           c == Join(b, phChan)
<1>3. a \in Seq(Requests)
  BY <1>1, JoinFacts
<1>4. b \in Seq(Requests)
  BY <1>1, <1>3, JoinFacts
<1>5. c \in Seq(Requests)
  BY <1>1, <1>4, JoinFacts
<1>p. ClientPages = Join(c, held)
  BY DEF ClientPages, Join
<1>q. ClientPages' = Join(c', held')
  BY DEF ClientPages, Join
<1>r. /\ pageEnd # "broken" => Shipped = Join(Join(ClientPages, pageStream), sendChan)
      /\ pageEnd' # "broken" =>
           Shipped' = Join(Join(ClientPages', pageStream'), sendChan')
  BY DEF Shipped, Join
<1>6. CASE RecvPage
  <2>1. pageEnd # "broken" /\ held = <<>> /\ pageStream # <<>>
    BY <1>6 DEF RecvPage, HandsInv
  <2>2. held' = <<Head(pageStream)>> /\ pageStream' = Tail(pageStream)
    BY <1>6 DEF RecvPage
  <2>3. held' \in Seq(Requests) /\ pageStream' \in Seq(Requests)
    BY <1>1, <2>1, <2>2, TakeOne
  <2>4. Join(held, pageStream) = Join(held', pageStream')
    <3>1. Join(<<Head(pageStream)>>, Tail(pageStream)) = pageStream
      BY <1>1, <2>1, TakeFirst
    <3>2. Join(<<>>, pageStream) = pageStream
      BY <1>1, JoinFacts
    <3> QED
      BY <2>1, <2>2, <3>1, <3>2
  <2>5. Join(Join(c, held), pageStream) = Join(Join(c, held'), pageStream')
    BY <1>1, <1>5, <2>3, <2>4, Shift
  <2>6. UNCHANGED c
    BY <1>6 DEF RecvPage
  <2>7. Join(ClientPages, pageStream) = Join(ClientPages', pageStream')
    BY <1>p, <1>q, <2>5, <2>6
  <2> QED
    BY <1>2, <1>r, <2>1, <2>7
<1>7. ASSUME UNCHANGED <<ClientPages, pageStream>>
      PROVE  UNCHANGED Shipped
  BY <1>2, <1>7 DEF Shipped
<1>8. CASE PushPage
  <2>1. phChan' = Join(phChan, held) /\ held' = <<>>
    BY <1>8 DEF PushPage, Join
  <2>2. phChan' \in Seq(Requests) /\ held' \in Seq(Requests)
    BY <1>1, <2>1, JoinFacts
  <2>3. Join(phChan, held) = Join(phChan', held')
    BY <2>1, <2>2, JoinFacts
  <2>4. Join(Join(b, phChan), held) = Join(Join(b, phChan'), held')
    BY <1>1, <1>4, <2>2, <2>3, Shift
  <2>5. UNCHANGED <<b, pageStream>>
    BY <1>8 DEF PushPage
  <2>6. UNCHANGED ClientPages
    BY <1>p, <1>q, <2>4, <2>5
  <2> QED
    BY <1>2, <1>7, <2>5, <2>6
<1>9. CASE FwdTake
  <2>1. fwdHeld = <<>> /\ phChan # <<>>
    BY <1>9 DEF FwdTake, HandsInv
  <2>2. fwdHeld' = <<Head(phChan)>> /\ phChan' = Tail(phChan)
    BY <1>9 DEF FwdTake
  <2>3. fwdHeld' \in Seq(Requests) /\ phChan' \in Seq(Requests)
    BY <1>1, <2>1, <2>2, TakeOne
  <2>4. Join(fwdHeld, phChan) = Join(fwdHeld', phChan')
    <3>1. Join(<<Head(phChan)>>, Tail(phChan)) = phChan
      BY <1>1, <2>1, TakeFirst
    <3>2. Join(<<>>, phChan) = phChan
      BY <1>1, JoinFacts
    <3> QED
      BY <2>1, <2>2, <3>1, <3>2
  <2>5. Join(Join(a, fwdHeld), phChan) = Join(Join(a, fwdHeld'), phChan')
    BY <1>1, <1>3, <2>3, <2>4, Shift
  <2>6. UNCHANGED <<a, held, pageStream>>
    BY <1>9 DEF FwdTake
  <2>7. UNCHANGED ClientPages
    BY <1>p, <1>q, <2>5, <2>6
  <2> QED
    BY <1>2, <1>7, <2>6, <2>7
<1>10. CASE FwdPush
  <2>1. pageChan' = Join(pageChan, fwdHeld) /\ fwdHeld' = <<>>
    BY <1>10 DEF FwdPush, Join
  <2>2. pageChan' \in Seq(Requests) /\ fwdHeld' \in Seq(Requests)
    BY <1>1, <2>1, JoinFacts
  <2>3. Join(pageChan, fwdHeld) = Join(pageChan', fwdHeld')
    BY <2>1, <2>2, JoinFacts
  <2>4. Join(Join(got, pageChan), fwdHeld) = Join(Join(got, pageChan'), fwdHeld')
    BY <1>1, <2>2, <2>3, Shift
  <2>5. UNCHANGED <<got, phChan, held, pageStream>>
    BY <1>10 DEF FwdPush
  <2>6. UNCHANGED ClientPages
    BY <1>p, <1>q, <2>4, <2>5
  <2> QED
    BY <1>2, <1>7, <2>5, <2>6
<1> QED
  BY <1>6, <1>8, <1>9, <1>10

\* So does the listener.
LEMMA StreamMoves ==
  ASSUME TypeOK, StreamPage
  PROVE  UNCHANGED <<Shipped, got, pageEnd>>
<1>1. /\ sendChan \in Seq(Requests) /\ sendChan # <<>> /\ pageEnd = "open"
      /\ pageStream \in Seq(Requests)
  BY DEF StreamPage, TypeOK, WireTypeOK, ShipTypeOK
<1>2. /\ pageStream' = Append(pageStream, Head(sendChan))
      /\ sendChan' = Tail(sendChan)
      /\ UNCHANGED <<pageEnd, got, ClientPages>>
  BY DEF StreamPage, ClientPages
<1>3. /\ Head(sendChan) \in Requests /\ Tail(sendChan) \in Seq(Requests)
      /\ <<Head(sendChan)>> \in Seq(Requests)
  BY <1>1, TakeOne
<1>4. pageStream' = Join(pageStream, <<Head(sendChan)>>)
  BY <1>1, <1>2, <1>3, AppendIsConcat DEF Join
<1>5. Join(<<Head(sendChan)>>, Tail(sendChan)) = sendChan
  BY <1>1, TakeFirst
<1>6. Join(Join(pageStream, <<Head(sendChan)>>), Tail(sendChan))
        = Join(pageStream, Join(<<Head(sendChan)>>, Tail(sendChan)))
  <2>1. \A x, y, z \in Seq(Requests) : Join(Join(x, y), z) = Join(x, Join(y, z))
    BY JoinFacts
  <2> QED
    BY <1>1, <1>3, <2>1, Zenon
<1>7. Join(pageStream', sendChan') = Join(pageStream, sendChan)
  BY <1>2, <1>4, <1>5, <1>6
<1>8. /\ ClientPages \in Seq(Requests)
      /\ pageStream' \in Seq(Requests) /\ sendChan' \in Seq(Requests)
  BY <1>1, <1>2, <1>3, ClientPagesType, AppendProperties
<1>9. Join(Join(ClientPages, pageStream), sendChan)
        = Join(Join(ClientPages, pageStream'), sendChan')
  BY <1>1, <1>7, <1>8, Shift
<1> QED
  BY <1>1, <1>2, <1>9 DEF Shipped, Join

\* Reading a page off PageChan gets the next of the shipped pages.
LEMMA ReadGets ==
  ASSUME TypeOK, ReadPage, UNCHANGED sendChan
  PROVE  Delivery!Get
<1>1. /\ got \in Seq(Requests) /\ pageChan \in Seq(Requests)
      /\ fwdHeld \in Seq(Requests) /\ phChan \in Seq(Requests)
      /\ held \in Seq(Requests) /\ pageStream \in Seq(Requests)
      /\ sendChan \in Seq(Requests)
  BY DEF TypeOK, ClientTypeOK, WireTypeOK, ShipTypeOK
<1>2. /\ pageChan # <<>>
      /\ got' = Append(got, Head(pageChan)) /\ pageChan' = Tail(pageChan)
      /\ UNCHANGED <<fwdHeld, phChan, held, pageStream, pageEnd>>
  BY DEF ReadPage
<1>3. /\ Head(pageChan) \in Requests /\ Tail(pageChan) \in Seq(Requests)
      /\ <<Head(pageChan)>> \in Seq(Requests)
  BY <1>1, <1>2, TakeOne
<1>4. UNCHANGED (got \o pageChan)
  <2>1. got' = Join(got, <<Head(pageChan)>>)
    BY <1>1, <1>2, <1>3, AppendIsConcat DEF Join
  <2>2. Join(<<Head(pageChan)>>, Tail(pageChan)) = pageChan
    BY <1>1, <1>2, TakeFirst
  <2>3. \A x, y, z \in Seq(Requests) : Join(Join(x, y), z) = Join(x, Join(y, z))
    BY JoinFacts
  <2>4. Join(Join(got, <<Head(pageChan)>>), Tail(pageChan))
          = Join(got, Join(<<Head(pageChan)>>, Tail(pageChan)))
    <3>1. /\ got \in Seq(Requests) /\ <<Head(pageChan)>> \in Seq(Requests)
          /\ Tail(pageChan) \in Seq(Requests)
      BY <1>1, <1>3
    <3> QED
      BY <2>3, <3>1, Zenon
  <2>5. Join(got', pageChan') = Join(got, pageChan)
    BY <1>2, <2>1, <2>2, <2>4
  <2> QED
    BY <2>5 DEF Join
<1>5. UNCHANGED <<ClientPages, Shipped>>
  BY <1>2, <1>4 DEF ClientPages, Shipped
<1> DEFINE n == Len(got) + 1
           a == got \o pageChan
           b == a \o fwdHeld
           c == b \o phChan
           d == c \o held
           e == d \o pageStream
<1>6. /\ a \in Seq(Requests) /\ n \in 1..Len(a) /\ a[n] = Head(pageChan)
  <2>1. Len(got) \in Nat /\ Len(pageChan) \in Nat \ {0}
    BY <1>1, <1>2, EmptySeq, LenProperties
  <2>2. /\ a \in Seq(Requests) /\ Len(a) = Len(got) + Len(pageChan)
        /\ \A i \in 1..Len(got) + Len(pageChan) :
             a[i] = IF i <= Len(got) THEN got[i] ELSE pageChan[i - Len(got)]
    BY <1>1, ConcatProperties
  <2>3. n \in 1..Len(got) + Len(pageChan) /\ ~(n <= Len(got)) /\ n - Len(got) = 1
    BY <2>1
  <2>4. Head(pageChan) = pageChan[1]
    BY <1>1, <1>2
  <2> HIDE DEF a, n
  <2> QED
    BY <2>2, <2>3, <2>4
<1>7. b \in Seq(Requests) /\ n \in 1..Len(b) /\ b[n] = Head(pageChan)
  <2> HIDE DEF a, n
  <2> QED
    BY <1>1, <1>6, Extend
<1>8. c \in Seq(Requests) /\ n \in 1..Len(c) /\ c[n] = Head(pageChan)
  <2> HIDE DEF b, n
  <2> QED
    BY <1>1, <1>7, Extend
<1>9. d \in Seq(Requests) /\ n \in 1..Len(d) /\ d[n] = Head(pageChan)
  <2> HIDE DEF c, n
  <2> QED
    BY <1>1, <1>8, Extend
<1>10. e \in Seq(Requests) /\ n \in 1..Len(e) /\ e[n] = Head(pageChan)
  <2> HIDE DEF d, n
  <2> QED
    BY <1>1, <1>9, Extend
<1>11. n \in 1..Len(e \o sendChan) /\ (e \o sendChan)[n] = Head(pageChan)
  <2> HIDE DEF e, n
  <2> QED
    BY <1>1, <1>10, Extend
<1>12. n \in 1..Len(Shipped) /\ Shipped[n] = Head(pageChan)
  <2>1. Shipped = d \/ Shipped = e \o sendChan
    BY DEF Shipped, ClientPages
  <2> HIDE DEF d, e, n
  <2> QED
    BY <1>9, <1>11, <2>1
<1>13. Len(got) < Len(Shipped) /\ Shipped[Len(got) + 1] = Head(pageChan)
  <2>1. Len(got) \in Nat
    BY <1>1, LenProperties
  <2> QED
    BY <1>12, <2>1
<1> QED
  BY <1>2, <1>5, <1>13 DEF Delivery!Get

\* The pages that have reached the client are in front of the others.
LEMMA BreakLoses ==
  ASSUME TypeOK, pageEnd # "broken", pageEnd' = "broken",
         UNCHANGED <<got, ClientPages>>
  PROVE  Delivery!Lose
<1>1. /\ ClientPages \in Seq(Requests) /\ Len(got) \in 0..Len(ClientPages)
      /\ pageStream \o sendChan \in Seq(Requests)
      /\ Shipped = ClientPages \o (pageStream \o sendChan)
  BY ClientPagesType DEF Shipped
<1>2. Shipped' = ClientPages
  BY DEF Shipped
<1>3. SubSeq(Shipped, 1, Len(ClientPages)) = ClientPages
  BY <1>1, Prefix
<1>4. Len(ClientPages) \in Len(got)..Len(Shipped)
  <2>1. Len(ClientPages) \in Nat /\ Len(pageStream \o sendChan) \in Nat
    BY <1>1, LenProperties
  <2>2. Len(Shipped) = Len(ClientPages) + Len(pageStream \o sendChan)
    BY <1>1, ConcatProperties
  <2> QED
    BY <1>1, <2>1, <2>2
<1>5. \E n \in Len(got)..Len(Shipped) : Shipped' = SubSeq(Shipped, 1, n)
  BY <1>2, <1>3, <1>4
<1> QED
  BY <1>5 DEF Delivery!Lose

\* sendPageHTML ships the page, or has nobody to ship it to.
LEMMA ShipShips ==
  ASSUME TypeOK, ShipPage
  PROVE  \/ UNCHANGED <<Shipped, got, pageEnd>>
         \/ \E p \in Requests : Delivery!Ship(p)
<1>1. /\ UNCHANGED <<ClientPages, pageStream, pageEnd, got>>
      /\ UNCHANGED sendChan \/ sendChan' = sendChan \o page
  BY DEF ShipPage, ClientPages
<1>2. CASE UNCHANGED sendChan \/ pageEnd = "broken"
  BY <1>1, <1>2 DEF Shipped
<1>3. CASE page = <<>>
  <2>1. UNCHANGED sendChan
    BY <1>1, <1>3, ConcatEmptySeq DEF TypeOK, ShipTypeOK
  <2> QED
    BY <1>2, <2>1
<1>4. CASE pageEnd # "broken" /\ sendChan' = sendChan \o page /\ page # <<>>
  <2>1. /\ page \in Seq(Requests) /\ page # <<>> /\ Len(page) <= 1
        /\ sendChan \in Seq(Requests) /\ pageStream \in Seq(Requests)
        /\ ClientPages \in Seq(Requests)
    BY <1>4, ClientPagesType DEF TypeOK, TaskTypeOK, ShipTypeOK, WireTypeOK
  <2>2. Head(page) \in Requests /\ page = <<Head(page)>>
    <3>1. Len(page) = 1
      <4>1. Len(page) \in Nat \ {0}
        BY <2>1, EmptySeq
      <4>2. Len(page) <= 1
        BY DEF TypeOK, TaskTypeOK
      <4>3. \A k \in Nat \ {0} : k <= 1 => k = 1
        OBVIOUS
      <4> QED
        BY <4>1, <4>2, <4>3, Zenon
    <3>2. Head(page) \in Requests /\ <<Head(page)>> \in Seq(Requests)
      BY <2>1, TakeOne
    <3>3. Tail(page) = <<>>
      <4>1. Tail(page) \in Seq(Requests) /\ Len(Tail(page)) = 0
        BY <2>1, <3>1, HeadTailProperties
      <4> QED
        BY <4>1, EmptySeq
    <3>4. Join(<<Head(page)>>, Tail(page)) = page
      BY <2>1, TakeFirst
    <3>5. Join(<<Head(page)>>, <<>>) = <<Head(page)>>
      BY <3>2, JoinFacts
    <3> QED
      BY <3>2, <3>3, <3>4, <3>5
  <2> DEFINE q == Join(ClientPages, pageStream)
  <2>3. q \in Seq(Requests)
    BY <2>1, JoinFacts
  <2>4. Shipped = Join(q, sendChan) /\ Shipped' = Join(q, Join(sendChan, page))
    BY <1>1, <1>4 DEF Shipped, Join
  <2>5. Join(Join(q, sendChan), page) = Join(q, Join(sendChan, page))
    <3> HIDE DEF q
    <3> QED
      BY <2>1, <2>3, JoinFacts
  <2>6. Shipped' = Shipped \o <<Head(page)>>
    BY <2>2, <2>4, <2>5 DEF Join
  <2>7. Shipped' = Append(Shipped, Head(page))
    BY <2>2, <2>6, ClientPagesType, AppendIsConcat
  <2>8. Delivery!Ship(Head(page))
    BY <1>1, <1>4, <2>7 DEF Delivery!Ship
  <2> QED
    BY <2>2, <2>8
<1> QED
  BY <1>1, <1>2, <1>3, <1>4

\* Everything else leaves the pages alone.
LEMMA Stutters ==
  ASSUME UNCHANGED <<got, pageChan, fwdHeld, phChan, held, pageStream, pageEnd>>,
         UNCHANGED sendChan \/ pageEnd = "broken"
  PROVE  UNCHANGED <<Shipped, got, pageEnd>>
BY DEF Shipped, ClientPages

\* A step of the client.
LEMMA ClientRefines ==
  ASSUME TypeOK, HandsInv, StartsInv, ClientNext, UNCHANGED serverVars
  PROVE  UNCHANGED <<Shipped, got, pageEnd>> \/ Delivery!Next
<1>1. UNCHANGED sendChan
  OBVIOUS
<1>2. Program => UNCHANGED <<Shipped, got, pageEnd>>
  BY <1>1, Stutters DEF Program, NewCrawlJob, RecvSubscription, ReturnJob
<1>3. Run => UNCHANGED <<Shipped, got, pageEnd>>
  <2>1. RecvPage \/ PushPage => UNCHANGED <<Shipped, got, pageEnd>>
    BY <1>1, Moves
  <2> QED
    BY <1>1, <2>1, Stutters DEF Run, RunStart, InitAnalyzedURL, RecvEnd, ClosePhChan,
                                CloseStoppedChan
<1>4. Forward => UNCHANGED <<Shipped, got, pageEnd>>
  <2>1. FwdTake \/ FwdPush => UNCHANGED <<Shipped, got, pageEnd>>
    BY <1>1, Moves
  <2> QED
    BY <1>1, <2>1, Stutters DEF Forward, FwdWake, FwdExit
<1>5. ListenAnalyzedURLs \/ ReadList \/ Stop => UNCHANGED <<Shipped, got, pageEnd>>
  BY <1>1, Stutters DEF ListenAnalyzedURLs, ListenRecv, ListenPush, ListenEnd, ReadList,
                        Stop
<1>6. ReadPage => Delivery!Next
  BY <1>1, ReadGets DEF Delivery!Next
<1>7. (\E r \in Requests : AddPage(r) \/ AddJS(r)) => UNCHANGED <<Shipped, got, pageEnd>>
  BY <1>1, Stutters DEF AddPage, AddJS, CallStep, BeginCall, OpenAddPages, SendCall
<1> QED
  BY <1>2, <1>3, <1>4, <1>5, <1>6, <1>7 DEF ClientNext

\* A step of the server.
LEMMA ServerRefines ==
  ASSUME TypeOK, HandsInv, StartsInv, ServerNext
  PROVE  UNCHANGED <<Shipped, got, pageEnd # "broken">> \/ Delivery!Next
<1>1. CASE AddNewJob
  <2>1. UNCHANGED <<got, pageChan, fwdHeld, phChan, held, pageStream, sendChan>>
    BY <1>1 DEF AddNewJob
  <2>2. UNCHANGED ClientPages
    BY <2>1 DEF ClientPages
  <2>3. UNCHANGED pageEnd \/ pageEnd' = "broken"
    BY <1>1 DEF AddNewJob
  <2>4. CASE UNCHANGED pageEnd
    BY <2>1, <2>4, Stutters
  <2>5. CASE pageEnd # "broken" /\ pageEnd' = "broken"
    BY <2>1, <2>2, <2>5, BreakLoses DEF Delivery!Next
  <2> QED
    BY <2>3, <2>4, <2>5
<1>2. CASE StreamPage
  BY <1>2, StreamMoves
<1>3. CASE LoseClient
  BY <1>3, Stutters DEF LoseClient
<1>4. CASE EndStream
  <2>1. UNCHANGED <<got, ClientPages, pageStream, sendChan>>
    BY <1>4 DEF EndStream, ClientPages
  <2>2. pageEnd' = "broken" <=> pageEnd = "broken"
    BY <1>4 DEF EndStream
  <2> QED
    BY <2>1, <2>2 DEF Shipped
<1>5. CASE Break
  <2>1. UNCHANGED <<got, ClientPages>> /\ pageEnd # "broken" /\ pageEnd' = "broken"
    BY <1>5 DEF Break, ClientPages
  <2> QED
    BY <2>1, BreakLoses DEF Delivery!Next
<1>6. CASE ShipPage
  <2>1. \/ UNCHANGED <<Shipped, got, pageEnd>>
        \/ \E p \in Requests : Delivery!Ship(p)
    BY <1>6, ShipShips
  <2> QED
    BY <2>1 DEF Delivery!Next
<1>7. Feeder \/ FetchPage \/ DropPage \/ IgnoreType \/ AnalyzeLinks \/ SendList
        \/ SendPageHTML => UNCHANGED <<Shipped, got, pageEnd>>
  BY Stutters DEF Feeder, FeedPage, FeedPush, FeederDone, FetchPage, DropPage,
                  IgnoreType, AnalyzeLinks, SendList, SendPageHTML
<1>8. EndJob \/ Lister => UNCHANGED <<Shipped, got, pageEnd>>
  BY Stutters DEF EndJob, CloseSendChan, CloseDoneChan, ReapJob, Lister,
                  GetAnalyzedURLs, MarkAnalyzed, MakeListChan, StreamList
<1>9. CancelOnStop \/ CancelJob \/ IdleTimeout \/ CloseQueue =>
        UNCHANGED <<Shipped, got, pageEnd>>
  BY Stutters DEF CancelOnStop, CancelJob, IdleTimeout, CloseQueue
<1>10. (\E s \in Requests : AddPages(s)) => UNCHANGED <<Shipped, got, pageEnd>>
  BY Stutters DEF AddPages, AddPagesRecv, AddPagesPush
<1> QED
  BY <1>1, <1>2, <1>3, <1>4, <1>5, <1>6, <1>7, <1>8, <1>9, <1>10
  DEF ServerNext, Listener, Task

(***************************************************************************)
(* Session implements PageDelivery: the program gets the pages in the      *)
(* order in which sendPageHTML ships them, each once, and only a broken    *)
(* connection loses any.                                                   *)
(***************************************************************************)
THEOREM DeliversCorrect == Spec => Delivers
<1>1. Init => Delivery!Init
  <2> SUFFICES ASSUME Init PROVE Delivery!Init
    OBVIOUS
  <2>1. <<>> \o <<>> = <<>>
    BY ConcatEmptySeq, EmptySeq
  <2>2. ClientPages = <<>> /\ Shipped = <<>>
    BY <2>1 DEF Init, ClientInit, ClientPages, Shipped
  <2> QED
    BY <2>2 DEF Init, ClientInit, Delivery!Init
<1>2. TypeOK /\ HandsInv /\ StartsInv /\ [Next]_vars => [Delivery!Next]_(Delivery!vars)
  <2> SUFFICES ASSUME TypeOK, HandsInv, StartsInv, [Next]_vars
               PROVE  [Delivery!Next]_(Delivery!vars)
    OBVIOUS
  <2>1. UNCHANGED <<Shipped, got, pageEnd>> => UNCHANGED Delivery!vars
    BY DEF Delivery!vars
  <2>2. CASE UNCHANGED vars
    BY <2>1, <2>2, Stutters DEF vars
  <2>3. CASE ClientNext /\ UNCHANGED serverVars
    BY <2>1, <2>3, ClientRefines
  <2>4. CASE ServerNext
    BY <2>4, ServerRefines DEF Delivery!vars
  <2> QED
    BY <2>2, <2>3, <2>4 DEF Next
<1> QED
  BY <1>1, <1>2, TypeCorrect, HandsCorrect, PTL DEF Spec, Delivers, Delivery!Spec

-----------------------------------------------------------------------------
(* The end of a job.                                                       *)

(***************************************************************************)
(* The end travels down: the queue closes and the last page is done before *)
(* sendChan closes, sendChan is empty before the stream ends, the stream   *)
(* is empty before run leaves its loop, and stoppedChan closes last.       *)
(***************************************************************************)
EndInv ==
  /\ task = "none" => page = <<>>
  /\ sendClosed => qClosed /\ task = "none" /\ queue = <<>>
  /\ pageEnd = "eof" => sendClosed /\ sendChan = <<>> /\ listener = "ended"
  /\ run \in {"close", "stop", "exited"} => pageEnd # "open" /\ pageStream = <<>>
  /\ stopped => run = "exited"

\* Each step of the server keeps that order.
LEMMA ServerEnds ==
  ASSUME StartsInv, EndInv, ServerNext
  PROVE  EndInv'
<1>0. UNCHANGED <<task, page, sendClosed, qClosed, queue, pageEnd, sendChan, listener,
                  run, pageStream, stopped>> => EndInv'
  BY DEF EndInv
<1>1. CASE AddNewJob
  BY <1>1 DEF AddNewJob, EndInv, StartsInv
<1>2. CASE StreamPage
  BY <1>2 DEF StreamPage, EndInv, StartsInv
<1>3. CASE LoseClient
  BY <1>3 DEF LoseClient, EndInv, StartsInv
<1>4. CASE EndStream
  BY <1>4 DEF EndStream, EndInv, StartsInv
<1>5. CASE Break
  BY <1>5 DEF Break, EndInv, StartsInv
<1>6. CASE FeedPage \/ FeedPush
  BY <1>6 DEF FeedPage, FeedPush, EndInv, StartsInv
<1>7. CASE FetchPage
  BY <1>7 DEF FetchPage, EndInv, StartsInv
<1>8. CASE AnalyzeLinks
  BY <1>8 DEF AnalyzeLinks, EndInv, StartsInv
<1>9. CASE SendList
  BY <1>9 DEF SendList, EndInv, StartsInv
<1>10. CASE ShipPage
  BY <1>10 DEF ShipPage, EndTask, EndInv, StartsInv
<1>d. CASE DropPage \/ IgnoreType \/ SendPageHTML
  BY <1>d DEF DropPage, IgnoreType, SendPageHTML, EndTask, EndInv
<1>11. CASE CloseSendChan
  BY <1>11 DEF CloseSendChan, EndInv, StartsInv
<1>12. CASE CancelOnStop
  BY <1>12 DEF CancelOnStop, CancelQueue, EndInv
<1>13. CASE CancelJob
  BY <1>13 DEF CancelJob, CancelQueue, EndInv
<1>14. CASE IdleTimeout
  <2>1. PICK n \in 0..Len(queue) : queue' = SubSeq(queue, n + 1, Len(queue))
    BY <1>14 DEF IdleTimeout
  <2>2. queue = <<>> => queue' = <<>>
    <3> HAVE queue = <<>>
    <3>1. Len(queue) = 0 /\ n = 0
      BY EmptySeq
    <3>2. SubSeq(queue, 1, 0) = <<>>
      BY SubSeqEmpty
    <3> QED
      BY <2>1, <3>1, <3>2
  <2> QED
    BY <1>14, <2>2 DEF IdleTimeout, EndInv
<1>c. CASE CloseQueue
  BY <1>c DEF CloseQueue, EndInv
<1>15. FeederDone \/ CloseDoneChan \/ ReapJob \/ Lister => EndInv'
  BY <1>0 DEF FeederDone, CloseDoneChan, ReapJob, Lister, GetAnalyzedURLs,
              MarkAnalyzed, MakeListChan, StreamList
<1>16. (\E s \in Requests : AddPages(s)) => EndInv'
  BY <1>0 DEF AddPages, AddPagesRecv, AddPagesPush
<1> QED
  BY <1>1, <1>2, <1>3, <1>4, <1>5, <1>6, <1>7, <1>8, <1>9, <1>10, <1>d, <1>11, <1>12,
     <1>13, <1>14, <1>c, <1>15, <1>16
  DEF ServerNext, Listener, Feeder, Task, EndJob

\* So does each step of the client.
LEMMA ClientEnds ==
  ASSUME StartsInv, EndInv, ClientNext, UNCHANGED serverVars
  PROVE  EndInv'
<1>0. UNCHANGED <<pageEnd, run, pageStream, stopped>> => EndInv'
  BY DEF EndInv
<1>1. CASE NewCrawlJob
  BY <1>1 DEF NewCrawlJob, EndInv, StartsInv
<1>2. CASE RecvSubscription
  BY <1>2 DEF RecvSubscription, EndInv, StartsInv
<1>3. CASE ReturnJob
  BY <1>3 DEF ReturnJob, EndInv, StartsInv
<1>4. CASE RunStart
  BY <1>4 DEF RunStart, EndInv, StartsInv
<1>5. CASE InitAnalyzedURL
  BY <1>5 DEF InitAnalyzedURL, EndInv, StartsInv
<1>6. CASE RecvPage
  BY <1>6 DEF RecvPage, EndInv, StartsInv
<1>7. CASE PushPage
  BY <1>7 DEF PushPage, EndInv, StartsInv
<1>8. CASE RecvEnd
  BY <1>8 DEF RecvEnd, EndInv, StartsInv
<1>9. CASE ClosePhChan
  BY <1>9 DEF ClosePhChan, EndInv, StartsInv
<1>10. CASE CloseStoppedChan
  BY <1>10 DEF CloseStoppedChan, EndInv, StartsInv
<1>11. Forward \/ ListenAnalyzedURLs \/ ReadList \/ ReadPage \/ Stop => EndInv'
  BY <1>0 DEF Forward, FwdWake, FwdTake, FwdPush, FwdExit, ListenAnalyzedURLs,
              ListenRecv, ListenPush, ListenEnd, ReadList, ReadPage, Stop
<1>12. (\E r \in Requests : AddPage(r) \/ AddJS(r)) => EndInv'
  BY <1>0 DEF AddPage, AddJS, CallStep, BeginCall, OpenAddPages, SendCall
<1> QED
  BY <1>1, <1>2, <1>3, <1>4, <1>5, <1>6, <1>7, <1>8, <1>9, <1>10, <1>11, <1>12
  DEF ClientNext, Program, Run

\* The order holds, for every size of channels and streams.
LEMMA EndCorrect == Spec => []EndInv
<1>1. Init => EndInv
  BY DEF Init, ClientInit, EndInv
<1>2. StartsInv /\ EndInv /\ [Next]_vars => EndInv'
  <2>1. EndInv /\ UNCHANGED vars => EndInv'
    BY DEF EndInv, vars
  <2> QED
    BY <2>1, ServerEnds, ClientEnds DEF Next
<1> QED
  BY <1>1, <1>2, HandsCorrect, PTL DEF Spec

(***************************************************************************)
(* When IsAlive has become false because the stream of pages ended, all    *)
(* that the job shipped is at the client: run closes stoppedChan last.     *)
(***************************************************************************)
THEOREM StoppedCorrect == Spec => []StoppedIsComplete
<1>1. HandsInv /\ EndInv => StoppedIsComplete
  <2> SUFFICES ASSUME HandsInv, EndInv, stopped, pageEnd = "eof"
               PROVE  page \o sendChan \o pageStream \o held = <<>>
    BY DEF StoppedIsComplete
  <2>1. page = <<>> /\ sendChan = <<>> /\ pageStream = <<>> /\ held = <<>>
    BY DEF HandsInv, EndInv
  <2>2. <<>> \o <<>> = <<>>
    BY ConcatEmptySeq, EmptySeq
  <2> QED
    BY <2>1, <2>2
<1> QED
  BY <1>1, EndCorrect, HandsCorrect, PTL

-----------------------------------------------------------------------------
(* The job of a session implements JobLife.                                *)

\* Only a listener that is lost leaves a token in stopChan, there is no listener
\* without a job, and a handler has one page.
LifeInv ==
  /\ stopChan = 1 => listener = "lost"
  /\ listener \in {"range", "lost"} => subscription = "ok"
  /\ task # "none" => Len(page) = 1

\* A step of the client leaves the job alone.
LEMMA ClientLeavesJob ==
  ASSUME ClientNext, UNCHANGED serverVars
  PROVE  UNCHANGED <<Life!vars, subscription>>
<1>1. UNCHANGED subscription
  BY DEF ClientNext, Program, NewCrawlJob, RecvSubscription, ReturnJob, Run, RunStart,
         InitAnalyzedURL, RecvPage, PushPage, RecvEnd, ClosePhChan, CloseStoppedChan,
         Forward, FwdWake, FwdTake, FwdPush, FwdExit, ListenAnalyzedURLs, ListenRecv,
         ListenPush, ListenEnd, ReadList, ReadPage, Stop, AddPage, AddJS, CallStep,
         BeginCall, OpenAddPages, SendCall
<1> QED
  BY <1>1 DEF Life!vars, Shipping

\* The steps of the server that are not about shipping.
Aside == \/ Feeder \/ FetchPage \/ DropPage \/ IgnoreType \/ AnalyzeLinks \/ SendList
         \/ ReapJob \/ Lister \/ IdleTimeout \/ CloseQueue \/ Break \/ \E s \in Requests : AddPages(s)

LEMMA AsideLeavesJob ==
  ASSUME Aside
  PROVE  /\ UNCHANGED <<listener, sendChan, sendClosed, doneClosed, subscription,
                        stopChan, Shipping>>
         /\ \/ UNCHANGED <<task, page>>
            \/ FetchPage \/ DropPage \/ IgnoreType \/ AnalyzeLinks \/ SendList
<1>1. Feeder \/ ReapJob \/ IdleTimeout \/ CloseQueue \/ Break =>
        UNCHANGED <<listener, sendChan, sendClosed, doneClosed, subscription, stopChan,
                    task, page>>
  BY DEF Feeder, FeedPage, FeedPush, FeederDone, ReapJob, IdleTimeout, CloseQueue, Break
<1>2. Lister \/ (\E s \in Requests : AddPages(s)) =>
        UNCHANGED <<listener, sendChan, sendClosed, doneClosed, subscription, stopChan,
                    task, page>>
  BY DEF Lister, GetAnalyzedURLs, MarkAnalyzed, MakeListChan, StreamList, AddPages,
         AddPagesRecv, AddPagesPush
<1>3. FetchPage \/ DropPage \/ IgnoreType \/ AnalyzeLinks \/ SendList =>
        /\ UNCHANGED <<listener, sendChan, sendClosed, doneClosed, subscription, stopChan>>
        /\ task # "select" /\ task' # "select"
  BY DEF FetchPage, DropPage, IgnoreType, EndTask, AnalyzeLinks, SendList
<1> QED
  BY <1>1, <1>2, <1>3 DEF Aside, Shipping

\* LifeInv holds throughout.
LEMMA LifeInvCorrect == Spec => []LifeInv
<1>1. Init => LifeInv
  BY DEF Init, ClientInit, LifeInv
<1>2. TypeOK /\ LifeInv /\ [Next]_vars => LifeInv'
  <2> SUFFICES ASSUME TypeOK, LifeInv, [Next]_vars PROVE LifeInv'
    OBVIOUS
  <2>1. UNCHANGED <<stopChan, listener, subscription, task, page>> => LifeInv'
    BY DEF LifeInv
  <2>2. CASE UNCHANGED vars
    BY <2>1, <2>2 DEF vars
  <2>3. CASE ClientNext /\ UNCHANGED serverVars
    BY <2>1, <2>3, ClientLeavesJob
  <2>4. CASE Aside
    <3>1. CASE UNCHANGED <<task, page>>
      BY <2>1, <2>4, <3>1, AsideLeavesJob
    <3>2. CASE FetchPage
      <4>1. Len(<<Head(queue)>>) = 1
        OBVIOUS
      <4> QED
        BY <3>2, <4>1 DEF FetchPage, LifeInv
    <3>3. CASE DropPage \/ IgnoreType \/ AnalyzeLinks \/ SendList
      BY <3>3 DEF DropPage, IgnoreType, EndTask, AnalyzeLinks, SendList, LifeInv
    <3> QED
      BY <2>4, <3>1, <3>2, <3>3, AsideLeavesJob
  <2>5. CASE AddNewJob
    BY <2>5 DEF AddNewJob, LifeInv
  <2>6. CASE StreamPage \/ LoseClient \/ EndStream
    BY <2>6 DEF StreamPage, LoseClient, EndStream, LifeInv
  <2>7. CASE SendPageHTML \/ ShipPage
    BY <2>7 DEF SendPageHTML, ShipPage, EndTask, LifeInv
  <2>8. CASE CloseSendChan \/ CloseDoneChan \/ CancelOnStop \/ CancelJob
    BY <2>8 DEF CloseSendChan, CloseDoneChan, CancelOnStop, CancelJob, CancelQueue, LifeInv
  <2> QED
    BY <2>2, <2>3, <2>4, <2>5, <2>6, <2>7, <2>8
    DEF Next, ServerNext, Listener, Task, EndJob, Aside
<1> QED
  BY <1>1, <1>2, TypeCorrect, PTL DEF Spec

\* A step of the server ships a page, streams one, or ends something, or leaves
\* the job as it is.
LEMMA ServerLives ==
  ASSUME TypeOK, EndInv, LifeInv, ServerNext
  PROVE  Life!Next \/ UNCHANGED Life!vars
<1>0. Len(sendChan) \in Nat
  BY LenProperties DEF TypeOK, ShipTypeOK
<1>1. CASE Aside
  BY <1>1, AsideLeavesJob DEF Life!vars
<1>2. CASE AddNewJob
  BY <1>2 DEF AddNewJob, Life!vars, Shipping
<1>3. CASE StreamPage \/ LoseClient
  <2>1. /\ UNCHANGED <<sendClosed, doneClosed, Shipping, subscription>>
        /\ sendChan # <<>> /\ sendChan' = Tail(sendChan)
        /\ listener = "range" /\ listener' \in {"range", "lost"}
    BY <1>3 DEF StreamPage, LoseClient, Shipping
  <2>2. Len(sendChan) > 0 /\ Len(sendChan') = Len(sendChan) - 1
    BY <2>1, LenProperties, HeadTailProperties DEF TypeOK, ShipTypeOK
  <2>3. subscription = "ok"
    BY <2>1 DEF LifeInv
  <2> QED
    BY <2>1, <2>2, <2>3 DEF Life!Next, Life!Stream, Life!Lose
<1>4. CASE EndStream
  <2>1. /\ UNCHANGED <<sendClosed, doneClosed, Shipping, subscription, sendChan>>
        /\ sendChan = <<>> /\ sendClosed
        /\ listener = "range" /\ listener' = "ended"
    BY <1>4 DEF EndStream, Shipping
  <2>2. Len(sendChan) = 0 /\ subscription = "ok"
    BY <2>1, EmptySeq DEF LifeInv
  <2> QED
    BY <2>1, <2>2 DEF Life!Next, Life!EndStream
<1>5. CASE SendPageHTML
  <2>1. UNCHANGED <<sendClosed, doneClosed, sendChan, listener, subscription>>
    BY <1>5 DEF SendPageHTML
  <2>2. task = "send" /\ ~sendClosed
    BY <1>5 DEF SendPageHTML, EndInv
  <2>3. CASE EndTask
    BY <2>1, <2>2, <2>3 DEF EndTask, Shipping, Life!vars
  <2>4. CASE ~doneClosed /\ task' = "select"
    BY <2>1, <2>2, <2>4 DEF Shipping, Life!Next, Life!LetIn
  <2> QED
    BY <1>5, <2>3, <2>4 DEF SendPageHTML
<1>6. CASE ShipPage
  <2>1. /\ UNCHANGED <<sendClosed, doneClosed, listener, subscription>>
        /\ task = "select" /\ task' = "none" /\ ~sendClosed
        /\ Shipping = {"handler"} /\ Shipping' = {}
    BY <1>6 DEF ShipPage, EndTask, EndInv, Shipping
  <2>2. CASE sendChan' = sendChan \o page
    <3>1. /\ sendChan \in Seq(Requests) /\ page \in Seq(Requests)
          /\ Len(page) = 1
      BY <2>1 DEF LifeInv, TypeOK, ShipTypeOK, TaskTypeOK
    <3>a. Len(sendChan \o page) = Len(sendChan) + Len(page)
      BY <3>1, ConcatProperties
    <3>2. Len(sendChan') = Len(sendChan) + 1
      BY <2>2, <3>1, <3>a
    <3> QED
      BY <2>1, <3>2 DEF Life!Next, Life!Ship
  <2>3. CASE UNCHANGED sendChan /\ stopChan = 1
    <3>1. listener = "lost" /\ subscription = "ok"
      BY <2>3 DEF LifeInv
    <3> QED
      BY <2>1, <2>3, <3>1 DEF Life!Next, Life!GiveUp
  <2> QED
    BY <1>6, <2>2, <2>3 DEF ShipPage
<1>7. CASE CloseSendChan
  <2>1. /\ UNCHANGED <<doneClosed, sendChan, listener, subscription>>
        /\ ~sendClosed /\ sendClosed' = TRUE
        /\ Shipping = {} /\ Shipping' = {}
    BY <1>7 DEF CloseSendChan, Shipping
  <2> QED
    BY <2>1 DEF Life!Next, Life!CloseSend
<1>8. CASE CloseDoneChan \/ CancelOnStop \/ CancelJob
  <2>1. /\ UNCHANGED <<sendClosed, sendChan, listener, subscription, Shipping>>
        /\ UNCHANGED doneClosed \/ (~doneClosed /\ doneClosed' = TRUE)
    BY <1>8 DEF CloseDoneChan, CancelOnStop, CancelJob, CancelQueue, Shipping
  <2> QED
    BY <2>1 DEF Life!Next, Life!CloseDone, Life!vars
<1> QED
  BY <1>1, <1>2, <1>3, <1>4, <1>5, <1>6, <1>7, <1>8
  DEF ServerNext, Listener, Task, EndJob, Aside

(***************************************************************************)
(* Session implements JobLife: its RPCs and its client see a job that lets *)
(* in pages until it is done, ships each of them unless the client is      *)
(* lost, and closes sendChan after the last.                               *)
(***************************************************************************)
THEOREM JobLivesCorrect == Spec => JobLives
<1>1. Init => Life!Init
  BY EmptySeq DEF Init, ClientInit, Life!Init, Shipping
<1>2. TypeOK /\ EndInv /\ LifeInv /\ [Next]_vars => [Life!Next]_(Life!vars)
  <2> SUFFICES ASSUME TypeOK, EndInv, LifeInv, [Next]_vars
               PROVE  [Life!Next]_(Life!vars)
    OBVIOUS
  <2>1. UNCHANGED vars => UNCHANGED Life!vars
    BY DEF vars, Life!vars, Shipping
  <2> QED
    BY <2>1, ClientLeavesJob, ServerLives DEF Next
<1> QED
  BY <1>1, <1>2, TypeCorrect, EndCorrect, LifeInvCorrect, PTL
  DEF Spec, JobLives, Life!Spec

-----------------------------------------------------------------------------
(* Calls without a stream.                                                 *)

(***************************************************************************)
(* What AddPage relies on: once there is a stream it stays, or calls do    *)
(* not overlap.                                                            *)
(***************************************************************************)
Careful == "noStream" \notin Events \/ \A q, r \in Requests : Caller[q] = Caller[r]

NilInv ==
  Careful =>
    /\ ~panic
    /\ \A r \in Requests : call[r] = "send" => addClient # NoStream
    /\ \/ "noStream" \notin Events
       \/ \A q, r \in Requests :
            call[q] \in {"open", "send"} /\ call[r] \in {"open", "send"} => q = r

\* AddPage and AddJS do not use a nil stream, if callers are careful.
THEOREM NoNilSendCorrect == Spec => []NoNilSend
<1>1. Init => NilInv
  BY DEF Init, ClientInit, NilInv
<1>2. TypeOK /\ NilInv /\ [Next]_vars => NilInv'
  <2> SUFFICES ASSUME TypeOK, NilInv, Careful, [Next]_vars PROVE NilInv'
    BY DEF NilInv
  <2>0. UNCHANGED <<panic, call, addClient>> => NilInv'
    BY DEF NilInv
  <2>t. /\ call \in [Requests -> CallStates] /\ NoStream \notin Requests
        /\ DOMAIN Caller = Requests
    BY ClientAssumption DEF TypeOK, ClientTypeOK
  <2>1. ASSUME NEW r \in Requests, BeginCall(r) PROVE NilInv'
    BY <2>1, <2>t DEF BeginCall, NilInv, Free, Careful
  <2>2. ASSUME NEW r \in Requests, OpenAddPages(r) PROVE NilInv'
    BY <2>2, <2>t DEF OpenAddPages, NilInv
  <2>3. ASSUME NEW r \in Requests, SendCall(r) PROVE NilInv'
    BY <2>3, <2>t DEF SendCall, SendRequest, NilInv
  <2>4. UNCHANGED vars => NilInv'
    BY <2>0 DEF vars
  <2>5. ClientNext => NilInv'
    <3>1. Program \/ Run \/ Forward => NilInv'
      BY <2>0 DEF Program, NewCrawlJob, RecvSubscription, ReturnJob, Run, RunStart,
             InitAnalyzedURL, RecvPage, PushPage, RecvEnd, ClosePhChan,
             CloseStoppedChan, Forward, FwdWake, FwdTake, FwdPush, FwdExit
    <3>2. ListenAnalyzedURLs \/ ReadList \/ ReadPage \/ Stop => NilInv'
      BY <2>0 DEF ListenAnalyzedURLs, ListenRecv, ListenPush, ListenEnd, ReadList,
                  ReadPage, Stop
    <3> QED
      BY <2>1, <2>2, <2>3, <3>1, <3>2 DEF ClientNext, AddPage, AddJS, CallStep
  <2>6. ServerNext => NilInv'
    <3>1. Listener \/ Feeder \/ Task \/ Break => NilInv'
      BY <2>0 DEF Listener, AddNewJob, StreamPage, LoseClient, EndStream, Break, Feeder,
                  FeedPage, FeedPush, FeederDone, Task, FetchPage, DropPage, IgnoreType,
                  AnalyzeLinks, SendList, SendPageHTML, ShipPage
    <3>2. EndJob \/ Lister \/ CancelOnStop \/ CancelJob \/ IdleTimeout \/ CloseQueue
          => NilInv'
      BY <2>0 DEF EndJob, CloseSendChan, CloseDoneChan, ReapJob, Lister, GetAnalyzedURLs,
                  MarkAnalyzed, MakeListChan, StreamList, CancelOnStop, CancelJob,
                  IdleTimeout, CloseQueue
    <3>3. (\E s \in Requests : AddPages(s)) => NilInv'
      BY <2>0 DEF AddPages, AddPagesRecv, AddPagesPush
    <3> QED
      BY <3>1, <3>2, <3>3 DEF ServerNext
  <2> QED
    BY <2>4, <2>5, <2>6 DEF Next
<1>3. NilInv => NoNilSend
  BY DEF NilInv, NoNilSend, Careful
<1> QED
  BY <1>1, <1>2, <1>3, TypeCorrect, PTL DEF Spec
=============================================================================
