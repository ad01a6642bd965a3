------------------------ MODULE WorkerManagerProofs ------------------------
(***************************************************************************)
(* Proofs about WorkerManager: with any number of workers and of calls,    *)
(* and whatever workers are lost, the rotation keeps every connected       *)
(* worker, hands them out evenly, and hands out one for each call.         *)
(***************************************************************************)
EXTENDS WorkerManager, SequenceTheorems, FiniteSetTheorems, TLAPS

-----------------------------------------------------------------------------
(* The inductive invariants.                                               *)

\* Nobody is in the rotation, or on the way to it, twice.
Once ==
  /\ \A i, j \in DOMAIN workers : workers[i] = workers[j] => i = j
  /\ \A i, j \in DOMAIN addChan : addChan[i] = addChan[j] => i = j
  /\ \A i \in DOMAIN workers, j \in DOMAIN addChan : workers[i] # addChan[j]

\* A connection that has not been made is not there ...
NewIsOutside ==
  /\ \A i \in DOMAIN workers : conn[workers[i]] # "new"
  /\ \A i \in DOMAIN addChan : conn[addChan[i]] # "new"

\* ... and one that holds is.
ReadyIsInside ==
  \A w \in Workers : conn[w] = "ready" =>
    \/ \E i \in DOMAIN workers : workers[i] = w
    \/ \E i \in DOMAIN addChan : addChan[i] = w

\* Who comes earlier in the rotation was handed out as often as who comes later,
\* or once less.
InTurn ==
  \A i, j \in DOMAIN workers : i < j =>
    /\ turns[workers[i]] <= turns[workers[j]]
    /\ turns[workers[j]] <= turns[workers[i]] + 1

RotationInv == Once /\ NewIsOutside /\ ReadyIsInside /\ InTurn

-----------------------------------------------------------------------------
(* The type invariant.                                                     *)

\* What HandOut makes of the rotation.
LEMMA HandOutFacts ==
  ASSUME TypeOK, NEW i \in DOMAIN workers, HandOut(i)
  PROVE  /\ workers' \in Seq(Workers)
         /\ Len(workers') = Len(workers) - i + 1
         /\ \A k \in 1..(Len(workers) - i) : workers'[k] = workers[i + k]
         /\ workers'[Len(workers) - i + 1] = workers[i]
         /\ workers[i] \in Workers
<1> DEFINE rest == SubSeq(workers, i + 1, Len(workers))
<1>1. /\ workers \in Seq(Workers) /\ Len(workers) \in Nat
      /\ DOMAIN workers = 1..Len(workers)
  BY LenProperties DEF TypeOK
<1>2. i \in 1..Len(workers) /\ \A k \in 1..Len(workers) : workers[k] \in Workers
  BY <1>1, ElementOfSeq
<1>3. \A k \in (i + 1)..Len(workers) : workers[k] \in Workers
  BY <1>1, <1>2
<1>4. /\ rest \in Seq(Workers)
      /\ Len(rest) = Len(workers) - i
      /\ \A k \in 1..(Len(workers) - i) : rest[k] = workers[i + k]
  <2>1. /\ rest \in Seq(Workers)
        /\ Len(rest) = IF i + 1 <= Len(workers) THEN Len(workers) - (i + 1) + 1 ELSE 0
        /\ \A k \in 1..(Len(workers) - (i + 1) + 1) : rest[k] = workers[i + 1 + k - 1]
    BY <1>1, <1>2, <1>3, SubSeqProperties
  <2> QED
    BY <2>1, <1>1, <1>2
<1>5. workers' = Append(rest, workers[i])
  BY DEF HandOut
<1> HIDE DEF rest
<1>6. /\ workers' \in Seq(Workers)
      /\ Len(workers') = Len(rest) + 1
      /\ \A k \in 1..Len(rest) : workers'[k] = rest[k]
      /\ workers'[Len(rest) + 1] = workers[i]
  BY <1>2, <1>4, <1>5, AppendProperties
<1> QED
  BY <1>1, <1>2, <1>4, <1>6

\* The cases of run keep the types.
LEMMA RunType ==
  ASSUME TypeOK, Run
  PROVE  TypeOK'
<1> USE ManagerAssumption
<1>1. CASE RunAdd
  <2>1. /\ Head(addChan) \in Workers /\ Tail(addChan) \in Seq(Workers)
        /\ Len(Tail(addChan)) = Len(addChan) - 1 /\ Len(addChan) \in Nat
    BY <1>1, HeadTailProperties, LenProperties DEF RunAdd, TypeOK
  <2>2. Append(workers, Head(addChan)) \in Seq(Workers)
    BY <2>1, AppendProperties DEF TypeOK
  <2> QED
    BY <1>1, <2>1, <2>2 DEF RunAdd, TypeOK, connVars, callVars, pageVars
<1>2. CASE RunNext
  <2>1. /\ offer' \in {"none"} \union Workers \union {NoWorker}
        /\ workers' \in Seq(Workers)
        /\ turns' \in [Workers -> Nat]
    <3>1. CASE ReadyPlaces = {}
      BY <1>2, <3>1, EmptySeq DEF RunNext, NextOfQueue, TypeOK
    <3>2. CASE ReadyPlaces # {}
      <4>1. PICK i \in ReadyPlaces : HandOut(i)
        BY <1>2, <3>2 DEF RunNext, NextOfQueue
      <4>2. i \in DOMAIN workers
        BY DEF ReadyPlaces
      <4> QED
        BY <4>1, <4>2, HandOutFacts DEF HandOut, TypeOK
    <3> QED
      BY <3>1, <3>2
  <2> QED
    BY <1>2, <2>1 DEF RunNext, TypeOK, connVars, callVars, pageVars
<1>3. CASE RunOffer
  <2>1. offer \in Workers \union {NoWorker} /\ Len(nextChan) \in Nat
    BY <1>3, LenProperties DEF RunOffer, TypeOK
  <2>2. /\ Append(nextChan, offer) \in Seq(Workers \union {NoWorker})
        /\ Len(Append(nextChan, offer)) = Len(nextChan) + 1
    BY <2>1, AppendProperties DEF TypeOK
  <2> QED
    BY <1>3, <2>1, <2>2 DEF RunOffer, TypeOK, connVars, callVars, pageVars
<1> QED
  BY <1>1, <1>2, <1>3 DEF Run

\* So do the workers that come and go, and the calls.
LEMMA TypeStep ==
  ASSUME TypeOK, [Next]_vars
  PROVE  TypeOK'
<1> USE ManagerAssumption
<1>1. CASE UNCHANGED vars
  BY <1>1 DEF TypeOK, vars
<1>2. CASE Run
  BY <1>2, RunType
<1>3. ASSUME NEW w \in Workers, CreateNewClient(w)
      PROVE  TypeOK'
  <2>1. /\ Append(addChan, w) \in Seq(Workers) /\ Len(addChan) \in Nat
        /\ Len(Append(addChan, w)) = Len(addChan) + 1
    BY AppendProperties, LenProperties DEF TypeOK
  <2> QED
    BY <1>3, <2>1 DEF CreateNewClient, TypeOK, callVars, pageVars
<1>4. ASSUME NEW w \in Workers, LoseWorker(w)
      PROVE  TypeOK'
  BY <1>4 DEF LoseWorker, TypeOK, rotation, callVars, pageVars
<1>5. ASSUME NEW c \in Calls, AskWorker(c)
      PROVE  TypeOK'
  BY <1>5 DEF AskWorker, TypeOK, CallStates, connVars, pageVars
<1>6. ASSUME NEW c \in Calls, TakeWorker(c)
      PROVE  TypeOK'
  <2>1. /\ Head(nextChan) \in Workers \union {NoWorker}
        /\ Tail(nextChan) \in Seq(Workers \union {NoWorker})
        /\ Len(Tail(nextChan)) = Len(nextChan) - 1 /\ Len(nextChan) \in Nat
    BY <1>6, HeadTailProperties, LenProperties DEF TakeWorker, TypeOK
  <2> QED
    BY <1>6, <2>1 DEF TakeWorker, TypeOK, CallStates, connVars, pageVars
<1>7. ASSUME NEW c \in Calls, AddPage(c)
      PROVE  TypeOK'
  BY <1>7 DEF AddPage, TypeOK, CallStates, connVars, rotation, pageVars
<1>8. ASSUME NEW c \in Calls, Register(c)
      PROVE  TypeOK'
  BY <1>8 DEF Register, TypeOK, CallStates, connVars, rotation
<1>9. ASSUME NEW c \in Calls, Answer(c)
      PROVE  TypeOK'
  <2>1. Append(pageChan, c) \in Seq(Calls)
    BY AppendProperties DEF TypeOK
  <2> QED
    BY <1>9, <2>1 DEF Answer, TypeOK, connVars, rotation, callVars
<1>12. ASSUME NEW c \in Calls, IgnoreType(c)
       PROVE  TypeOK'
  BY <1>12 DEF IgnoreType, TypeOK, connVars, rotation, callVars
<1>10. CASE TakePage
  <2>1. Head(pageChan) \in Calls /\ Tail(pageChan) \in Seq(Calls)
    BY <1>10, HeadTailProperties DEF TakePage, TypeOK
  <2> QED
    BY <1>10, <2>1 DEF TakePage, TypeOK, connVars, rotation, callVars
<1>11. ASSUME NEW c \in Calls, Deliver(c)
       PROVE  TypeOK'
  BY <1>11 DEF Deliver, TypeOK, CallStates, connVars, rotation
<1> QED
  BY <1>1, <1>2, <1>3, <1>4, <1>5, <1>6, <1>7, <1>8, <1>9, <1>10, <1>11, <1>12
  DEF Next, RespHandler, Do

(***************************************************************************)
(* The channels of the manager stay within their capacity, and its tables  *)
(* hold workers and calls, for all calls of Do and all connections.        *)
(***************************************************************************)
THEOREM TypeCorrect == Spec => []TypeOK
<1>1. Init => TypeOK
  <2> SUFFICES ASSUME Init PROVE TypeOK
    OBVIOUS
  <2>1. /\ addChan \in Seq(Workers) /\ Len(addChan) = 0
        /\ workers \in Seq(Workers)
        /\ nextChan \in Seq(Workers \union {NoWorker}) /\ Len(nextChan) = 0
        /\ pageChan \in Seq(Calls)
    BY EmptySeq DEF Init
  <2> QED
    <3>1. /\ panic \in BOOLEAN /\ chrome \subseteq Workers
          /\ waiting \subseteq Calls /\ ignored \subseteq Calls
      BY DEF Init
    <3>2. /\ conn \in [Workers -> {"new", "ready", "lost"}]
          /\ call \in [Calls -> CallStates]
          /\ target \in [Calls -> Workers \union {NoWorker}]
          /\ turns \in [Workers -> Nat]
      BY DEF Init, CallStates
    <3> QED
      BY <2>1, <3>1, <3>2, ManagerAssumption DEF Init, TypeOK
<1> QED
  BY <1>1, TypeStep, PTL DEF Spec

-----------------------------------------------------------------------------
(* The rotation.                                                           *)

\* Sequences of workers, in the terms of the provers.
LEMMA SeqFacts ==
  ASSUME TypeOK
  PROVE  /\ Len(workers) \in Nat /\ DOMAIN workers = 1..Len(workers)
         /\ Len(addChan) \in Nat /\ DOMAIN addChan = 1..Len(addChan)
         /\ \A i \in 1..Len(workers) : workers[i] \in Workers
         /\ \A i \in 1..Len(addChan) : addChan[i] \in Workers
         /\ \A w \in Workers : turns[w] \in Nat
BY LenProperties, ElementOfSeq DEF TypeOK

\* A worker that joins goes to the end, and the counts start anew.
LEMMA RotationAdd ==
  ASSUME TypeOK, RotationInv, RunAdd
  PROVE  RotationInv'
<1> DEFINE n == Len(workers)
           m == Len(addChan)
<1>1. /\ n \in Nat /\ DOMAIN workers = 1..n /\ m \in Nat /\ DOMAIN addChan = 1..m
      /\ \A i \in 1..n : workers[i] \in Workers
      /\ \A i \in 1..m : addChan[i] \in Workers
  BY SeqFacts
<1>2. /\ m > 0
      /\ Head(addChan) = addChan[1] /\ Head(addChan) \in Workers
      /\ DOMAIN addChan' = 1..(m - 1)
      /\ \A i \in 1..(m - 1) : addChan'[i] = addChan[i + 1]
  BY HeadTailProperties, EmptySeq, LenProperties DEF RunAdd, TypeOK
<1>3. /\ DOMAIN workers' = 1..(n + 1)
      /\ \A i \in 1..n : workers'[i] = workers[i]
      /\ workers'[n + 1] = addChan[1]
  BY <1>2, AppendProperties, LenProperties DEF RunAdd, TypeOK
<1>4. conn' = conn /\ turns' = [w \in Workers |-> 0]
  BY DEF RunAdd, connVars
<1> HIDE DEF n, m
<1>a. \A i \in 1..(m - 1) : i + 1 \in 1..m /\ addChan'[i] = addChan[i + 1]
  BY <1>1, <1>2
<1>b. \A i \in 1..(n + 1) : \/ i \in 1..n /\ workers'[i] = workers[i]
                            \/ i = n + 1 /\ workers'[i] = addChan[1]
  BY <1>1, <1>3
<1>c. 1 \in 1..m
  BY <1>1, <1>2
<1>5. Once'
  <2>1. \A i, j \in 1..(n + 1) : workers'[i] = workers'[j] => i = j
    BY <1>1, <1>b, <1>c DEF RotationInv, Once
  <2>2. ASSUME NEW i \in 1..(m - 1), NEW j \in 1..(m - 1), addChan'[i] = addChan'[j]
        PROVE  i = j
    <3>1. i + 1 = j + 1
      BY <1>1, <1>a, <2>2 DEF RotationInv, Once
    <3> QED
      BY <3>1
  <2>3. ASSUME NEW i \in 1..(n + 1), NEW j \in 1..(m - 1)
        PROVE  workers'[i] # addChan'[j]
    <3>1. addChan[1] # addChan[j + 1]
      <4>1. j + 1 # 1 /\ j + 1 \in 1..m
        BY <1>a
      <4> QED
        BY <1>1, <1>c, <4>1 DEF RotationInv, Once
    <3> QED
      BY <1>1, <1>a, <1>b, <3>1 DEF RotationInv, Once
  <2> QED
    BY <1>2, <1>3, <2>1, <2>2, <2>3 DEF Once
<1>6. NewIsOutside'
  <2>1. \A i \in 1..(n + 1) : conn[workers'[i]] # "new"
    BY <1>1, <1>b, <1>c DEF RotationInv, NewIsOutside
  <2>2. \A i \in 1..(m - 1) : conn[addChan'[i]] # "new"
    BY <1>1, <1>a DEF RotationInv, NewIsOutside
  <2> QED
    BY <1>2, <1>3, <1>4, <2>1, <2>2 DEF NewIsOutside
<1>7. ReadyIsInside'
  <2> SUFFICES ASSUME NEW w \in Workers, conn[w] = "ready"
               PROVE  \/ \E i \in 1..(n + 1) : workers'[i] = w
                      \/ \E i \in 1..(m - 1) : addChan'[i] = w
    BY <1>2, <1>3, <1>4 DEF ReadyIsInside
  <2>1. CASE \E i \in 1..n : workers[i] = w
    <3>1. PICK i \in 1..n : workers[i] = w
      BY <2>1
    <3>2. i \in 1..(n + 1) /\ workers'[i] = w
      BY <1>1, <1>3, <3>1
    <3> QED
      BY <3>2
  <2>2. CASE \E i \in 1..m : addChan[i] = w
    <3>1. PICK i \in 1..m : addChan[i] = w
      BY <2>2
    <3>2. CASE i = 1
      BY <1>1, <1>3, <3>1, <3>2
    <3>3. CASE i # 1
      <4>1. i - 1 \in 1..(m - 1) /\ addChan'[i - 1] = w
        BY <1>1, <1>2, <3>1, <3>3
      <4> QED
        BY <4>1
    <3> QED
      BY <3>2, <3>3
  <2> QED
    BY <1>1, <2>1, <2>2 DEF RotationInv, ReadyIsInside
<1>8. InTurn'
  <2>1. \A i \in 1..(n + 1) : workers'[i] \in Workers
    BY <1>1, <1>2, <1>3
  <2> QED
    BY <1>3, <1>4, <2>1 DEF InTurn
<1> QED
  BY <1>5, <1>6, <1>7, <1>8 DEF RotationInv

\* The worker that is handed out goes to the end, having had one turn more; only
\* workers that are lost come before it.
LEMMA RotationNext ==
  ASSUME TypeOK, RotationInv, RunNext
  PROVE  RotationInv'
<1> DEFINE n == Len(workers)
<1>1. /\ n \in Nat /\ DOMAIN workers = 1..n /\ DOMAIN addChan = 1..Len(addChan)
      /\ \A i \in 1..n : workers[i] \in Workers
      /\ \A w \in Workers : turns[w] \in Nat
  BY SeqFacts
<1>2. conn' = conn /\ addChan' = addChan
  BY DEF RunNext, connVars
<1>3. CASE ReadyPlaces = {}
  <2>1. DOMAIN workers' = {}
    BY <1>3 DEF RunNext, NextOfQueue
  <2>2. \A w \in Workers : conn[w] = "ready" =>
          \E i \in DOMAIN addChan : addChan[i] = w
    BY <1>3 DEF RotationInv, ReadyIsInside, ReadyPlaces
  <2> QED
    BY <1>2, <2>1, <2>2 DEF RotationInv, Once, NewIsOutside, ReadyIsInside, InTurn
<1>4. CASE ReadyPlaces # {}
  <2>1. PICK i \in ReadyPlaces : FirstReady(i) /\ HandOut(i)
    BY <1>4 DEF RunNext, NextOfQueue
  <2>2. i \in 1..n /\ \A j \in 1..n : conn[workers[j]] = "ready" => i <= j
    BY <1>1, <2>1 DEF FirstReady, ReadyPlaces
  <2>3. /\ DOMAIN workers' = 1..(n - i + 1)
        /\ \A k \in 1..(n - i) : workers'[k] = workers[i + k]
        /\ workers'[n - i + 1] = workers[i]
    <3>1. /\ workers' \in Seq(Workers) /\ Len(workers') = n - i + 1
          /\ \A k \in 1..(n - i) : workers'[k] = workers[i + k]
          /\ workers'[n - i + 1] = workers[i]
      BY <1>1, <2>1, <2>2, HandOutFacts
    <3>2. DOMAIN workers' = 1..Len(workers')
      BY <3>1, LenProperties
    <3> QED
      BY <3>1, <3>2
  <2>4. \A w \in Workers : turns'[w] = IF w = workers[i] THEN turns[w] + 1 ELSE turns[w]
    BY <2>1 DEF HandOut, TypeOK
  <2> HIDE DEF n
  <2>a. \A k \in 1..(n - i + 1) :
          \/ k # n - i + 1 /\ i + k \in 1..n /\ i + k # i /\ workers'[k] = workers[i + k]
          \/ k = n - i + 1 /\ workers'[k] = workers[i]
    BY <1>1, <2>2, <2>3
  <2>5. Once'
    <3>1. ASSUME NEW k \in 1..(n - i + 1), NEW l \in 1..(n - i + 1),
                 workers'[k] = workers'[l]
          PROVE  k = l
      <4>1. \/ k = n - i + 1 /\ l = n - i + 1
            \/ i + k = i + l
        BY <1>1, <2>2, <2>a, <3>1 DEF RotationInv, Once
      <4> QED
        BY <1>1, <2>2, <4>1
    <3>2. \A k \in 1..(n - i + 1), j \in DOMAIN addChan : workers'[k] # addChan[j]
      BY <1>1, <2>2, <2>a DEF RotationInv, Once
    <3> QED
      BY <1>2, <2>3, <3>1, <3>2 DEF RotationInv, Once
  <2>6. NewIsOutside'
    BY <1>1, <1>2, <2>2, <2>3, <2>a DEF RotationInv, NewIsOutside
  <2>7. ReadyIsInside'
    <3> SUFFICES ASSUME NEW w \in Workers, conn[w] = "ready",
                        ~ \E j \in DOMAIN addChan : addChan[j] = w
                 PROVE  \E k \in 1..(n - i + 1) : workers'[k] = w
      BY <1>2, <2>3 DEF ReadyIsInside
    <3>1. PICK j \in 1..n : workers[j] = w
      BY <1>1 DEF RotationInv, ReadyIsInside
    <3>2. i <= j
      BY <2>2, <3>1
    <3>3. CASE i = j
      <4>1. n - i + 1 \in 1..(n - i + 1)
        BY <1>1, <2>2
      <4> QED
        BY <2>3, <3>1, <3>3, <4>1
    <3>4. CASE i # j
      <4>1. /\ j - i \in 1..(n - i) /\ j - i \in 1..(n - i + 1)
            /\ i + (j - i) = j
        BY <1>1, <2>2, <3>2, <3>4
      <4>2. workers'[j - i] = w
        BY <2>3, <3>1, <4>1
      <4> QED
        BY <4>1, <4>2
    <3> QED
      BY <3>3, <3>4
  <2>8. InTurn'
    <3> SUFFICES ASSUME NEW k \in 1..(n - i + 1), NEW l \in 1..(n - i + 1), k < l
                 PROVE  /\ turns'[workers'[k]] <= turns'[workers'[l]]
                        /\ turns'[workers'[l]] <= turns'[workers'[k]] + 1
      BY <2>3 DEF InTurn
    <3>1. /\ k \in 1..(n - i) /\ i + k \in 1..n /\ i < i + k /\ i + k # i
          /\ workers'[k] = workers[i + k]
      BY <1>1, <2>2, <2>3
    <3>2. /\ workers[i + k] # workers[i]
          /\ workers[i + k] \in Workers /\ workers[i] \in Workers
      BY <1>1, <2>2, <3>1 DEF RotationInv, Once
    <3>3. /\ turns[workers[i]] <= turns[workers[i + k]]
          /\ turns[workers[i + k]] <= turns[workers[i]] + 1
      BY <1>1, <2>2, <3>1 DEF RotationInv, InTurn
    <3>4. CASE l = n - i + 1
      BY <1>1, <2>3, <2>4, <3>1, <3>2, <3>3, <3>4
    <3>5. CASE l # n - i + 1
      <4>1. /\ l \in 1..(n - i) /\ i + l \in 1..n /\ i + k < i + l
            /\ i + l # i
            /\ workers'[l] = workers[i + l]
        BY <1>1, <2>2, <2>3, <3>1, <3>5
      <4>2. workers[i + l] # workers[i] /\ workers[i + l] \in Workers
        BY <1>1, <2>2, <4>1 DEF RotationInv, Once
      <4>3. /\ turns[workers[i + k]] <= turns[workers[i + l]]
            /\ turns[workers[i + l]] <= turns[workers[i + k]] + 1
        BY <1>1, <3>1, <4>1 DEF RotationInv, InTurn
      <4> QED
        BY <2>4, <3>1, <3>2, <4>1, <4>2, <4>3
    <3> QED
      BY <3>4, <3>5
  <2> QED
    BY <2>5, <2>6, <2>7, <2>8 DEF RotationInv
<1> QED
  BY <1>3, <1>4

\* A connection that is made goes into addChan.
LEMMA RotationCreate ==
  ASSUME TypeOK, RotationInv, NEW w \in Workers, CreateNewClient(w)
  PROVE  RotationInv'
<1> DEFINE m == Len(addChan)
<1>1. /\ DOMAIN workers = 1..Len(workers)
      /\ m \in Nat /\ DOMAIN addChan = 1..m
      /\ \A i \in 1..Len(workers) : workers[i] \in Workers
      /\ \A i \in 1..m : addChan[i] \in Workers
  BY SeqFacts
<1>2. /\ DOMAIN addChan' = 1..(m + 1)
      /\ \A i \in 1..m : addChan'[i] = addChan[i]
      /\ addChan'[m + 1] = w
  BY AppendProperties, LenProperties DEF CreateNewClient, TypeOK
<1>3. /\ conn[w] = "new" /\ workers' = workers /\ turns' = turns
      /\ \A v \in Workers : conn'[v] = IF v = w THEN "ready" ELSE conn[v]
  BY DEF CreateNewClient, TypeOK
<1> HIDE DEF m
<1>4. Once'
  <2>1. /\ \A i \in DOMAIN workers : workers[i] # w
        /\ \A i \in DOMAIN addChan : addChan[i] # w
    BY <1>3 DEF RotationInv, NewIsOutside
  <2> QED
    BY <1>1, <1>2, <1>3, <2>1 DEF RotationInv, Once
<1>5. NewIsOutside'
  BY <1>1, <1>2, <1>3 DEF RotationInv, NewIsOutside
<1>6. ReadyIsInside'
  <2> SUFFICES ASSUME NEW v \in Workers, conn'[v] = "ready"
               PROVE  \/ \E i \in DOMAIN workers : workers[i] = v
                      \/ \E i \in 1..(m + 1) : addChan'[i] = v
    BY <1>2, <1>3 DEF ReadyIsInside
  <2>1. CASE v = w
    BY <1>1, <1>2, <2>1
  <2>2. CASE v # w
    BY <1>1, <1>2, <1>3, <2>2 DEF RotationInv, ReadyIsInside
  <2> QED
    BY <2>1, <2>2
<1>7. InTurn'
  BY <1>3 DEF RotationInv, InTurn
<1> QED
  BY <1>4, <1>5, <1>6, <1>7 DEF RotationInv

\* No other step changes the rotation, except for connections that are lost.
LEMMA RotationStep ==
  ASSUME TypeOK, RotationInv, [Next]_vars
  PROVE  RotationInv'
<1>1. CASE RunAdd
  BY <1>1, RotationAdd
<1>2. CASE RunNext
  BY <1>2, RotationNext
<1>3. ASSUME NEW w \in Workers, CreateNewClient(w)
      PROVE  RotationInv'
  BY <1>3, RotationCreate
<1>4. ASSUME NEW w \in Workers, LoseWorker(w)
      PROVE  RotationInv'
  <2>1. /\ workers' = workers /\ addChan' = addChan /\ turns' = turns
        /\ \A v \in Workers : conn'[v] = IF v = w THEN "lost" ELSE conn[v]
    BY <1>4 DEF LoseWorker, rotation, TypeOK
  <2>2. /\ \A i \in DOMAIN workers : workers[i] \in Workers
        /\ \A i \in DOMAIN addChan : addChan[i] \in Workers
    BY SeqFacts
  <2> QED
    BY <2>1, <2>2 DEF RotationInv, Once, NewIsOutside, ReadyIsInside, InTurn
<1>5. CASE UNCHANGED <<conn, addChan, workers, turns>>
  BY <1>5 DEF RotationInv, Once, NewIsOutside, ReadyIsInside, InTurn
<1>6. CASE RunOffer \/ TakePage \/ UNCHANGED vars
  BY <1>5, <1>6 DEF RunOffer, TakePage, vars, connVars, rotation
<1>7. ASSUME NEW c \in Calls,
             AskWorker(c) \/ TakeWorker(c) \/ AddPage(c) \/ Register(c)
               \/ Answer(c) \/ IgnoreType(c) \/ Deliver(c)
      PROVE  RotationInv'
  BY <1>5, <1>7 DEF AskWorker, TakeWorker, AddPage, Register, Answer, IgnoreType,
                    Deliver, connVars, rotation
<1> QED
  BY <1>1, <1>2, <1>3, <1>4, <1>6, <1>7 DEF Next, Run, RespHandler, Do

LEMMA RotationCorrect == Spec => []RotationInv
<1>1. Init => RotationInv
  BY DEF Init, RotationInv, Once, NewIsOutside, ReadyIsInside, InTurn
<1> QED
  BY <1>1, TypeCorrect, RotationStep, PTL DEF Spec

(***************************************************************************)
(* No connected worker is dropped from the rotation, and none is in it     *)
(* twice, for any number of workers.                                       *)
(***************************************************************************)
THEOREM NoneForgottenCorrect == Spec => []NoneForgotten
<1>1. TypeOK /\ RotationInv => NoneForgotten
  <2> SUFFICES ASSUME TypeOK, RotationInv PROVE NoneForgotten
    OBVIOUS
  <2> DEFINE n == Len(workers)
             m == Len(addChan)
             all == workers \o addChan
  <2>1. /\ n \in Nat /\ DOMAIN workers = 1..n /\ m \in Nat /\ DOMAIN addChan = 1..m
    BY SeqFacts
  <2>2. /\ DOMAIN all = 1..(n + m)
        /\ \A i \in 1..(n + m) : all[i] = IF i <= n THEN workers[i] ELSE addChan[i - n]
    BY ConcatProperties, LenProperties DEF TypeOK
  <2>3. Range(all) = Range(workers) \union Range(addChan)
    BY RangeConcatenation DEF TypeOK
  <2> HIDE DEF n, m, all
  <2>4. IsInjective(all)
    BY <2>1, <2>2 DEF IsInjective, RotationInv, Once
  <2>5. \A w \in Workers : conn[w] = "ready" => w \in Range(all)
    BY <2>3 DEF RotationInv, ReadyIsInside, Range
  <2> QED
    BY <2>4, <2>5 DEF NoneForgotten, all
<1> QED
  BY <1>1, TypeCorrect, RotationCorrect, PTL

(***************************************************************************)
(* The load is spread evenly over the rotation, for any number of workers, *)
(* whatever workers are lost and whoever asks.                             *)
(***************************************************************************)
THEOREM BalancedCorrect == Spec => []Balanced
<1>1. TypeOK /\ RotationInv => Balanced
  <2> SUFFICES ASSUME TypeOK, RotationInv,
                      NEW i \in DOMAIN workers, NEW j \in DOMAIN workers
               PROVE  turns[workers[i]] <= turns[workers[j]] + 1
    BY DEF Balanced, Range
  <2>1. /\ i \in Nat /\ j \in Nat
        /\ turns[workers[i]] \in Nat /\ turns[workers[j]] \in Nat
    BY SeqFacts
  <2> QED
    BY <2>1 DEF RotationInv, InTurn
<1> QED
  BY <1>1, TypeCorrect, RotationCorrect, PTL

-----------------------------------------------------------------------------
(* One worker for each call.                                               *)

Asking == {c \in Calls : call[c] = "next"}

\* Calls are finitely many, so those that ask can be counted.
LEMMA AskingCount ==
  /\ IsFiniteSet(Asking)
  /\ \A c : Cardinality(Asking \union {c}) =
              IF c \in Asking THEN Cardinality(Asking) ELSE Cardinality(Asking) + 1
  /\ \A c : Cardinality(Asking \ {c}) =
              IF c \in Asking THEN Cardinality(Asking) - 1 ELSE Cardinality(Asking)
<1>1. IsFiniteSet(Asking)
  BY ManagerAssumption, FS_Subset DEF Asking
<1> QED
  BY <1>1, FS_AddElement, FS_RemoveElement

LEMMA OneWorkerStep ==
  ASSUME TypeOK, OneWorkerEach, [Next]_vars
  PROVE  OneWorkerEach'
<1> DEFINE hand(o) == IF o = "none" THEN 0 ELSE 1
<1> USE ManagerAssumption
<1>1. /\ Cardinality(Asking) = nextReqs + Len(nextChan) + hand(offer)
      /\ nextReqs \in Nat /\ Len(nextChan) \in Nat
  BY LenProperties DEF OneWorkerEach, Asking, TypeOK
<1>2. SUFFICES Cardinality(Asking') = nextReqs' + Len(nextChan') + hand(offer')
  BY DEF OneWorkerEach, Asking
<1>3. CASE RunNext
  <2>1. offer = "none" /\ offer' # "none" /\ nextReqs' = nextReqs - 1
    <3>1. CASE ReadyPlaces = {}
      BY <1>3, <3>1 DEF RunNext, NextOfQueue
    <3>2. CASE ReadyPlaces # {}
      <4>1. PICK i \in ReadyPlaces : HandOut(i)
        BY <1>3, <3>2 DEF RunNext, NextOfQueue
      <4>2. workers[i] \in Workers /\ offer' = workers[i]
        BY <4>1, HandOutFacts DEF ReadyPlaces, HandOut
      <4> QED
        BY <1>3, <4>2 DEF RunNext
    <3> QED
      BY <3>1, <3>2
  <2>2. Asking' = Asking /\ nextChan' = nextChan
    BY <1>3 DEF RunNext, Asking, callVars
  <2> QED
    BY <1>1, <2>1, <2>2
<1>4. CASE RunOffer
  <2>1. offer # "none" /\ offer' = "none" /\ nextReqs' = nextReqs /\ Asking' = Asking
    BY <1>4 DEF RunOffer, Asking, callVars
  <2>2. offer \in Workers \union {NoWorker}
    BY <2>1 DEF TypeOK
  <2>3. Len(nextChan') = Len(nextChan) + 1
    BY <1>4, <2>2, AppendProperties DEF RunOffer, TypeOK
  <2> QED
    BY <1>1, <2>1, <2>3
<1>5. ASSUME NEW c \in Calls, AskWorker(c)
      PROVE  Cardinality(Asking') = nextReqs' + Len(nextChan') + hand(offer')
  <2>1. c \notin Asking /\ Asking' = Asking \union {c}
    BY <1>5 DEF AskWorker, Asking, TypeOK
  <2>2. nextReqs' = nextReqs + 1 /\ nextChan' = nextChan /\ offer' = offer
    BY <1>5 DEF AskWorker
  <2>3. Cardinality(Asking') = Cardinality(Asking) + 1
    BY <2>1, AskingCount
  <2> QED
    BY <1>1, <2>2, <2>3
<1>6. ASSUME NEW c \in Calls, TakeWorker(c)
      PROVE  Cardinality(Asking') = nextReqs' + Len(nextChan') + hand(offer')
  <2>1. c \in Asking /\ Asking' = Asking \ {c}
    BY <1>6 DEF TakeWorker, Asking, TypeOK
  <2>2. nextReqs' = nextReqs /\ offer' = offer
    BY <1>6 DEF TakeWorker
  <2>3. Len(nextChan') = Len(nextChan) - 1
    BY <1>6, HeadTailProperties DEF TakeWorker, TypeOK
  <2>4. Cardinality(Asking') = Cardinality(Asking) - 1
    BY <2>1, AskingCount
  <2> QED
    BY <1>1, <2>2, <2>3, <2>4
<1>7. CASE Asking' = Asking /\ UNCHANGED <<nextReqs, nextChan, offer>>
  BY <1>1, <1>7
<1>8. ASSUME NEW c \in Calls, AddPage(c) \/ Register(c) \/ Answer(c)
                               \/ IgnoreType(c) \/ Deliver(c)
      PROVE  Cardinality(Asking') = nextReqs' + Len(nextChan') + hand(offer')
  <2>1. Asking' = Asking
    BY <1>8 DEF AddPage, Register, Answer, IgnoreType, Deliver, Asking, TypeOK, callVars
  <2> QED
    BY <1>7, <1>8, <2>1 DEF AddPage, Register, Answer, IgnoreType, Deliver, rotation
<1>9. ASSUME NEW w \in Workers, CreateNewClient(w) \/ LoseWorker(w)
      PROVE  Cardinality(Asking') = nextReqs' + Len(nextChan') + hand(offer')
  BY <1>7, <1>9 DEF CreateNewClient, LoseWorker, Asking, callVars, rotation
<1>10. CASE RunAdd \/ TakePage \/ UNCHANGED vars
  BY <1>7, <1>10 DEF RunAdd, TakePage, Asking, callVars, rotation, vars
<1> QED
  BY <1>3, <1>4, <1>5, <1>6, <1>8, <1>9, <1>10 DEF Next, Run, RespHandler, Do

(***************************************************************************)
(* The workers on their way to calls, and the requests for one, are as     *)
(* many as the calls that wait for one, for any number of calls.           *)
(***************************************************************************)
THEOREM OneWorkerEachCorrect == Spec => []OneWorkerEach
<1>1. Init => OneWorkerEach
  <2> SUFFICES ASSUME Init PROVE OneWorkerEach
    OBVIOUS
  <2>1. {c \in Calls : call[c] = "next"} = {}
    BY DEF Init
  <2> QED
    BY <2>1, FS_EmptySet DEF Init, OneWorkerEach
<1> QED
  BY <1>1, TypeCorrect, OneWorkerStep, PTL DEF Spec
=============================================================================
