-------------------------- MODULE ChromeClientProofs --------------------------
(***************************************************************************)
(* Proofs about ChromeClient, for any number of requests and whatever the  *)
(* environment does: as long as no start of the browser overlaps with      *)
(* other work, there is one browser at most, tabs are used in the browser  *)
(* they belong to, and navigations close them.                             *)
(***************************************************************************)
EXTENDS ChromeClient, TLAPS

USE DEF browserVars, waitVars

-----------------------------------------------------------------------------
(* The invariants.                                                         *)

\* overlap is true to its name.
OverlapSeen == Overlapping(pc) => overlap

(***************************************************************************)
(* Without overlap, a start finds no goroutine of another one, a goroutine *)
(* waits for the Cmd of its own start, and up is set while it waits; and a *)
(* browser that runs has its goroutine.                                    *)
(***************************************************************************)
WaiterInv ==
  ~overlap =>
    /\ \A a \in Actors :
         /\ pc[a] \in {"idle", "start", "exec"} => a \notin started
         /\ pc[a] \in {"start", "exec"} => \A b \in Actors : waiter[b] = "off"
         /\ pc[a] = "exec" => chromeCmd = a
         /\ waiter[a] \in {"spawned", "up"} =>
              pc[a] = "attach" /\ chromeCmd = a /\ a \in started /\ waitsFor[a] = None
         /\ waiter[a] \in {"up", "wait"} => up
         /\ waiter[a] # "down"
         /\ waiter[a] = "wait" => waitsFor[a] = a
         /\ waitsFor[a] \in {None, a}
    /\ \A a, b \in Actors : waiter[a] # "off" /\ waiter[b] # "off" => a = b
    /\ \A p \in live : waiter[p] # "off"

(***************************************************************************)
(* Without overlap, a request works on a tab of the client that is there,  *)
(* whose manager is its own once Start has set it up; and a client is set  *)
(* up by the call that connected it, at the end of its Start.              *)
(***************************************************************************)
TabInv ==
  ~overlap =>
    /\ \A a \in Calls : pc[a] \in {"dial", "navigate", "close"} => tab[a] = c
    /\ (\A a \in Actors : pc[a] # "enable") /\ c \in live \intersect enabled => mgr = c
    /\ \A a \in Actors : pc[a] \in {"idle"} \union Starting => a \notin enabled
    /\ \A a \in Actors : pc[a] = "enable" => c = a

\* Clients and tabs belong to browsers that were started.
KnownInv ==
  /\ c \in started \union {None}
  /\ \A a \in Actors : tab[a] \in started \union {None}
  /\ \A a \in Actors : pc[a] = "exec" => chromeCmd # None
  /\ \A a \in Calls \ JsCalls :
       /\ pc[a] # "script"
       /\ result[a] \in {"page", "error"} => pc[a] \in {"close", "done", "unclosed"}

-----------------------------------------------------------------------------
(* The type invariant.                                                     *)

\* Every step of a request, of a goroutine and of a browser keeps the types.
LEMMA StepType ==
  ASSUME TypeOK, KnownInv, Next
  PROVE  TypeOK'
<1> USE ChromeAssumption DEF Actors, Pointer, Starting, Working
<1>o. overlap' = (overlap \/ Overlapping(pc')) => overlap' \in BOOLEAN
  BY DEF Overlapping, TypeOK
<1>1. ASSUME NEW a \in Actors, CheckChromeProcess(a) PROVE TypeOK'
  BY <1>1 DEF CheckChromeProcess, Goto, Checked, TypeOK
<1>2. ASSUME NEW a \in Actors, MakeCmd(a) PROVE TypeOK'
  BY <1>2 DEF MakeCmd, Goto, TypeOK
<1>3. ASSUME NEW a \in Actors, ExecCmd(a) PROVE TypeOK'
  BY <1>3, <1>o DEF ExecCmd, Goto, Checked, TypeOK, KnownInv
<1>4. ASSUME NEW a \in Actors, Attach(a) PROVE TypeOK'
  BY <1>4, <1>o DEF Attach, Goto, Checked, TypeOK
<1>5. ASSUME NEW a \in Actors, Enable(a) PROVE TypeOK'
  BY <1>5 DEF Enable, Goto, Checked, TypeOK
<1>6. ASSUME NEW a \in Actors, WaiterUp(a) PROVE TypeOK'
  BY <1>6 DEF WaiterUp, TypeOK
<1>7. ASSUME NEW a \in Actors, WaiterWait(a) PROVE TypeOK'
  BY <1>7 DEF WaiterWait, TypeOK
<1>8. ASSUME NEW a \in Actors, WaiterDown(a) PROVE TypeOK'
  BY <1>8 DEF WaiterDown, TypeOK
<1>9. ASSUME NEW a \in Actors, CreateTarget(a) PROVE TypeOK'
  BY <1>9, <1>o DEF CreateTarget, Goto, Return, Panic, TypeOK
<1>10. ASSUME NEW a \in Actors, DialTab(a) PROVE TypeOK'
  BY <1>10, <1>o DEF DialTab, Goto, Return, Panic, TypeOK
<1>11. ASSUME NEW a \in Actors, Navigate(a) PROVE TypeOK'
  BY <1>11, <1>o DEF Navigate, Goto, Leave, Panic, TypeOK
<1>12. ASSUME NEW a \in Actors, RunScript(a) PROVE TypeOK'
  BY <1>12, <1>o DEF RunScript, Goto, Return, Panic, TypeOK
<1>13. ASSUME NEW a \in Actors, ClosePage(a) PROVE TypeOK'
  BY <1>13, <1>o DEF ClosePage, Goto, TypeOK
<1>14. ASSUME NEW a \in Actors, Crash(a) PROVE TypeOK'
  BY <1>14 DEF Crash, TypeOK
<1> QED
  BY <1>1, <1>2, <1>3, <1>4, <1>5, <1>6, <1>7, <1>8, <1>9, <1>10, <1>11, <1>12,
     <1>13, <1>14
  DEF Next, Step, Start, Do, Waiter

\* Clients and tabs stay those of browsers that were started.
LEMMA StepKnown ==
  ASSUME TypeOK, KnownInv, Next
  PROVE  KnownInv'
<1> USE ChromeAssumption DEF Actors, Pointer, Starting, Working, TypeOK
<1>1. ASSUME NEW a \in Actors, CheckChromeProcess(a) PROVE KnownInv'
  BY <1>1 DEF CheckChromeProcess, Goto, Checked, MayBegin, KnownInv
<1>2. ASSUME NEW a \in Actors, MakeCmd(a) PROVE KnownInv'
  BY <1>2 DEF MakeCmd, Goto, KnownInv
<1>3. ASSUME NEW a \in Actors, ExecCmd(a) PROVE KnownInv'
  BY <1>3 DEF ExecCmd, Goto, Checked, KnownInv
<1>4. ASSUME NEW a \in Actors, Attach(a) PROVE KnownInv'
  BY <1>4 DEF Attach, Goto, Checked, KnownInv
<1>5. ASSUME NEW a \in Actors, Enable(a) PROVE KnownInv'
  BY <1>5 DEF Enable, Goto, Checked, KnownInv
<1>6. ASSUME NEW a \in Actors, WaiterUp(a) PROVE KnownInv'
  BY <1>6 DEF WaiterUp, KnownInv
<1>7. ASSUME NEW a \in Actors, WaiterWait(a) PROVE KnownInv'
  BY <1>7 DEF WaiterWait, KnownInv
<1>8. ASSUME NEW a \in Actors, WaiterDown(a) PROVE KnownInv'
  BY <1>8 DEF WaiterDown, KnownInv
<1>9. ASSUME NEW a \in Actors, CreateTarget(a) PROVE KnownInv'
  BY <1>9 DEF CreateTarget, Goto, Return, Panic, KnownInv
<1>10. ASSUME NEW a \in Actors, DialTab(a) PROVE KnownInv'
  BY <1>10 DEF DialTab, Goto, Return, Panic, KnownInv
<1>11. ASSUME NEW a \in Actors, Navigate(a) PROVE KnownInv'
  BY <1>11 DEF Navigate, Goto, Leave, Panic, KnownInv
<1>12. ASSUME NEW a \in Actors, RunScript(a) PROVE KnownInv'
  BY <1>12 DEF RunScript, Goto, Return, Panic, KnownInv
<1>13. ASSUME NEW a \in Actors, ClosePage(a) PROVE KnownInv'
  BY <1>13 DEF ClosePage, Goto, KnownInv
<1>14. ASSUME NEW a \in Actors, Crash(a) PROVE KnownInv'
  BY <1>14 DEF Crash, KnownInv
<1> QED
  BY <1>1, <1>2, <1>3, <1>4, <1>5, <1>6, <1>7, <1>8, <1>9, <1>10, <1>11, <1>12,
     <1>13, <1>14
  DEF Next, Step, Start, Do, Waiter

\* overlap is set when work begins to overlap with a start.
LEMMA StepOverlap ==
  ASSUME OverlapSeen, Next
  PROVE  OverlapSeen' /\ (overlap => overlap')
<1>1. \A a : \A place : Goto(a, place) => OverlapSeen' /\ (overlap => overlap')
  BY DEF Goto, OverlapSeen
<1>2. UNCHANGED <<pc, overlap>> => OverlapSeen' /\ (overlap => overlap')
  BY DEF OverlapSeen, Overlapping
<1>3. ASSUME NEW a \in Actors, Start(a) PROVE OverlapSeen' /\ (overlap => overlap')
  BY <1>1, <1>3 DEF Start, MakeCmd, ExecCmd, Attach, Enable
<1>4. ASSUME NEW a \in Actors, Do(a) PROVE OverlapSeen' /\ (overlap => overlap')
  BY <1>1, <1>2, <1>4 DEF Do, CreateTarget, DialTab, Navigate, RunScript, ClosePage, Return,
                   Leave, Panic
<1>5. ASSUME NEW a \in Actors, CheckChromeProcess(a) \/ Waiter(a) \/ Crash(a)
      PROVE  OverlapSeen' /\ (overlap => overlap')
  BY <1>1, <1>2, <1>5 DEF CheckChromeProcess, Waiter, WaiterUp, WaiterWait, WaiterDown,
                          Crash
<1> QED
  BY <1>3, <1>4, <1>5 DEF Next, Step

\* The goroutines of Start stay in order.
LEMMA StepWaiter ==
  ASSUME TypeOK, KnownInv, OverlapSeen, WaiterInv, Next
  PROVE  WaiterInv'
<1> USE ChromeAssumption DEF Actors, Pointer, Starting, Working, TypeOK
<1>o. OverlapSeen' /\ (overlap => overlap')
  BY StepOverlap
<1>p. /\ ~overlap => ~Overlapping(pc)
      /\ ~overlap' => ~Overlapping(pc')
  BY <1>o DEF OverlapSeen
<1> SUFFICES ASSUME ~overlap, ~overlap' PROVE WaiterInv'
  BY <1>o DEF WaiterInv
<1>1. ASSUME NEW a \in Actors, CheckChromeProcess(a) PROVE WaiterInv'
  <2>1. /\ pc[a] = "idle"
        /\ pc' = [pc EXCEPT ![a] = IF up THEN Checked(a) ELSE "start"]
        /\ UNCHANGED <<waiter, waitsFor, up, chromeCmd, started, live>>
    BY <1>1 DEF CheckChromeProcess, MayBegin, Goto
  <2>2. CASE up
    BY <2>1, <2>2 DEF Checked, WaiterInv
  <2>3. CASE ~up
    BY <2>1, <2>3, <1>p DEF WaiterInv, Overlapping
  <2> QED
    BY <2>2, <2>3
<1>2. ASSUME NEW a \in Actors, MakeCmd(a) PROVE WaiterInv'
  BY <1>2 DEF MakeCmd, Goto, WaiterInv, Overlapping
<1>3. ASSUME NEW a \in Actors, ExecCmd(a) PROVE WaiterInv'
  BY <1>3, <1>p DEF ExecCmd, Goto, WaiterInv, Overlapping
<1>4. ASSUME NEW a \in Actors, Attach(a) PROVE WaiterInv'
  BY <1>4 DEF Attach, Goto, Checked, WaiterInv
<1>5. ASSUME NEW a \in Actors, Enable(a) PROVE WaiterInv'
  BY <1>5 DEF Enable, Goto, Checked, WaiterInv
<1>6. ASSUME NEW a \in Actors, WaiterUp(a) PROVE WaiterInv'
  BY <1>6 DEF WaiterUp, WaiterInv
<1>7. ASSUME NEW a \in Actors, WaiterWait(a) PROVE WaiterInv'
  BY <1>7 DEF WaiterWait, WaiterInv
<1>8. ASSUME NEW a \in Actors, WaiterDown(a) PROVE WaiterInv'
  BY <1>8 DEF WaiterDown, WaiterInv
<1>9. ASSUME NEW a \in Actors, CreateTarget(a) PROVE WaiterInv'
  BY <1>9 DEF CreateTarget, Goto, Return, Panic, WaiterInv
<1>10. ASSUME NEW a \in Actors, DialTab(a) PROVE WaiterInv'
  BY <1>10 DEF DialTab, Goto, Return, Panic, WaiterInv
<1>11. ASSUME NEW a \in Actors, Navigate(a) PROVE WaiterInv'
  BY <1>11 DEF Navigate, Goto, Leave, Panic, WaiterInv
<1>12. ASSUME NEW a \in Actors, RunScript(a) PROVE WaiterInv'
  BY <1>12 DEF RunScript, Goto, Return, Panic, WaiterInv
<1>13. ASSUME NEW a \in Actors, ClosePage(a) PROVE WaiterInv'
  BY <1>13 DEF ClosePage, Goto, WaiterInv
<1>14. ASSUME NEW a \in Actors, Crash(a) PROVE WaiterInv'
  BY <1>14 DEF Crash, WaiterInv
<1> QED
  BY <1>1, <1>2, <1>3, <1>4, <1>5, <1>6, <1>7, <1>8, <1>9, <1>10, <1>11, <1>12,
     <1>13, <1>14
  DEF Next, Step, Start, Do, Waiter

\* So do the tabs and the manager.
LEMMA StepTab ==
  ASSUME TypeOK, KnownInv, OverlapSeen, TabInv, Next
  PROVE  TabInv'
<1> USE ChromeAssumption DEF Actors, Pointer, Starting, Working, TypeOK
<1>o. OverlapSeen' /\ (overlap => overlap')
  BY StepOverlap
<1>p. /\ ~overlap => ~Overlapping(pc)
      /\ ~overlap' => ~Overlapping(pc')
  BY <1>o DEF OverlapSeen
<1> SUFFICES ASSUME ~overlap, ~overlap' PROVE TabInv'
  BY <1>o DEF TabInv
<1>1. ASSUME NEW a \in Actors, CheckChromeProcess(a) PROVE TabInv'
  BY <1>1 DEF CheckChromeProcess, Goto, Checked, MayBegin, TabInv
<1>2. ASSUME NEW a \in Actors, MakeCmd(a) PROVE TabInv'
  BY <1>2 DEF MakeCmd, Goto, TabInv
<1>3. ASSUME NEW a \in Actors, ExecCmd(a) PROVE TabInv'
  BY <1>3 DEF ExecCmd, Goto, Checked, TabInv, KnownInv
<1>4. ASSUME NEW a \in Actors, Attach(a) PROVE TabInv'
  BY <1>4, <1>p DEF Attach, Goto, Checked, TabInv, Overlapping
<1>5. ASSUME NEW a \in Actors, Enable(a) PROVE TabInv'
  BY <1>5, <1>p DEF Enable, Goto, Checked, TabInv, Overlapping
<1>6. ASSUME NEW a \in Actors, WaiterUp(a) PROVE TabInv'
  BY <1>6 DEF WaiterUp, TabInv
<1>7. ASSUME NEW a \in Actors, WaiterWait(a) PROVE TabInv'
  BY <1>7 DEF WaiterWait, TabInv
<1>8. ASSUME NEW a \in Actors, WaiterDown(a) PROVE TabInv'
  BY <1>8 DEF WaiterDown, TabInv
<1>9. ASSUME NEW a \in Actors, CreateTarget(a) PROVE TabInv'
  BY <1>9 DEF CreateTarget, Goto, Return, Panic, TabInv
<1>10. ASSUME NEW a \in Actors, DialTab(a) PROVE TabInv'
  BY <1>10 DEF DialTab, Goto, Return, Panic, TabInv
<1>11. ASSUME NEW a \in Actors, Navigate(a) PROVE TabInv'
  BY <1>11 DEF Navigate, Goto, Leave, Panic, TabInv
<1>12. ASSUME NEW a \in Actors, RunScript(a) PROVE TabInv'
  BY <1>12 DEF RunScript, Goto, Return, Panic, TabInv
<1>13. ASSUME NEW a \in Actors, ClosePage(a) PROVE TabInv'
  BY <1>13 DEF ClosePage, Goto, TabInv
<1>14. ASSUME NEW a \in Actors, Crash(a) PROVE TabInv'
  BY <1>14 DEF Crash, TabInv
<1> QED
  BY <1>1, <1>2, <1>3, <1>4, <1>5, <1>6, <1>7, <1>8, <1>9, <1>10, <1>11, <1>12,
     <1>13, <1>14
  DEF Next, Step, Start, Do, Waiter

(***************************************************************************)
(* Everything the proofs rest on, and the last of the properties, which    *)
(* is not implied by the rest.                                             *)
(***************************************************************************)
Inv == TypeOK /\ KnownInv /\ OverlapSeen /\ WaiterInv /\ TabInv /\ TabsClosed


\* A navigation leaves its tab closed.
LEMMA StepClosed ==
  ASSUME TypeOK, KnownInv, OverlapSeen, TabInv, TabsClosed, Next
  PROVE  TabsClosed'
<1> USE ChromeAssumption DEF Actors, Pointer, Starting, Working, TypeOK
<1>o. OverlapSeen' /\ (overlap => overlap')
  BY StepOverlap
<1>p. /\ ~overlap => ~Overlapping(pc)
      /\ ~overlap' => ~Overlapping(pc')
  BY <1>o DEF OverlapSeen
<1> SUFFICES ASSUME ~overlap, ~overlap' PROVE TabsClosed'
  BY <1>o DEF TabsClosed
<1>1. ASSUME NEW a \in Actors, CheckChromeProcess(a) PROVE TabsClosed'
  BY <1>1 DEF CheckChromeProcess, Goto, Checked, TabsClosed
<1>2. ASSUME NEW a \in Actors, MakeCmd(a) PROVE TabsClosed'
  BY <1>2 DEF MakeCmd, Goto, TabsClosed
<1>3. ASSUME NEW a \in Actors, ExecCmd(a) PROVE TabsClosed'
  BY <1>3 DEF ExecCmd, Goto, TabsClosed, KnownInv
<1>4. ASSUME NEW a \in Actors, Attach(a) PROVE TabsClosed'
  BY <1>4 DEF Attach, Goto, Checked, TabsClosed
<1>5. ASSUME NEW a \in Actors, Enable(a) PROVE TabsClosed'
  BY <1>5 DEF Enable, Goto, Checked, TabsClosed
<1>6. ASSUME NEW a \in Actors, WaiterUp(a) PROVE TabsClosed'
  BY <1>6 DEF WaiterUp, TabsClosed
<1>7. ASSUME NEW a \in Actors, WaiterWait(a) PROVE TabsClosed'
  BY <1>7 DEF WaiterWait, TabsClosed
<1>8. ASSUME NEW a \in Actors, WaiterDown(a) PROVE TabsClosed'
  BY <1>8 DEF WaiterDown, TabsClosed
<1>9. ASSUME NEW a \in Actors, CreateTarget(a) PROVE TabsClosed'
  BY <1>9 DEF CreateTarget, Goto, Return, Panic, TabsClosed
<1>10. ASSUME NEW a \in Actors, DialTab(a) PROVE TabsClosed'
  BY <1>10 DEF DialTab, Goto, Return, Panic, TabsClosed
<1>11. ASSUME NEW a \in Actors, Navigate(a) PROVE TabsClosed'
  BY <1>11 DEF Navigate, Goto, Leave, Panic, TabsClosed
<1>12. ASSUME NEW a \in Actors, RunScript(a) PROVE TabsClosed'
  BY <1>12 DEF RunScript, Goto, Return, Panic, TabsClosed, KnownInv
<1>13. ASSUME NEW a \in Actors, ClosePage(a) PROVE TabsClosed'
  BY <1>13 DEF ClosePage, Goto, TabsClosed, TabInv
<1>14. ASSUME NEW a \in Actors, Crash(a) PROVE TabsClosed'
  BY <1>14 DEF Crash, TabsClosed
<1> QED
  BY <1>1, <1>2, <1>3, <1>4, <1>5, <1>6, <1>7, <1>8, <1>9, <1>10, <1>11, <1>12,
     <1>13, <1>14
  DEF Next, Step, Start, Do, Waiter

\* The invariant holds of every reachable state.
LEMMA InvCorrect == Spec => []Inv
<1>1. Init => Inv
  <2> SUFFICES ASSUME Init PROVE Inv
    OBVIOUS
  <2> USE ChromeAssumption DEF Actors, Pointer, Starting, Working, Init
  <2>1. TypeOK
    BY DEF TypeOK
  <2>2. KnownInv /\ OverlapSeen
    BY DEF KnownInv, OverlapSeen, Overlapping
  <2>3. WaiterInv /\ TabInv
    BY DEF WaiterInv, TabInv
  <2>4. TabsClosed
    BY DEF TabsClosed
  <2> QED
    BY <2>1, <2>2, <2>3, <2>4 DEF Inv
<1>2. Inv /\ [Next]_vars => Inv'
  <2>1. Inv /\ Next => Inv'
    BY StepType, StepKnown, StepOverlap, StepWaiter, StepTab, StepClosed DEF Inv
  <2>2. Inv /\ UNCHANGED vars => Inv'
    BY DEF Inv, TypeOK, KnownInv, OverlapSeen, Overlapping, WaiterInv, TabInv, TabsClosed,
           vars
  <2> QED
    BY <2>1, <2>2
<1> QED
  BY <1>1, <1>2, PTL DEF Spec

\* The variables of the client and of its requests keep their types: a goroutine
\* waits only for a Cmd that has been started.
THEOREM TypeCorrect == Spec => []TypeOK
BY InvCorrect, PTL DEF Inv

\* One browser at most, unless a start overlaps with work.
THEOREM OneBrowserCorrect == Spec => []OneBrowser
<1>1. Inv => OneBrowser
  BY DEF Inv, TypeOK, WaiterInv, OneBrowser
<1> QED
  BY <1>1, InvCorrect, PTL

\* A tab is attached to in its own browser, if Start has set up the client to the
\* end and no start overlaps with work.
THEOREM DialsItsBrowserCorrect == Spec => []DialsItsBrowser
<1>1. Inv => DialsItsBrowser
  <2> SUFFICES ASSUME Inv, ~overlap, NEW a \in Calls, pc[a] = "dial",
                      tab[a] \in live \intersect enabled
               PROVE  mgr = tab[a]
    BY DEF DialsItsBrowser
  <2>1. tab[a] = c
    BY DEF Inv, TabInv
  <2>2. \A b \in Actors : pc[b] # "enable"
    BY DEF Inv, OverlapSeen, Overlapping, Starting, Working, Actors
  <2> QED
    BY <2>1, <2>2 DEF Inv, TabInv
<1> QED
  BY <1>1, InvCorrect, PTL

\* Navigations close their tabs, unless a start overlaps with work.
THEOREM TabsClosedCorrect == Spec => []TabsClosed
BY InvCorrect, PTL DEF Inv
=============================================================================
