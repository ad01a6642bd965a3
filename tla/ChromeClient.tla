---------------------------- MODULE ChromeClient ----------------------------
(***************************************************************************)
(* The Chrome client of a worker (chromeclient/chromeclient.go): one       *)
(* browser that all the jobs of the worker share, started when it is not   *)
(* up, and the requests that open, use and close tabs of it.               *)
(*                                                                         *)
(* Setup is the job that creates the client (setupChromeClient); a call is *)
(* one request of a ChromeDoer, of that job or of another one.  None of    *)
(* them takes a lock: pc[a] is the place of a in CheckChromeProcess, Start *)
(* and Do.  Each checks the browser once, so a browser process is named by *)
(* the call whose exec.Cmd it is, and so is a client connected to it.      *)
(* waiter[a] is the goroutine of Start that sets up, and waits.            *)
(*                                                                         *)
(* External: a browser lives until it crashes, a tab as long as its        *)
(* browser, and a command to a browser that is gone is an error.           *)
(***************************************************************************)
EXTENDS Integers

CONSTANTS
  Setup,       \* the job that creates the client
  Calls,       \* requests
  OtherCalls,  \* those of other jobs than Setup
  JsCalls,     \* those that run a script: doJS
  None,        \* no browser, and the nil of the pointers
  Events       \* what the environment may do in this instance

AllEvents ==
  { "crash",     \* a browser ends
    "noBinary",  \* the browser cannot be started
    "slow",      \* the browser does not answer after 3 seconds
    "enableFails",  \* ... or to the commands that set up the connection
    "tabFails",  \* a tab cannot be attached to
    "error",     \* a command to a tab fails, or times out
    "not200",    \* the page of a script has another status
    "closeFails",  \* a tab cannot be closed
    "endless" }  \* no response has the page's URL, or the page scrolls for ever

Actors == Calls \union {Setup}

ASSUME ChromeAssumption ==
  /\ Setup \notin Calls /\ None \notin Actors
  /\ OtherCalls \subseteq Calls /\ JsCalls \subseteq Calls
  /\ Events \subseteq AllEvents

VARIABLES
  pc, result, tab,
  waiter, waitsFor,   \* the goroutines of Start, and the Cmd they wait for
  up, chromeCmd, c, mgr,
  started,            \* Cmds whose Start has succeeded
  live,               \* browsers that run
  panic,
  enabled,            \* history: clients that Start has set up to the end
  overlap             \* ... and a start has overlapped with another's work

browserVars == <<chromeCmd, started, live>>
waitVars    == <<waiter, waitsFor, up>>
vars        == <<pc, result, tab, waitVars, browserVars, c, mgr, panic, enabled,
                 overlap>>

\* The steps of Start, and of a request.
Starting == {"start", "exec", "attach", "enable"}
Working  == {"create", "dial", "navigate", "script", "close"} \union Starting

Pointer == Actors \union {None}

TypeOK ==
  /\ pc \in [Actors -> {"idle", "endless", "done", "unclosed"} \union Working]
  /\ result \in [Actors -> {"none", "noTab", "error", "page"}]
  /\ tab \in [Actors -> Pointer]
  /\ waiter \in [Actors -> {"off", "spawned", "up", "wait", "down"}]
  /\ waitsFor \in [Actors -> started \union {None}]
  /\ up \in BOOLEAN
  /\ chromeCmd \in Pointer /\ c \in Pointer /\ mgr \in Pointer
  /\ live \subseteq started /\ started \subseteq Actors
  /\ panic \in {"none", "nilClient", "nilManager", "nilHistory", "nilResponse"}
  /\ enabled \subseteq started /\ overlap \in BOOLEAN

\* NewChromeClient.
Init ==
  /\ pc = [a \in Actors |-> "idle"]
  /\ result = [a \in Actors |-> "none"] /\ tab = [a \in Actors |-> None]
  /\ waiter = [a \in Actors |-> "off"] /\ waitsFor = [a \in Actors |-> None]
  /\ up = FALSE /\ chromeCmd = None /\ c = None /\ mgr = None
  /\ started = {} /\ live = {} /\ panic = "none"
  /\ enabled = {} /\ overlap = FALSE

-----------------------------------------------------------------------------
(* Moving on.  overlap remembers that somebody was starting the browser    *)
(* while somebody else was at work.                                        *)

Overlapping(places) ==
  \E a, b \in Actors :
    /\ a # b
    /\ places[a] \in Starting /\ places[b] \in Working

Goto(a, place) ==
  /\ pc' = [pc EXCEPT ![a] = place]
  /\ overlap' = (overlap \/ Overlapping(pc'))

\* Where CheckChromeProcess returns to: its error is not looked at.
Checked(a) == IF a = Setup THEN "done" ELSE "create"

Return(a, res) ==
  /\ Goto(a, "done")
  /\ result' = [result EXCEPT ![a] = res]

\* doNavigate ends; a navigation closes its tab on the way out.
Leave(a, res) ==
  /\ Goto(a, IF a \in JsCalls THEN "done" ELSE "close")
  /\ result' = [result EXCEPT ![a] = res]

Panic(what) ==
  /\ panic' = what
  /\ UNCHANGED <<pc, result, tab, overlap>>

-----------------------------------------------------------------------------
(* setupChromeClient, CheckChromeProcess and Start.                        *)

\* The first job makes the client; other jobs use it as soon as it is there, and
\* its own requests come after setupChromeClient.
MayBegin(a) ==
  /\ pc[a] = "idle"
  /\ a \in OtherCalls => pc[Setup] # "idle"
  /\ a \in Calls \ OtherCalls => pc[Setup] = "done"

\* A slip: the browser is started whether it is up or not.
CheckChromeProcessAnyway(a) ==
  /\ MayBegin(a)
  /\ Goto(a, "start")
  /\ UNCHANGED <<result, tab, waitVars, browserVars, c, mgr, panic, enabled>>

CheckChromeProcess(a) ==
  /\ MayBegin(a)
  /\ Goto(a, IF up THEN Checked(a) ELSE "start")
  /\ UNCHANGED <<result, tab, waitVars, browserVars, c, mgr, panic, enabled>>

MakeCmd(a) ==
  /\ pc[a] = "start"
  /\ chromeCmd' = a
  /\ Goto(a, "exec")
  /\ UNCHANGED <<result, tab, waitVars, started, live, c, mgr, panic, enabled>>

\* chromeCmd.Start, on the Cmd that the client has by now.
ExecCmd(a) ==
  /\ pc[a] = "exec"
  /\ \/ /\ chromeCmd \notin started
        /\ started' = started \union {chromeCmd}
        /\ live' = live \union {chromeCmd}
        /\ waiter' = [waiter EXCEPT ![a] = "spawned"]
        /\ Goto(a, "attach")
     \/ /\ chromeCmd \in started \/ "noBinary" \in Events
        /\ Goto(a, Checked(a))
        /\ UNCHANGED <<started, live, waiter>>
  /\ UNCHANGED <<result, tab, waitsFor, up, chromeCmd, c, mgr, panic, enabled>>

\* The goroutine of Start: up is set, ...
WaiterUp(a) ==
  /\ waiter[a] = "spawned"
  /\ up' = TRUE
  /\ waiter' = [waiter EXCEPT ![a] = "up"]
  /\ UNCHANGED <<pc, result, tab, waitsFor, browserVars, c, mgr, panic, enabled,
                 overlap>>

\* A slip: the Cmd is waited for, whatever its state.
WaiterWaitAny(a) ==
  /\ waiter[a] = "up"
  /\ waiter' = [waiter EXCEPT ![a] = "wait"]
  /\ waitsFor' = [waitsFor EXCEPT ![a] = chromeCmd]
  /\ UNCHANGED <<pc, result, tab, up, browserVars, c, mgr, panic, enabled,
                 overlap>>

\* ... the Cmd that the client has by now is waited for, which fails when it has
\* not been started or is waited for already, ...
WaiterWait(a) ==
  /\ waiter[a] = "up"
  /\ IF chromeCmd \in started /\ \A b \in Actors : waitsFor[b] # chromeCmd
       THEN /\ waiter' = [waiter EXCEPT ![a] = "wait"]
            /\ waitsFor' = [waitsFor EXCEPT ![a] = chromeCmd]
       ELSE /\ waiter' = [waiter EXCEPT ![a] = "down"]
            /\ UNCHANGED waitsFor
  /\ UNCHANGED <<pc, result, tab, up, browserVars, c, mgr, panic, enabled,
                 overlap>>

\* A slip: up is left as it is.
WaiterDownSilent(a) ==
  /\ waiter[a] = "down" \/ (waiter[a] = "wait" /\ waitsFor[a] \notin live)
  /\ waiter' = [waiter EXCEPT ![a] = "off"]
  /\ UNCHANGED <<pc, result, tab, waitsFor, up, browserVars, c, mgr, panic, enabled,
                 overlap>>

\* ... and when it has ended, up is reset.
WaiterDown(a) ==
  /\ waiter[a] = "down" \/ (waiter[a] = "wait" /\ waitsFor[a] \notin live)
  /\ up' = FALSE
  /\ waiter' = [waiter EXCEPT ![a] = "off"]
  /\ UNCHANGED <<pc, result, tab, waitsFor, browserVars, c, mgr, panic, enabled,
                 overlap>>

\* A slip: Start tries until the browser answers.
AttachInTheEnd(a) ==
  /\ pc[a] = "attach"
  /\ waiter[a] \notin {"spawned", "up"}
  /\ a \in live
  /\ c' = a
  /\ Goto(a, "enable")
  /\ UNCHANGED <<result, tab, waitVars, browserVars, mgr, panic, enabled>>

\* After 3 seconds, in which the goroutine has run, the browser on the port of
\* this call is connected to.
Attach(a) ==
  /\ pc[a] = "attach"
  /\ waiter[a] \notin {"spawned", "up"}
  /\ \/ /\ a \in live
        /\ c' = a
        /\ Goto(a, "enable")
     \/ /\ a \notin live \/ "slow" \in Events
        /\ Goto(a, Checked(a))
        /\ UNCHANGED c
  /\ UNCHANGED <<result, tab, waitVars, browserVars, mgr, panic, enabled>>

\* A slip: the manager that is there is kept.
EnableOnce(a) ==
  /\ pc[a] = "enable"
  /\ mgr' = (IF mgr = None THEN c ELSE mgr)
  /\ enabled' = enabled \union ({c} \intersect live)
  /\ Goto(a, Checked(a))
  /\ UNCHANGED <<result, tab, waitVars, browserVars, c, panic>>

\* The events are enabled and a manager made for the client that is there by
\* now.  If enabling fails, the manager stays, and if making one does, it is nil:
\* up is set all the same, so nobody tries again.
Enable(a) ==
  /\ pc[a] = "enable"
  /\ \/ /\ c \in live
        /\ mgr' = c /\ enabled' = enabled \union {c}
     \/ /\ c \notin live \/ "enableFails" \in Events
        /\ mgr' \in {mgr, None} /\ UNCHANGED enabled
  /\ Goto(a, Checked(a))
  /\ UNCHANGED <<result, tab, waitVars, browserVars, c, panic>>

Start(a) == MakeCmd(a) \/ ExecCmd(a) \/ Attach(a) \/ Enable(a)

Waiter(a) == WaiterUp(a) \/ WaiterWait(a) \/ WaiterDown(a)

-----------------------------------------------------------------------------
(* newPage, doNavigate, doJS and closePage.                                *)

CreateTarget(a) ==
  /\ pc[a] = "create"
  /\ \/ c = None /\ Panic("nilClient")
     \/ /\ c \in live
        /\ tab' = [tab EXCEPT ![a] = c]
        /\ Goto(a, "dial")
        /\ UNCHANGED <<result, panic>>
     \/ /\ c # None /\ c \notin live
        /\ Return(a, "noTab")
        /\ UNCHANGED <<tab, panic>>
  /\ UNCHANGED <<waitVars, browserVars, c, mgr, enabled>>

\* The tab is attached to through the manager; if that fails, it stays open.
DialTab(a) ==
  /\ pc[a] = "dial"
  /\ \/ mgr = None /\ Panic("nilManager")
     \/ /\ mgr \in live /\ mgr = tab[a]
        /\ Goto(a, "navigate")
        /\ UNCHANGED <<result, tab, panic>>
     \/ /\ mgr # None
        /\ mgr \notin live \/ mgr # tab[a] \/ "tabFails" \in Events
        /\ Return(a, "noTab")
        /\ UNCHANGED <<tab, panic>>
  /\ UNCHANGED <<waitVars, browserVars, c, mgr, enabled>>

\* A command to the tab may fail.
Fails(a) == tab[a] \notin live \/ "error" \in Events

\* navigate loads the page, the response with its URL is waited for, and the page
\* is read; doJS goes on if its status is 200, and otherwise has no response and
\* no error to return.
Navigate(a) ==
  /\ pc[a] = "navigate"
  /\ \/ /\ tab[a] \in live /\ a \notin JsCalls
        /\ Leave(a, "page")
        /\ UNCHANGED <<tab, panic>>
     \/ /\ tab[a] \in live /\ a \in JsCalls
        /\ Goto(a, "script")
        /\ UNCHANGED <<result, tab, panic>>
     \/ /\ a \in JsCalls /\ "not200" \in Events
        /\ Panic("nilResponse")
     \/ /\ "endless" \in Events
        /\ Goto(a, "endless")
        /\ UNCHANGED <<result, tab, panic>>
     \/ Fails(a) /\ Leave(a, "error") /\ UNCHANGED <<tab, panic>>
  /\ UNCHANGED <<waitVars, browserVars, c, mgr, enabled>>

\* doJS runs its script, which may scroll the page for as long as it grows, and
\* reads the page; the error of its last command is not looked at.
RunScript(a) ==
  /\ pc[a] = "script"
  /\ \/ /\ tab[a] \in live
        /\ Return(a, "page")
        /\ UNCHANGED <<tab, panic>>
     \/ /\ "endless" \in Events
        /\ Goto(a, "endless")
        /\ UNCHANGED <<result, tab, panic>>
     \/ Fails(a) /\ Return(a, "error") /\ UNCHANGED <<tab, panic>>
     \/ Fails(a) /\ Panic("nilHistory")
  /\ UNCHANGED <<waitVars, browserVars, c, mgr, enabled>>

\* A slip: a tab is closed when its page was read only.
ClosePageOnSuccess(a) ==
  /\ pc[a] = "close"
  /\ tab' = [tab EXCEPT ![a] = IF c = @ /\ result[a] = "page" THEN None ELSE @]
  /\ Goto(a, "done")
  /\ UNCHANGED <<result, waitVars, browserVars, c, mgr, panic, enabled>>

\* The tab is closed in the browser that the client is connected to by now; that
\* this fails is not looked at.
ClosePage(a) ==
  /\ pc[a] = "close"
  /\ \/ /\ tab' = [tab EXCEPT ![a] = IF c = @ THEN None ELSE @]
        /\ Goto(a, "done")
     \/ /\ "closeFails" \in Events
        /\ Goto(a, "unclosed")
        /\ UNCHANGED tab
  /\ UNCHANGED <<result, waitVars, browserVars, c, mgr, panic, enabled>>

Do(a) ==
  CreateTarget(a) \/ DialTab(a) \/ Navigate(a) \/ RunScript(a) \/ ClosePage(a)

\* External: a browser ends, with its tabs.
Crash(p) ==
  /\ "crash" \in Events
  /\ p \in live
  /\ live' = live \ {p}
  /\ UNCHANGED <<pc, result, tab, waitVars, chromeCmd, started, c, mgr, panic, enabled,
                 overlap>>

-----------------------------------------------------------------------------
Step(a) == Start(a) \/ Do(a)

\* A panic ends the worker.
Next ==
  /\ panic = "none"
  /\ \E a \in Actors : CheckChromeProcess(a) \/ Step(a) \/ Waiter(a) \/ Crash(a)

Spec == Init /\ [][Next]_vars

(***************************************************************************)
(* A request goes on when it can, and so do the goroutines of Start.       *)
(* Requests need not be made, and browsers need not crash.                 *)
(***************************************************************************)
FairSpec ==
  /\ Spec
  /\ \A a \in Actors : WF_vars(panic = "none" /\ Step(a))
  /\ \A a \in Actors : WF_vars(panic = "none" /\ Waiter(a))

-----------------------------------------------------------------------------
(* Properties.                                                             *)

(***************************************************************************)
(* As long as nobody starts the browser while somebody else is at work, at *)
(* most one runs, however often it crashes.  (Two starts that overlap each *)
(* start one, and the Cmd of the first is lost.)                           *)
(***************************************************************************)
OneBrowser == ~overlap => \A p, q \in live : p = q

(***************************************************************************)
(* As long as starts do not overlap with work, a restart that has come to  *)
(* its end leaves nothing stale: a tab is attached to in the browser it    *)
(* was created in, and the manager is there, unless that browser has       *)
(* crashed.  (After a Start that failed half-way the manager is that of    *)
(* another browser, or nil.)                                               *)
(***************************************************************************)
DialsItsBrowser ==
  ~overlap => \A a \in Calls :
    pc[a] = "dial" /\ tab[a] \in live \intersect enabled => mgr = tab[a]

(***************************************************************************)
(* A navigation that got its tab leaves none behind, whether it succeeds   *)
(* or fails, unless closing it fails or the client has moved on to another *)
(* browser.  (A script leaves its tab open: doJS never closes it.)         *)
(***************************************************************************)
TabsClosed ==
  \A a \in Calls \ JsCalls :
    pc[a] = "done" /\ result[a] \in {"page", "error"} =>
      tab[a] \notin live \/ overlap

(***************************************************************************)
(* A crash is noticed: when no browser runs, up becomes false or one is    *)
(* started, however the starts and their goroutines raced before.          *)
(***************************************************************************)
CrashIsNoticed == up /\ live = {} ~> ~up \/ live # {} \/ panic # "none"

(***************************************************************************)
(* Every request ends, with a page or with an error, unless its page never *)
(* answers or the worker panics: again and again none is at work.          *)
(***************************************************************************)
CallsEnd == []<>(panic # "none" \/ \A a \in Actors : pc[a] \notin Working)
=============================================================================
