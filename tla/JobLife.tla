------------------------------ MODULE JobLife ------------------------------
(***************************************************************************)
(* What a job promises about the channel sendChan that it ships its pages  *)
(* on, to the AddDomainAndListen call that streams them to the client.     *)
(* A page is let in only until the job is done, and then is shipped, even  *)
(* if the job is cancelled under it, unless the client is lost; the        *)
(* channel is closed once, when no page is on its way into it; and the     *)
(* stream ends when the channel is closed and read to its end.             *)
(***************************************************************************)
EXTENDS Integers

CONSTANT Shippers  \* those that ship pages, one at a time each

VARIABLES
  shipping,    \* those whose page was let in and is not in the channel yet
  buffered,    \* number of pages in the channel
  sendClosed,  \* the channel is closed
  doneClosed,  \* the job is done
  listener     \* "range" while the stream runs, then "ended" or "lost"

vars == <<shipping, buffered, sendClosed, doneClosed, listener>>

Init ==
  /\ shipping = {} /\ buffered = 0
  /\ sendClosed = FALSE /\ doneClosed = FALSE
  /\ listener = "range"

LetIn(s) ==
  /\ s \notin shipping
  /\ ~doneClosed /\ ~sendClosed
  /\ shipping' = shipping \union {s}
  /\ UNCHANGED <<buffered, sendClosed, doneClosed, listener>>

Ship(s) ==
  /\ s \in shipping
  /\ ~sendClosed
  /\ shipping' = shipping \ {s}
  /\ buffered' = buffered + 1
  /\ UNCHANGED <<sendClosed, doneClosed, listener>>

GiveUp(s) ==
  /\ s \in shipping
  /\ listener = "lost"
  /\ shipping' = shipping \ {s}
  /\ UNCHANGED <<buffered, sendClosed, doneClosed, listener>>

Stream ==
  /\ listener = "range"
  /\ buffered > 0
  /\ buffered' = buffered - 1
  /\ UNCHANGED <<shipping, sendClosed, doneClosed, listener>>

Lose ==
  /\ listener = "range"
  /\ listener' = "lost"
  /\ buffered' \in {buffered, buffered - 1}
  /\ UNCHANGED <<shipping, sendClosed, doneClosed>>

EndStream ==
  /\ listener = "range"
  /\ sendClosed /\ buffered = 0
  /\ listener' = "ended"
  /\ UNCHANGED <<shipping, buffered, sendClosed, doneClosed>>

CloseSend ==
  /\ ~sendClosed
  /\ shipping = {}
  /\ sendClosed' = TRUE
  /\ UNCHANGED <<shipping, buffered, doneClosed, listener>>

CloseDone ==
  /\ ~doneClosed
  /\ doneClosed' = TRUE
  /\ UNCHANGED <<shipping, buffered, sendClosed, listener>>

Next ==
  \/ \E s \in Shippers : LetIn(s) \/ Ship(s) \/ GiveUp(s)
  \/ Stream \/ Lose \/ EndStream \/ CloseSend \/ CloseDone

Spec == Init /\ [][Next]_vars
=============================================================================
