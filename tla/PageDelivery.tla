---------------------------- MODULE PageDelivery ----------------------------
(***************************************************************************)
(* What a CrawlJob of the Go client promises of the pages that its job     *)
(* ships: the program that reads PageChan gets them in the order in which  *)
(* they were shipped, none twice and none left out, as long as the         *)
(* connection is up.  When it breaks, the pages that have not reached the  *)
(* client are lost, and no others.                                         *)
(***************************************************************************)
EXTENDS Integers, Sequences

CONSTANT Pages

VARIABLES
  shipped,  \* pages shipped and not lost, the ones that were read included
  got,      \* pages that the program has read
  up        \* the connection has not broken

vars == <<shipped, got, up>>

Init == shipped = <<>> /\ got = <<>> /\ up = TRUE

Ship(p) ==
  /\ up
  /\ shipped' = Append(shipped, p)
  /\ UNCHANGED <<got, up>>

Get ==
  /\ Len(got) < Len(shipped)
  /\ got' = Append(got, shipped[Len(got) + 1])
  /\ UNCHANGED <<shipped, up>>

Lose ==
  /\ up
  /\ up' = FALSE
  /\ \E n \in Len(got)..Len(shipped) : shipped' = SubSeq(shipped, 1, n)
  /\ UNCHANGED got

Next == Get \/ Lose \/ \E p \in Pages : Ship(p)

Spec == Init /\ [][Next]_vars

FairSpec == Spec /\ WF_vars(Get)
=============================================================================
