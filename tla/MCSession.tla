----------------------------- MODULE MCSession -----------------------------
(* Session for TLC: two goroutines of the program ask for pages, the first *)
(* of them for all but one.                                                *)
EXTENDS Session

CONSTANTS r1, r2, r3

MCCaller == [r \in Requests |-> IF r = r3 THEN 2 ELSE 1]
=============================================================================
