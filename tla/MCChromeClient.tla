--------------------------- MODULE MCChromeClient ---------------------------
(* ChromeClient for TLC: the job that makes the client, a request of it,   *)
(* and one of another job, with a script.                                  *)
EXTENDS ChromeClient

CONSTANTS job, nav, js
=============================================================================
