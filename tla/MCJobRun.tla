------------------------------ MODULE MCJobRun ------------------------------
(***************************************************************************)
(* JobRun for TLC.  Hosts and CancelJob calls are interchangeable, so the  *)
(* runs that check no liveness property use the symmetry of both sets.     *)
(***************************************************************************)
EXTENDS JobRun, TLC

Symmetry == Permutations(Hosts) \union Permutations(Cancels)
=============================================================================
