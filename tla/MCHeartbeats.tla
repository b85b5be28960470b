---------------------------- MODULE MCHeartbeats ----------------------------
(***************************************************************************)
(* Model values for checking the detector of hung workers.                 *)
(***************************************************************************)
EXTENDS Heartbeats

CONSTANTS t1, t2

TwoTasks == {t1, t2}

=============================================================================
