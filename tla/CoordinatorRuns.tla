-------------------------- MODULE CoordinatorRuns --------------------------
(***************************************************************************)
(* Starting and stopping coordinator loops: orchestration.run and          *)
(* orchestration.runStop (orchestration-gates.ts), which tie together the  *)
(* coordinator_runs rows, that survive the process, the module variable    *)
(* activeCoordinator and the loops, that do not, over resets and restarts. *)
(* What a loop does between its start and its end is the subject of the    *)
(* module Coordinator.                                                     *)
(***************************************************************************)
EXTENDS Integers

CONSTANT MaxRun    \* bound: coordinator_runs rows ever inserted

ASSUME RunsAssumption == MaxRun \in Nat

VARIABLES
    row,      \* coordinator_runs.status
    loop,     \* the loops in memory, by the run they were started for
    active,   \* activeCoordinator: the run of that coordinator, or 0
    stopped   \* the runs runStop has reported as stopped

runsVars == <<row, loop, active, stopped>>

Run == 1..MaxRun

RunsTypeOK ==
    /\ row \in [Run -> {"unused", "running", "completed", "failed", "deleted"}]
    /\ loop \in [Run -> {"off", "looping", "stopping"}]
    /\ active \in 0..MaxRun
    /\ stopped \in SUBSET Run

RunsInit ==
    /\ row = [r \in Run |-> "unused"]
    /\ loop = [r \in Run |-> "off"]
    /\ active = 0
    /\ stopped = {}

Running == {r \in Run : row[r] = "running"}
Looping == {r \in Run : loop[r] # "off"}
NextRun == {r \in Run : row[r] = "unused" /\ \A k \in 1..r - 1 : row[k] # "unused"}

\* The new run's loop fails at once when there are no tasks.
Starts ==
    /\ Running = {}
    /\ \E r \in NextRun :
          \/ /\ row' = [row EXCEPT ![r] = "running"]
             /\ loop' = [loop EXCEPT ![r] = "looping"]
             /\ active' = r
          \/ /\ row' = [row EXCEPT ![r] = "failed"]
             /\ active' = 0
             /\ UNCHANGED loop
    /\ UNCHANGED stopped

\* Mutated: the coordinator is forgotten, not stopped.
StopsForgetting ==
    /\ \E r \in Running : stopped' = stopped \cup {r}
    /\ active' = 0
    /\ UNCHANGED <<row, loop>>

Stops ==
    /\ \E r \in Running : stopped' = stopped \cup {r}
    /\ loop' = IF active = 0 THEN loop ELSE [loop EXCEPT ![active] = "stopping"]
    /\ active' = 0
    /\ UNCHANGED row

\* Mutated: whatever coordinator is active is forgotten.
EndsForgetting(r, status) ==
    /\ row' = [row EXCEPT ![r] = IF @ = "deleted" THEN @ ELSE status]
    /\ loop' = [loop EXCEPT ![r] = "off"]
    /\ active' = 0
    /\ UNCHANGED stopped

\* The loop of run r returns: updateCoordinatorRun, which finds no row after a reset,
\* then the finally clause of orchestration.run.
Ends(r, status) ==
    /\ row' = [row EXCEPT ![r] = IF @ = "deleted" THEN @ ELSE status]
    /\ loop' = [loop EXCEPT ![r] = "off"]
    /\ active' = IF active = r THEN 0 ELSE active
    /\ UNCHANGED stopped

\* The tasks are done, or a tick throws.
Converge(r) == loop[r] = "looping" /\ \E s \in {"completed", "failed"} : Ends(r, s)

NoticeStop(r) == loop[r] = "stopping" /\ Ends(r, "failed")

Resets ==
    /\ \E r \in Run : row[r] \notin {"unused", "deleted"}
    /\ row' = [r \in Run |-> IF row[r] = "unused" THEN "unused" ELSE "deleted"]
    /\ UNCHANGED <<loop, active, stopped>>

\* The rows are not corrected when the process starts again.
Restart ==
    /\ Looping # {}
    /\ loop' = [r \in Run |-> "off"]
    /\ active' = 0
    /\ UNCHANGED <<row, stopped>>

RunsNext == Starts \/ Stops \/ Resets \/ Restart \/ \E r \in Run : Converge(r) \/ NoticeStop(r)

RunsSpec == RunsInit /\ [][RunsNext]_runsVars

\* The loop's sleep ends and it looks at its stop flag.
RunsFairSpec == RunsSpec /\ \A r \in Run : WF_runsVars(NoticeStop(r))

-----------------------------------------------------------------------------
(***************************************************************************)
(* Properties.                                                             *)
(***************************************************************************)

\* The active-run check of orchestration.run: two running rows would be two loops that
\* dispatch the same tasks, and getActiveCoordinatorRun would see only one of them.  And
\* runStop can stop the loop of the one it reports: activeCoordinator refers to that
\* loop, also when a loop from before a reset is still about and ends later.
OneReachableRun ==
    /\ \A r, s \in Running : r = s
    /\ \A r \in Running : loop[r] = "looping" => active = r

\* A run reported as stopped loops no more, sooner or later.
StopTakesEffect == \A r \in Run : r \in stopped ~> loop[r] = "off"

=============================================================================
