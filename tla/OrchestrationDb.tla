-------------------------- MODULE OrchestrationDb --------------------------
(***************************************************************************)
(* The tables of Orca's orchestration store and the methods that read and  *)
(* write them: tasks, dispatch_contexts and decision_gates of class        *)
(* OrchestrationDb, src/src/main/runtime/orchestration/db.ts.              *)
(*                                                                         *)
(* The tables are one record d; a method is an operator from tables to     *)
(* tables, so OrchestrationStore (any caller) and Coordinator (the real    *)
(* callers) are written with the same operators.                           *)
(***************************************************************************)
EXTENDS Integers, FiniteSets, FiniteSetsExt

CONSTANTS
    Task,          \* task ids; an id is generated once and never reused
    Handle,        \* terminal handles a task can be dispatched to
    MaxCtx,        \* bound: dispatch rows ever inserted
    MaxGate        \* bound: gate rows ever inserted

ASSUME BoundAssumption == MaxCtx \in Nat /\ MaxGate \in Nat
ASSUME RowAssumption == Task # {} /\ Handle # {}

(***************************************************************************)
(* Types.  A task id that names no row is "unused" before its INSERT and   *)
(* "deleted" after a reset.  Dispatch and gate rows are numbered in rowid  *)
(* order, so `the latest row' is the one with the greatest number.         *)
(***************************************************************************)
TaskStatus == {"pending", "ready", "dispatched", "completed", "failed", "blocked"}
DispatchStatus == {"pending", "dispatched", "completed", "failed", "circuit_broken"}
GateStatus == {"pending", "resolved", "timeout"}
NoRow == {"unused", "deleted"}
ActiveStatus == {"pending", "dispatched"}

Ctx == 1..MaxCtx
Gate == 1..MaxGate

Tables ==
    [tstat : [Task -> TaskStatus \cup NoRow],
     deps  : [Task -> SUBSET Task],
     cstat : [Ctx -> DispatchStatus \cup NoRow],
     ctask : [Ctx -> Task],
     cwho  : [Ctx -> Handle],
     cfail : [Ctx -> Nat],
     gstat : [Gate -> GateStatus \cup NoRow],
     gtask : [Gate -> Task]]

EmptyTables ==
    [tstat |-> [t \in Task |-> "unused"],
     deps  |-> [t \in Task |-> {}],
     cstat |-> [c \in Ctx |-> "unused"],
     ctask |-> [c \in Ctx |-> CHOOSE t \in Task : TRUE],
     cwho  |-> [c \in Ctx |-> CHOOSE h \in Handle : TRUE],
     cfail |-> [c \in Ctx |-> 0],
     gstat |-> [g \in Gate |-> "unused"],
     gtask |-> [g \in Gate |-> CHOOSE t \in Task : TRUE]]

(***************************************************************************)
(* Queries.                                                                *)
(***************************************************************************)
HasTask(d, t) == d.tstat[t] \in TaskStatus
HasCtx(d, c) == d.cstat[c] \in DispatchStatus
HasGate(d, g) == d.gstat[g] \in GateStatus

TasksIn(d, s) == {t \in Task : d.tstat[t] = s}
CtxOf(d, t) == {c \in Ctx : HasCtx(d, c) /\ d.ctask[c] = t}
ActiveCtx(d) == {c \in Ctx : d.cstat[c] \in ActiveStatus}
ActiveCtxOf(d, t) == ActiveCtx(d) \cap CtxOf(d, t)

\* getDispatchContext: the latest row of the task whatever its status.
IsLatestCtx(d, t, c) == c \in CtxOf(d, t) /\ \A k \in CtxOf(d, t) : k <= c

\* getActiveDispatchForTerminal, as the rows the query may return.
ActiveCtxAt(d, h) == {c \in ActiveCtx(d) : d.cwho[c] = h}

UnusedCtx(d) == {c \in Ctx : d.cstat[c] = "unused"}
UnusedGate(d) == {g \in Gate : d.gstat[g] = "unused"}

(***************************************************************************)
(* Tasks.                                                                  *)
(***************************************************************************)
SetTask(d, t, s) == IF HasTask(d, t) THEN [d EXCEPT !.tstat[t] = s] ELSE d

CreateTask(d, t, D) ==
    [d EXCEPT !.tstat[t] = IF D = {} THEN "ready" ELSE "pending", !.deps[t] = D]

\* The candidates of promoteReadyTasks once t is completed.
Promotable(d, t) ==
    {u \in TasksIn(d, "pending") :
        t \in d.deps[u] /\ \A v \in d.deps[u] : d.tstat[v] = "completed"}

Promote(d, P) ==
    [d EXCEPT !.tstat = [u \in Task |-> IF u \in P THEN "ready" ELSE d.tstat[u]]]

CompleteActiveDispatchForTask(d, t) ==
    IF ActiveCtxOf(d, t) = {}
    THEN d
    ELSE [d EXCEPT !.cstat[Max(ActiveCtxOf(d, t))] = "completed"]

\* Mutated: the candidates of the promotion are read before the status is written.
UpdateTaskStatusStale(d, t, s) ==
    LET written == SetTask(d, t, s)
    IN  IF s = "completed"
        THEN CompleteActiveDispatchForTask(Promote(written, Promotable(d, t)), t)
        ELSE written

UpdateTaskStatus(d, t, s) ==
    LET written == SetTask(d, t, s)
    IN  IF s = "completed"
        THEN CompleteActiveDispatchForTask(Promote(written, Promotable(written, t)), t)
        ELSE written

(***************************************************************************)
(* Dispatch contexts.  createDispatchContext throws unless CanDispatch.    *)
(***************************************************************************)
\* Mutated: the terminal is not looked up.
CanDispatchUnlocked(d, t, h) == d.tstat[t] = "ready"

CanDispatch(d, t, h) == d.tstat[t] = "ready" /\ ActiveCtxAt(d, h) = {}

\* Mutated: every dispatch starts counting anew.
PriorFailuresForgotten(d, t) == 0

PriorFailures(d, t) == Max({0} \cup {d.cfail[c] : c \in CtxOf(d, t)})

InsertCtx(d, t, h, c) ==
    [d EXCEPT !.cstat[c] = "dispatched", !.ctask[c] = t, !.cwho[c] = h,
              !.cfail[c] = PriorFailures(d, t)]

CreateDispatchContext(d, t, h, c) == SetTask(InsertCtx(d, t, h, c), t, "dispatched")

\* Mutated: the circuit breaks one failure late.
FailCtxLate(d, c) ==
    [d EXCEPT !.cstat[c] = IF d.cfail[c] + 1 > 3 THEN "circuit_broken" ELSE "failed",
              !.cfail[c] = d.cfail[c] + 1]

\* Mutated: the row is queued again for its terminal.
FailCtxRequeued(d, c) ==
    [d EXCEPT !.cstat[c] = IF d.cfail[c] + 1 >= 3 THEN "circuit_broken" ELSE "pending",
              !.cfail[c] = d.cfail[c] + 1]

FailCtx(d, c) ==
    [d EXCEPT !.cstat[c] = IF d.cfail[c] + 1 >= 3 THEN "circuit_broken" ELSE "failed",
              !.cfail[c] = d.cfail[c] + 1]

\* Mutated: the dispatch status is written to the tasks table.
FailDispatchWrongStatus(d, c) ==
    SetTask(FailCtx(d, c), d.ctask[c],
            IF d.cfail[c] + 1 >= 3 THEN "circuit_broken" ELSE "ready")

\* Mutated: the dispatch row is left active.
FailDispatchTaskOnly(d, c) ==
    SetTask(d, d.ctask[c], IF d.cfail[c] + 1 >= 3 THEN "failed" ELSE "ready")

FailDispatch(d, c) ==
    SetTask(FailCtx(d, c), d.ctask[c], IF d.cfail[c] + 1 >= 3 THEN "failed" ELSE "ready")

(***************************************************************************)
(* Decision gates.  createGate does not look the task up: there is no      *)
(* foreign key, and its UPDATE changes nothing when the task is gone.  (An *)
(* id nobody has generated yet, "unused", is no caller's argument.)        *)
(***************************************************************************)
InsertGate(d, t, g) == [d EXCEPT !.gstat[g] = "pending", !.gtask[g] = t]

CreateGate(d, t, g) ==
    SetTask(CompleteActiveDispatchForTask(InsertGate(d, t, g), t), t, "blocked")

CloseGate(d, g, s) == [d EXCEPT !.gstat[g] = s]

ResolveGate(d, g) == SetTask(CloseGate(d, g, "resolved"), d.gtask[g], "ready")

(***************************************************************************)
(* resetTasks and resetAll delete the tables in this order.                *)
(***************************************************************************)
DeleteRows(f) == [x \in DOMAIN f |-> IF f[x] = "unused" THEN "unused" ELSE "deleted"]

DeleteGates(d) == [d EXCEPT !.gstat = DeleteRows(d.gstat)]
DeleteCtxs(d) == [d EXCEPT !.cstat = DeleteRows(d.cstat)]
DeleteTasks(d) == [d EXCEPT !.tstat = DeleteRows(d.tstat)]

\* Mutated: the dispatch rows are forgotten.
ResetTasksKeepCtxs(d) == DeleteTasks(DeleteGates(d))

ResetTasks(d) == DeleteTasks(DeleteCtxs(DeleteGates(d)))

=============================================================================
