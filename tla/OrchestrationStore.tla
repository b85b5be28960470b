------------------------- MODULE OrchestrationStore -------------------------
(***************************************************************************)
(* Orca's orchestration store under arbitrary callers: every method of     *)
(* class OrchestrationDb that writes tasks, dispatch_contexts or           *)
(* decision_gates, in any order and with any argument the RPC layer lets   *)
(* through; ManualStatus and LateDeps narrow the callers for the           *)
(* properties that need it.                                                *)
(*                                                                         *)
(* No method opens a transaction: each SQL statement commits by itself.    *)
(* A method that runs several statements can therefore be cut short by a   *)
(* process crash; TornWrite has one disjunct per such prefix.              *)
(***************************************************************************)
EXTENDS OrchestrationDb

CONSTANTS
    FailFrom,      \* bound: the failure_counts a row may fail from; Nat is no bound
    ManualStatus,  \* the statuses callers write with updateTaskStatus
    LateDeps,      \* createTask may name a dep that is already completed
    TornWrites     \* the process may die between two statements of a method

ASSUME CallerAssumption ==
    FailFrom \subseteq Nat /\ LateDeps \in BOOLEAN /\ TornWrites \in BOOLEAN

VARIABLE db

(***************************************************************************)
(* The store under arbitrary callers.                                      *)
(***************************************************************************)
Init == db = EmptyTables

\* createTask does not look its deps up either: a dep may be a deleted task.
DoCreateTask ==
    \E t \in TasksIn(db, "unused") :
        \E D \in SUBSET (Task \ TasksIn(db, "unused")) :
            /\ ~LateDeps => D \cap TasksIn(db, "completed") = {}
            /\ db' = CreateTask(db, t, D)

DoUpdateTaskStatus ==
    \E t \in Task, s \in ManualStatus \cap TaskStatus : db' = UpdateTaskStatus(db, t, s)

\* The row inserted is the next in rowid order.
DoCreateDispatchContext ==
    \E t \in Task, h \in Handle, c \in UnusedCtx(db) :
        /\ \A k \in UnusedCtx(db) : c <= k
        /\ CanDispatch(db, t, h)
        /\ db' = CreateDispatchContext(db, t, h, c)

DoFailDispatch ==
    \E c \in Ctx :
        /\ HasCtx(db, c)
        /\ db.cfail[c] \in FailFrom
        /\ db' = FailDispatch(db, c)

DoCreateGate ==
    \E t \in Task \ TasksIn(db, "unused"), g \in UnusedGate(db) :
        /\ \A k \in UnusedGate(db) : g <= k
        /\ db' = CreateGate(db, t, g)

DoResolveGate == \E g \in Gate : HasGate(db, g) /\ db' = ResolveGate(db, g)

\* timeoutGate leaves the task as it is.
DoTimeoutGate == \E g \in Gate : HasGate(db, g) /\ db' = CloseGate(db, g, "timeout")

DoResetTasks == db' = ResetTasks(db)

(***************************************************************************)
(* The prefixes a crash can leave behind, method by method.                *)
(***************************************************************************)
TornUpdateTaskStatus ==
    \E t \in Task :
        LET written == SetTask(db, t, "completed")
        IN  \E P \in SUBSET Promotable(written, t) : db' = Promote(written, P)

TornCreateDispatchContext ==
    \E t \in Task, h \in Handle, c \in UnusedCtx(db) :
        /\ \A k \in UnusedCtx(db) : c <= k
        /\ CanDispatch(db, t, h)
        /\ db' = InsertCtx(db, t, h, c)

TornFailDispatch ==
    \E c \in Ctx :
        /\ HasCtx(db, c)
        /\ db.cfail[c] \in FailFrom
        /\ db' = FailCtx(db, c)

TornCreateGate ==
    \E t \in Task \ TasksIn(db, "unused"), g \in UnusedGate(db) :
        /\ \A k \in UnusedGate(db) : g <= k
        /\ \/ db' = InsertGate(db, t, g)
           \/ db' = CompleteActiveDispatchForTask(InsertGate(db, t, g), t)

TornResolveGate == \E g \in Gate : HasGate(db, g) /\ db' = CloseGate(db, g, "resolved")

TornResetTasks == db' = DeleteGates(db) \/ db' = DeleteCtxs(DeleteGates(db))

TornWrite ==
    /\ TornWrites
    /\ \/ TornUpdateTaskStatus
       \/ TornCreateDispatchContext
       \/ TornFailDispatch
       \/ TornCreateGate
       \/ TornResolveGate
       \/ TornResetTasks

Next ==
    \/ DoCreateTask
    \/ DoUpdateTaskStatus
    \/ DoCreateDispatchContext
    \/ DoFailDispatch
    \/ DoCreateGate
    \/ DoResolveGate
    \/ DoTimeoutGate
    \/ DoResetTasks
    \/ TornWrite

Spec == Init /\ [][Next]_db

-----------------------------------------------------------------------------
(***************************************************************************)
(* Properties.                                                             *)
(***************************************************************************)

\* The tables hold rows of the declared shape (the CHECK clauses of createTables).
TypeOK == db \in Tables

\* The dispatch lock: no two active dispatch rows name the same terminal, however
\* dispatches, failures, gates, manual updates, resets and crashes interleave.
\* createDispatchContext is the only guard; every other writer must not reopen a row.
TerminalLock ==
    \A c, k \in ActiveCtx(db) : db.cwho[c] = db.cwho[k] => c = k

\* Every dispatch row's task exists, also after a crash in the middle of a reset:
\* failDispatch and the worker_done check write and read the task by that id.
RowsReferToTasks ==
    \A c \in Ctx : HasCtx(db, c) => HasTask(db, db.ctask[c])

\* A task marked dispatched is really being worked on: its latest dispatch row is
\* active.  The coordinator counts dispatched tasks against maxConcurrent and accepts
\* worker_done only for the latest row, so a dispatched task whose latest row is
\* closed would hold a slot that nothing can release.
DispatchedHasLatestActive ==
    \A t \in TasksIn(db, "dispatched") :
        \E c \in ActiveCtxOf(db, t) : IsLatestCtx(db, t, c)

\* The status of a failed row agrees with its failure_count: three failures, and
\* not fewer, break the circuit, through retries, late failures and crashes.
BreakerAccounting ==
    \A c \in Ctx :
        /\ db.cstat[c] = "failed" => db.cfail[c] \in 1..2
        /\ db.cstat[c] = "circuit_broken" => db.cfail[c] >= 3

\* Dispatch history is append-only: a row never moves to another task or terminal,
\* its failure_count never decreases, and a closed row never becomes active again.
HistoryStands ==
    [][\A c \in Ctx :
        HasCtx(db, c) =>
            /\ db'.ctask[c] = db.ctask[c]
            /\ db'.cwho[c] = db.cwho[c]
            /\ db'.cfail[c] >= db.cfail[c]
            /\ db'.cstat[c] \in ActiveStatus => db.cstat[c] \in ActiveStatus]_db

\* "it runs synchronously inside the same transaction as the status update, so
\* there's no window where a task is completable but its children haven't been
\* promoted" (db.ts:545): a pending task waits for a dep that is not completed.
NoPromotionWindow ==
    \A t \in TasksIn(db, "pending") :
        \E u \in db.deps[t] : db.tstat[u] # "completed"

=============================================================================
