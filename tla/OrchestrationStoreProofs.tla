---------------------- MODULE OrchestrationStoreProofs ----------------------
(***************************************************************************)
(* Proofs about the orchestration store under arbitrary callers, for every *)
(* set of tasks and terminals and every bound on the tables.               *)
(*                                                                         *)
(* TerminalLock, RowsReferToTasks, BreakerAccounting and HistoryStands     *)
(* follow from one inductive invariant, Good, whatever is called and       *)
(* wherever the process dies.  DispatchedHasLatestActive and               *)
(* NoPromotionWindow are true only under the conditions their theorems     *)
(* name; each has an inductive invariant of its own.                       *)
(***************************************************************************)
EXTENDS OrchestrationStore, OrchestrationDbProofs

-----------------------------------------------------------------------------
(***************************************************************************)
(* A step of the specification is a method, whole or cut short.            *)
(***************************************************************************)
LEMMA NextMethod ==
    ASSUME Next
    PROVE  TornWrite \/ Method(db, db', ManualStatus)
BY DEF Next, DoCreateTask, DoUpdateTaskStatus, DoCreateDispatchContext, DoFailDispatch,
       DoCreateGate, DoResolveGate, DoTimeoutGate, DoResetTasks, Method, Inserts, Updates,
       Creates, Writes, Fails, OpensGate, Resolves, TimesOut

LEMMA TornUpdateTaskStatusStep ==
    ASSUME Good(db), TornUpdateTaskStatus
    PROVE  Step(db, db')
<1>1. PICK t \in Task, P \in SUBSET Task : db' = Promote(SetTask(db, t, "completed"), P)
  BY PromotableTasks DEF TornUpdateTaskStatus
<1>2. Good(db') /\ SameCtxs(db, db')
  BY <1>1, SetAndPromoteGood DEF TaskStatus
<1> QED BY <1>2, SameCtxsStep

LEMMA TornCreateGateStep ==
    ASSUME Good(db), TornCreateGate
    PROVE  Step(db, db')
<1>1. PICK t \in Task, g \in Gate :
        \/ db' = InsertGate(db, t, g)
        \/ db' = CompleteActiveDispatchForTask(InsertGate(db, t, g), t)
  BY DEF TornCreateGate, UnusedGate
<1> DEFINE i == InsertGate(db, t, g)
<1>2. Good(i) /\ SameCtxs(db, i)
  BY InsertGateGood
<1>3. CASE db' = i
  BY <1>2, <1>3, SameCtxsStep
<1>4. CASE db' = CompleteActiveDispatchForTask(i, t)
  <2>1. Good(db') /\ Stands(i, db')
    <3> HIDE DEF i
    <3> QED BY <1>2, <1>4, CompleteActiveGood
  <2> HIDE DEF i
  <2> QED BY <1>2, <2>1, SameThenStands DEF Step
<1> QED BY <1>1, <1>3, <1>4

LEMMA TornResetTasksStep ==
    ASSUME Good(db), TornResetTasks
    PROVE  Step(db, db')
<1> DEFINE g == DeleteGates(db)
<1>1. Good(g) /\ SameCtxs(db, g)
  BY DeleteGatesGood
<1>2. CASE db' = g
  BY <1>1, <1>2, SameCtxsStep
<1>3. CASE db' = DeleteCtxs(g)
  <2>1. Good(db') /\ Stands(g, db')
    <3> HIDE DEF g
    <3> QED BY <1>1, <1>3, DeleteCtxsGood
  <2> HIDE DEF g
  <2> QED BY <1>1, <2>1, SameThenStands DEF Step
<1> QED BY <1>2, <1>3 DEF TornResetTasks

LEMMA TornWriteStep ==
    ASSUME Good(db), TornWrite
    PROVE  Step(db, db')
<1>1. CASE TornCreateDispatchContext
  <2>1. PICK t \in Task, h \in Handle, c \in UnusedCtx(db) :
           CanDispatch(db, t, h) /\ db' = InsertCtx(db, t, h, c)
    BY <1>1 DEF TornCreateDispatchContext
  <2> QED BY <2>1, InsertCtxGood DEF Step
<1>2. CASE TornFailDispatch
  <2>1. PICK c \in Ctx : HasCtx(db, c) /\ db' = FailCtx(db, c)
    BY <1>2 DEF TornFailDispatch
  <2> QED BY <2>1, FailCtxGood DEF Step
<1>3. CASE TornResolveGate
  <2>1. PICK g \in Gate : db' = CloseGate(db, g, "resolved")
    BY <1>3 DEF TornResolveGate
  <2> QED BY <2>1, CloseGateGood, SameCtxsStep DEF GateStatus
<1> QED BY <1>1, <1>2, <1>3, TornUpdateTaskStatusStep, TornCreateGateStep,
           TornResetTasksStep DEF TornWrite

LEMMA NextStep ==
    ASSUME Good(db), Next
    PROVE  Step(db, db')
BY NextMethod, MethodStep, TornWriteStep

LEMMA InitGood == Init => Good(db)
<1> SUFFICES ASSUME Init PROVE Good(db)
  OBVIOUS
<1>1. (CHOOSE t \in Task : TRUE) \in Task /\ (CHOOSE h \in Handle : TRUE) \in Handle
  BY RowAssumption
<1>2. db \in Tables
  BY <1>1 DEF Init, EmptyTables, Tables, NoRow
<1>3. \A c \in Ctx : db.cstat[c] = "unused"
  BY DEF Init, EmptyTables
<1> QED BY <1>2, <1>3 DEF Good, Lock, Refer, Accounts, ActiveCtx, ActiveStatus, HasCtx,
                          DispatchStatus

-----------------------------------------------------------------------------
(***************************************************************************)
(* Theorems.                                                               *)
(***************************************************************************)

\* The inductive invariant: well-typed tables, the dispatch lock, rows that refer to
\* existing tasks, and a circuit breaker that agrees with its counter.
THEOREM Invariance == Spec => []Good(db)
<1>1. Init => Good(db)
  BY InitGood
<1>2. Good(db) /\ [Next]_db => Good(db)'
  <2> SUFFICES ASSUME Good(db), [Next]_db PROVE Good(db')
    BY DEF Good, Lock, Refer, Accounts, ActiveCtx, HasCtx, HasTask
  <2>1. CASE Next
    BY <2>1, NextStep DEF Step
  <2>2. CASE UNCHANGED db
    BY <2>2
  <2> QED BY <2>1, <2>2
<1> QED BY <1>1, <1>2, PTL DEF Spec

\* The tables stay well-typed whatever is called and wherever the process dies.
THEOREM TypeCorrect == Spec => []TypeOK
<1>1. Good(db) => TypeOK
  BY DEF Good, TypeOK
<1> QED BY <1>1, Invariance, PTL

\* No terminal is ever locked by two dispatches.
THEOREM LockHolds == Spec => []TerminalLock
<1>1. Good(db) => TerminalLock
  BY DEF Good, Lock, TerminalLock
<1> QED BY <1>1, Invariance, PTL

\* No dispatch row outlives its task, not even for the length of a reset.
THEOREM NoDanglingRows == Spec => []RowsReferToTasks
<1>1. Good(db) => RowsReferToTasks
  BY DEF Good, Refer, RowsReferToTasks
<1> QED BY <1>1, Invariance, PTL

\* A circuit is broken after three failures and not before.
THEOREM BreakerCounts == Spec => []BreakerAccounting
<1>1. Good(db) => BreakerAccounting
  BY DEF Good, Accounts, BreakerAccounting
<1> QED BY <1>1, Invariance, PTL

\* Dispatch rows are never reopened, moved or forgiven a failure.
THEOREM HistoryIsAppendOnly == Spec => HistoryStands
<1> DEFINE A == \A c \in Ctx :
                   HasCtx(db, c) =>
                     /\ db'.ctask[c] = db.ctask[c]
                     /\ db'.cwho[c] = db.cwho[c]
                     /\ db'.cfail[c] >= db.cfail[c]
                     /\ db'.cstat[c] \in ActiveStatus => db.cstat[c] \in ActiveStatus
<1>1. Good(db) /\ [Next]_db => [A]_db
  BY NextStep DEF Step, Stands
<1> QED BY <1>1, Invariance, PTL DEF Spec, HistoryStands

-----------------------------------------------------------------------------
(***************************************************************************)
(* A task marked dispatched is really being worked on.                     *)
(***************************************************************************)
LEMMA InitTracked == Init => Tracked(db)
<1> SUFFICES ASSUME Init PROVE Tracked(db)
  OBVIOUS
<1>1. db \in Tables
  BY InitGood DEF Good
<1>2. InOrder(db)
  BY DEF Init, EmptyTables, InOrder
<1>3. \A u \in Task : WorkedOn(db, u)
  BY DEF Init, EmptyTables, WorkedOn
<1> QED BY <1>1, <1>2, <1>3 DEF Tracked

LEMMA NextTracked ==
    ASSUME ~TornWrites, "dispatched" \notin ManualStatus, Tracked(db), Next
    PROVE  Tracked(db')
BY NextMethod, MethodTracked DEF TornWrite

\* A task marked dispatched is really being worked on, for every number of tasks,
\* terminals and dispatches, as long as `dispatched' is written by
\* createDispatchContext alone and no method is cut short.
THEOREM DispatchedIsWorkedOn ==
    ASSUME ~TornWrites, "dispatched" \notin ManualStatus
    PROVE  Spec => []DispatchedHasLatestActive
<1>1. Init => Tracked(db)
  BY InitTracked
<1>2. Tracked(db) /\ [Next]_db => Tracked(db)'
  <2> SUFFICES ASSUME Tracked(db), [Next]_db PROVE Tracked(db')
    BY DEF Tracked, InOrder, WorkedOn, ActiveCtxOf, ActiveCtx, IsLatestCtx, CtxOf, HasCtx
  <2>1. CASE Next
    BY <2>1, NextTracked
  <2>2. CASE UNCHANGED db
    BY <2>2
  <2> QED BY <2>1, <2>2
<1>3. Tracked(db) => DispatchedHasLatestActive
  BY DEF Tracked, WorkedOn, DispatchedHasLatestActive, TasksIn
<1> QED BY <1>1, <1>2, <1>3, PTL DEF Spec

-----------------------------------------------------------------------------
(***************************************************************************)
(* Promotion leaves no window.                                             *)
(***************************************************************************)
LEMMA NextWaits ==
    ASSUME ~TornWrites, ~LateDeps, "pending" \notin ManualStatus,
           Good(db), Waits(db), Next
    PROVE  Waits(db')
<1>0. /\ db \in Tables /\ db.ctask \in [Ctx -> Task] /\ db.gtask \in [Gate -> Task]
  BY DEF Good, Tables
<1>1. CASE DoCreateTask
  <2>1. PICK t \in TasksIn(db, "unused"), D \in SUBSET Task :
           D \cap TasksIn(db, "completed") = {} /\ db' = CreateTask(db, t, D)
    BY <1>1 DEF DoCreateTask
  <2> QED BY <1>0, <2>1, CreateTaskWaits
<1>2. CASE DoUpdateTaskStatus
  <2>1. PICK t \in Task, s \in TaskStatus \ {"pending"} : db' = UpdateTaskStatus(db, t, s)
    BY <1>2 DEF DoUpdateTaskStatus
  <2>2. CASE s = "completed"
    BY <1>0, <2>1, <2>2, CompleteTaskWaits
  <2>3. CASE s # "completed"
    <3>1. db' = SetTask(db, t, s)
      BY <2>1, <2>3 DEF UpdateTaskStatus
    <3> QED BY <1>0, <2>1, <2>3, <3>1, SetTaskNoProgress, NoProgressWaits
  <2> QED BY <2>2, <2>3
<1>3. CASE DoCreateDispatchContext
  <2>1. PICK t \in Task, h \in Handle, c \in UnusedCtx(db) :
           CanDispatch(db, t, h) /\ db' = SetTask(InsertCtx(db, t, h, c), t, "dispatched")
    BY <1>3 DEF DoCreateDispatchContext, CreateDispatchContext
  <2> DEFINE i == InsertCtx(db, t, h, c)
  <2>2. i \in Tables
    BY <2>1, InsertCtxGood DEF Good
  <2>3. NoProgress(db, i)
    BY <1>0 DEF NoProgress, Tables, InsertCtx
  <2> HIDE DEF i
  <2>4. Waits(i)
    BY <1>0, <2>3, NoProgressWaits
  <2>5. NoProgress(i, db')
    BY <2>1, <2>2, SetTaskNoProgress DEF TaskStatus, i
  <2> QED BY <2>2, <2>4, <2>5, NoProgressWaits
<1>4. CASE DoFailDispatch
  <2>1. PICK c \in Ctx, s \in {"ready", "failed"} :
           HasCtx(db, c) /\ db' = SetTask(FailCtx(db, c), db.ctask[c], s)
    BY <1>4 DEF DoFailDispatch, FailDispatch
  <2> DEFINE f == FailCtx(db, c)
  <2>2. f \in Tables
    BY <2>1, FailCtxGood DEF Good
  <2>3. NoProgress(db, f)
    BY <1>0 DEF NoProgress, Tables, FailCtx
  <2> HIDE DEF f
  <2>4. Waits(f)
    BY <1>0, <2>3, NoProgressWaits
  <2>5. db.ctask[c] \in Task
    BY <1>0
  <2>6. NoProgress(f, db')
    BY <2>1, <2>2, <2>5, SetTaskNoProgress DEF TaskStatus, f
  <2> QED BY <2>2, <2>4, <2>6, NoProgressWaits
<1>5. CASE DoCreateGate
  <2>1. PICK t \in Task, g \in Gate : db' = CreateGate(db, t, g)
    BY <1>5 DEF DoCreateGate, UnusedGate
  <2> DEFINE i == InsertGate(db, t, g)
             a == CompleteActiveDispatchForTask(i, t)
  <2>2. Good(i) /\ NoProgress(db, i)
    BY <1>0, InsertGateGood DEF NoProgress, Tables, InsertGate
  <2> HIDE DEF i
  <2>3. Good(a) /\ NoProgress(i, a)
    BY <2>2, CompleteActiveGood DEF Good, NoProgress, Tables, CompleteActiveDispatchForTask
  <2> HIDE DEF a
  <2>4. Waits(a)
    BY <1>0, <2>2, <2>3, NoProgressWaits DEF Good
  <2>5. NoProgress(a, db')
    BY <2>1, <2>3, SetTaskNoProgress DEF Good, TaskStatus, CreateGate, a, i
  <2> QED BY <2>3, <2>4, <2>5, NoProgressWaits DEF Good
<1>6. CASE DoResolveGate \/ DoTimeoutGate
  <2>1. PICK g \in Gate, s \in GateStatus :
           \/ db' = CloseGate(db, g, s)
           \/ db' = SetTask(CloseGate(db, g, s), db.gtask[g], "ready")
    BY <1>6 DEF DoResolveGate, DoTimeoutGate, ResolveGate, GateStatus
  <2> DEFINE z == CloseGate(db, g, s)
  <2>2. Good(z) /\ NoProgress(db, z)
    BY <1>0, CloseGateGood DEF NoProgress, Tables, CloseGate
  <2> HIDE DEF z
  <2>3. Waits(z)
    BY <1>0, <2>2, NoProgressWaits
  <2>4. CASE db' = z
    BY <2>3, <2>4
  <2>5. CASE db' = SetTask(z, db.gtask[g], "ready")
    <3>1. NoProgress(z, db')
      BY <1>0, <2>2, <2>5, SetTaskNoProgress DEF Good, TaskStatus
    <3> QED BY <2>2, <2>3, <3>1, NoProgressWaits DEF Good
  <2> QED BY <2>1, <2>4, <2>5 DEF z
<1>7. CASE DoResetTasks
  <2>1. \A t \in Task : db'.tstat[t] \in NoRow
    BY <1>0, <1>7 DEF DoResetTasks, ResetTasks, DeleteTasks, DeleteCtxs, DeleteGates,
                      DeleteRows, Tables, NoRow
  <2> QED BY <2>1 DEF Waits, NoRow
<1> QED BY <1>1, <1>2, <1>3, <1>4, <1>5, <1>6, <1>7 DEF Next, TornWrite

\* A task never stays pending with all its deps completed, for every DAG and every
\* order of calls.
THEOREM NoWindow ==
    ASSUME ~TornWrites, ~LateDeps, "pending" \notin ManualStatus
    PROVE  Spec => []NoPromotionWindow
<1>1. Init => Waits(db)
  BY DEF Init, EmptyTables, Waits
<1>2. Good(db) /\ Waits(db) /\ [Next]_db => Waits(db)'
  <2> SUFFICES ASSUME Good(db), Waits(db), [Next]_db PROVE Waits(db')
    BY DEF Waits
  <2>1. CASE Next
    BY <2>1, NextWaits
  <2>2. CASE UNCHANGED db
    BY <2>2
  <2> QED BY <2>1, <2>2
<1>3. Waits(db) => NoPromotionWindow
  BY DEF Waits, NoPromotionWindow, TasksIn
<1> QED BY <1>1, <1>2, <1>3, Invariance, PTL DEF Spec

=============================================================================
