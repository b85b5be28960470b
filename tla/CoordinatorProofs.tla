-------------------------- MODULE CoordinatorProofs --------------------------
(***************************************************************************)
(* Proofs about the coordinator loops and the callers they share the store *)
(* with, for every set of tasks, terminals and loops, every environment    *)
(* and every bound, and about the control of the runs (CoordinatorRuns).   *)
(***************************************************************************)
EXTENDS Coordinator, CoordinatorRuns, OrchestrationDbProofs

-----------------------------------------------------------------------------
(***************************************************************************)
(* The invariant that holds in every environment.                          *)
(***************************************************************************)

\* The reader of the inbox holds the event loop until it has read to the end.
Reader ==
    /\ seen <= Len(inbox)
    /\ checking => \A l \in Loop : co[l].pc \notin {"messages", "gates"}
    /\ seen # 0 => checking \/ \E l \in Loop : co[l].pc = "messages"

\* An id that a message, an agent or a local of a call holds was used by an INSERT.
Refs ==
    /\ \A i \in 1..Len(inbox) : db.tstat[inbox[i].task] # "unused"
    /\ \A c \in Ctx : agent[c] # "none" => db.cstat[c] # "unused"
    /\ \A l \in Loop : co[l].pc = "sending" => co[l].ctx \in Ctx /\ db.cstat[co[l].ctx] # "unused"
    /\ rpc.pc = "sending" => rpc.ctx \in Ctx /\ db.cstat[rpc.ctx] # "unused"

\* There is a gate row for every gate asked for in a message not handled yet.
Unread == {i \in Asked : i > seen}
GateRoom == Cardinality(Unread) <= Cardinality(UnusedGate(db))

Base ==
    /\ TypeOK /\ Good(db) /\ Known(db) /\ IsFiniteSet(TasksIn(db, "dispatched"))
    /\ Reader /\ Refs /\ GateRoom

-----------------------------------------------------------------------------
(***************************************************************************)
(* A step of one loop, or of somebody else.                                *)
(***************************************************************************)
CallerStep ==
    \/ CreateTasks \/ TaskUpdate \/ GateCreate \/ GateResolve \/ GateResolveAgain
    \/ RpcDispatch \/ RpcAgentDetected \/ RpcNoAgent \/ RpcSendSucceeds \/ RpcSendFails
    \/ CheckBegins \/ CheckReadsMessage \/ CheckMarksRead \/ Reset

StepOf(l) == LoopStep(l) \/ StartRun(l) \/ RunStop(l) \/ CallerStep \/ WorkerStep

LEMMA SomeLoop ==
    ASSUME Next
    PROVE  \E l \in Loop : StepOf(l)
BY OptionAssumption DEF Next, RpcStep, CallerStep, StepOf

\* The locals a step gives to a loop.
LEMMA NewLocals ==
    ASSUME TypeOK, NEW l \in Loop, NEW v, Becomes(l, v)
    PROVE  co'[l] = v /\ \A k \in Loop : k # l => co'[k] = co[k]
BY DEF TypeOK, Becomes

LEMMA LoopBecomes ==
    ASSUME NEW l \in Loop, LoopStep(l) \/ StartRun(l) \/ RunStop(l)
    PROVE  co' = co \/ \E v : Becomes(l, v)
BY DEF LoopStep, ProcessMessage, MarkAsRead, ReblockGatedTask, SnapshotReadyTasks,
   GetAvailableTerminals, WithTerminals, CreateTerminal, CreateTerminalFails, PickTask,
   LockTask, StopPicking, ProbeWorktreeDrift, SendSucceeds, SendFails, CheckConvergence,
   Wake, EndRun, StartRun, RunStop

\* A loop moves by its own steps only; a reset deletes the row of its run.
Keeps(k) == co'[k] = co[k] \/ co'[k] = [co[k] EXCEPT !.recorded = FALSE]

LEMMA OthersKept ==
    ASSUME TypeOK, NEW l \in Loop, StepOf(l), NEW k \in Loop,
           k # l \/ CallerStep \/ WorkerStep
    PROVE  Keeps(k)
<1>1. CASE CallerStep \/ WorkerStep
  BY <1>1 DEF Keeps, CallerStep, CreateTasks, TaskUpdate, GateCreate, GateResolve,
     GateResolveAgain, RpcDispatch, RpcAgentDetected, RpcNoAgent, RpcSendSucceeds, RpcSendFails,
     CheckBegins, CheckReadsMessage, CheckMarksRead, Reset, WorkerStep, TerminalExits,
     WorkerDone, WorkerEscalates, WorkerAsks
<1>2. CASE LoopStep(l) \/ StartRun(l) \/ RunStop(l)
  <2>1. co' = co \/ \E v : Becomes(l, v)
    BY <1>2, LoopBecomes
  <2> QED BY <1>1, <2>1, NewLocals DEF Keeps
<1> QED BY <1>1, <1>2 DEF StepOf

-----------------------------------------------------------------------------
(***************************************************************************)
(* What a step does to the tables: one store method, or nothing.           *)
(***************************************************************************)

\* The statuses that the callers of updateTaskStatus write, but for the reblocking.
Written == {"completed"} \cup {s \in ManualStatus : "manual" \in Env}

Reblocks(d, e) == \E g \in UnheldGates(d) : e = UpdateTaskStatus(d, d.gtask[g], "blocked")

HandlesGate == seen < Len(inbox) /\ seen' = seen + 1 /\ inbox[seen + 1].type = "decision_gate"

TablesMove ==
    \/ db' = db
    \/ Edits(db, db', Written)
    \/ Reblocks(db, db')
    \/ Inserts(db, db') /\ ((\E l \in Loop : PickTask(l) \/ ProbeWorktreeDrift(l)) \/ RpcDispatch \/ RpcAgentDetected)
    \/ OpensGate(db, db') /\ (GateCreate \/ HandlesGate)

\* Messages and rows name tasks and rows.
LEMMA MessageTypes ==
    ASSUME TypeOK, NEW i \in 1..Len(inbox)
    PROVE  inbox[i] \in Message
BY DEF TypeOK

LEMMA LockTaskInserts ==
    ASSUME NEW t \in Task, NEW h \in Handle, CanDispatch(db, t, h), UnusedCtx(db) # {},
           db' = CreateDispatchContext(db, t, h, NextCtx(db))
    PROVE  Inserts(db, db')
BY NextRowFree DEF Inserts, NextCtx

LEMMA FailRowMove ==
    ASSUME NEW c \in Ctx, db' = FailRow(db, c)
    PROVE  db' = db \/ Fails(db, db')
BY DEF FailRow, Fails

LEMMA WorkerDoneMove ==
    ASSUME NEW m \in Message, db' = ReconcileWorkerDone(db, m)
    PROVE  db' = db \/ Writes(db, db', Written)
BY DEF ReconcileWorkerDone, Writes, Written, TaskStatus, Message

LEMMA EscalationMove ==
    ASSUME NEW m \in Message, db' = HandleEscalation(db, m)
    PROVE  db' = db \/ Fails(db, db')
<1>1. m.task \in Task
  BY DEF Message
<1>2. CASE AcceptsEscalation(db, m)
  <2>1. IsLatestCtx(db, m.task, Max(CtxOf(db, m.task)))
    BY <1>1, <1>2, LatestIsMax DEF AcceptsEscalation
  <2>2. LatestCtx(db, m.task) \in Ctx /\ HasCtx(db, LatestCtx(db, m.task))
    BY <2>1 DEF IsLatestCtx, CtxOf, LatestCtx
  <2> QED BY <1>2, <2>2 DEF HandleEscalation, Fails
<1> QED BY <1>2 DEF HandleEscalation

LEMMA FiniteRows ==
    ASSUME TypeOK
    PROVE  /\ IsFiniteSet(Asked) /\ IsFiniteSet(Unread) /\ IsFiniteSet(UnusedGate(db))
           /\ Cardinality(Asked) \in Nat /\ Cardinality(Unread) \in Nat
           /\ Cardinality(UnusedGate(db)) \in Nat
<1>1. Len(inbox) \in Nat
  BY DEF TypeOK
<1>2. IsFiniteSet(1..Len(inbox)) /\ IsFiniteSet(1..MaxGate)
  BY <1>1, FS_Interval, BoundAssumption
<1>3. Asked \in SUBSET (1..Len(inbox)) /\ Unread \in SUBSET (1..Len(inbox))
      /\ UnusedGate(db) \in SUBSET (1..MaxGate)
  BY DEF Asked, Unread, UnusedGate, Gate
<1>4. IsFiniteSet(Asked) /\ IsFiniteSet(Unread) /\ IsFiniteSet(UnusedGate(db))
  BY <1>2, <1>3, FS_Subset
<1> QED BY <1>4, FS_CardinalityType

LEMMA GateMove ==
    ASSUME NEW t \in Task \ TasksIn(db, "unused"), UnusedGate(db) # {},
           db' = CreateGate(db, t, Min(UnusedGate(db)))
    PROVE  OpensGate(db, db')
BY NextRowFree DEF OpensGate

\* A reader that comes to a decision gate finds a free gate row.
LEMMA RoomForUnread ==
    ASSUME Base, seen < Len(inbox), inbox[seen + 1].type = "decision_gate"
    PROVE  UnusedGate(db) # {}
<1>1. seen \in Nat /\ Len(inbox) \in Nat
  BY DEF Base, TypeOK
<1>2. seen + 1 \in Unread
  BY <1>1 DEF Unread, Asked
<1>3. Cardinality(Unread) # 0
  BY <1>2, FiniteRows, FS_EmptySet DEF Base
<1>4. Cardinality(UnusedGate(db)) # 0
  BY <1>3, FiniteRows DEF Base, GateRoom
<1> QED BY <1>4, FS_EmptySet

LEMMA ProcessMessageMove ==
    ASSUME Base, NEW l \in Loop, ProcessMessage(l)
    PROVE  TablesMove
<1> DEFINE m == inbox[seen + 1]
<1>1. seen \in Nat /\ Len(inbox) \in Nat /\ seen < Len(inbox)
  BY DEF Base, TypeOK, ProcessMessage
<1>2. m \in Message
  BY <1>1, MessageTypes DEF Base
<1>3. db' = HandleMessage(db, m)
  BY DEF ProcessMessage
<1> HIDE DEF m
<1>4. CASE m.type = "worker_done"
  <2>1. db' = ReconcileWorkerDone(db, m)
    BY <1>3, <1>4 DEF HandleMessage
  <2> QED BY <1>2, <2>1, WorkerDoneMove DEF TablesMove, Edits
<1>5. CASE m.type = "escalation"
  <2>1. db' = HandleEscalation(db, m)
    BY <1>3, <1>5 DEF HandleMessage
  <2> QED BY <1>2, <2>1, EscalationMove DEF TablesMove, Edits
<1>6. CASE m.type = "decision_gate"
  <2>1. db' = CreateGate(db, m.task, Min(UnusedGate(db)))
    BY <1>3, <1>6 DEF HandleMessage
  <2>2. m.task \in Task \ TasksIn(db, "unused")
    BY <1>1, <1>2 DEF Base, Refs, TasksIn, Message, m
  <2>3. UnusedGate(db) # {}
    BY <1>1, <1>6, RoomForUnread DEF m
  <2>4. HandlesGate
    BY <1>1, <1>6 DEF HandlesGate, ProcessMessage, m
  <2> QED BY <2>1, <2>2, <2>3, <2>4, GateMove DEF TablesMove
<1> QED BY <1>2, <1>4, <1>5, <1>6 DEF Message

LEMMA NextTables ==
    ASSUME Base, Next
    PROVE  TablesMove
<1>loop. PICK l \in Loop : StepOf(l)
  BY SomeLoop
<1>0. /\ db \in Tables /\ db.ctask \in [Ctx -> Task] /\ db.gtask \in [Gate -> Task]
      /\ co[l].task \in Task /\ co[l].handle \in Handle /\ co[l].ready \in SUBSET Task
      /\ co[l].terms \in SUBSET Handle /\ rpc.task \in Task /\ rpc.handle \in Handle
      /\ seen \in Nat /\ Len(inbox) \in Nat
  BY DEF Base, TypeOK, Tables, Locals
<1>1. CASE MarkAsRead(l) \/ SnapshotReadyTasks(l) \/ GetAvailableTerminals(l) \/ CreateTerminal(l)
           \/ CreateTerminalFails(l) \/ StopPicking(l) \/ SendSucceeds(l) \/ CheckConvergence(l) \/ Wake(l)
           \/ StartRun(l) \/ RunStop(l) \/ RpcNoAgent \/ RpcSendSucceeds \/ CheckBegins
           \/ CheckMarksRead
           \/ (\E c \in Ctx : WorkerDone(c) \/ WorkerEscalates(c) \/ WorkerAsks(c))
  BY <1>1 DEF TablesMove, MarkAsRead, SnapshotReadyTasks, GetAvailableTerminals,
       CreateTerminal, CreateTerminalFails, StopPicking, SendSucceeds, CheckConvergence, Wake,
       StartRun, RunStop, RpcNoAgent, RpcSendSucceeds, CheckBegins, CheckMarksRead,
       WorkerDone, WorkerEscalates, WorkerAsks
<1>2. CASE ProcessMessage(l)
  BY <1>2, ProcessMessageMove
<1>3. CASE ReblockGatedTask(l)
  BY <1>3 DEF ReblockGatedTask, TablesMove, Reblocks
<1>4. CASE PickTask(l)
  <2>1. \/ db' = db
        \/ \E t \in Task, h \in Handle :
             /\ CanDispatch(db, t, h) /\ UnusedCtx(db) # {}
             /\ db' = CreateDispatchContext(db, t, h, NextCtx(db))
    BY <1>0, <1>4 DEF PickTask, LockTask
  <2> QED BY <1>4, <2>1, LockTaskInserts DEF TablesMove
<1>5. CASE ProbeWorktreeDrift(l)
  <2>1. \/ db' = db
        \/ /\ CanDispatch(db, co[l].task, co[l].handle) /\ UnusedCtx(db) # {}
           /\ db' = CreateDispatchContext(db, co[l].task, co[l].handle, NextCtx(db))
    BY <1>5 DEF ProbeWorktreeDrift, LockTask
  <2> QED BY <1>0, <1>5, <2>1, LockTaskInserts DEF TablesMove
<1>6. CASE SendFails(l)
  <2>1. co[l].ctx \in Ctx /\ db' = FailRow(db, co[l].ctx)
    BY <1>6 DEF SendFails, Base, Refs
  <2> QED BY <2>1, FailRowMove DEF TablesMove, Edits
<1>7. CASE CreateTasks
  <2>1. PICK t \in TasksIn(db, "unused"), D \in SUBSET Rows(db) : db' = CreateTask(db, t, D)
    BY <1>7 DEF CreateTasks
  <2>2. D \in SUBSET (Task \ TasksIn(db, "unused"))
    BY DEF Rows, HasTask, TasksIn, TaskStatus
  <2>3. Creates(db, db')
    BY <2>1, <2>2 DEF Creates
  <2> QED BY <2>3 DEF TablesMove, Edits
<1>8. CASE TaskUpdate
  <2>1. Writes(db, db', Written)
    BY <1>8, OptionAssumption DEF TaskUpdate, Writes, Written
  <2> QED BY <2>1 DEF TablesMove, Edits
<1>9. CASE GateCreate
  <2>1. PICK t \in Rows(db) : db' = CreateGate(db, t, Min(UnusedGate(db)))
    BY <1>9 DEF GateCreate
  <2>2. t \in Task \ TasksIn(db, "unused")
    BY DEF Rows, HasTask, TasksIn, TaskStatus
  <2>3. UnusedGate(db) # {}
    <3>1. Cardinality(UnusedGate(db)) # 0
      BY <1>9, FiniteRows DEF GateCreate, GateRowLeft, Base
    <3> QED BY <3>1, FS_EmptySet
  <2> QED BY <1>9, <2>1, <2>2, <2>3, GateMove DEF TablesMove
<1>10. CASE GateResolve \/ GateResolveAgain
  <2>1. Resolves(db, db')
    BY <1>10 DEF GateResolve, GateResolveAgain, Resolves, HasGate, GateStatus
  <2> QED BY <2>1 DEF TablesMove, Edits
<1>11. CASE RpcDispatch
  <2>1. \/ db' = db
        \/ \E t \in Task, h \in Handle :
             /\ CanDispatch(db, t, h) /\ UnusedCtx(db) # {}
             /\ db' = CreateDispatchContext(db, t, h, NextCtx(db))
    BY <1>11 DEF RpcDispatch, LockForRpc, TasksIn
  <2> QED BY <1>11, <2>1, LockTaskInserts DEF TablesMove
<1>12. CASE RpcAgentDetected
  <2>1. \/ db' = db
        \/ /\ CanDispatch(db, rpc.task, rpc.handle) /\ UnusedCtx(db) # {}
           /\ db' = CreateDispatchContext(db, rpc.task, rpc.handle, NextCtx(db))
    BY <1>12 DEF RpcAgentDetected, LockForRpc
  <2> QED BY <1>0, <1>12, <2>1, LockTaskInserts DEF TablesMove
<1>13. CASE RpcSendFails
  <2>1. rpc.ctx \in Ctx /\ db' = FailRow(db, rpc.ctx)
    BY <1>13 DEF RpcSendFails, Base, Refs
  <2> QED BY <2>1, FailRowMove DEF TablesMove, Edits
<1>14. CASE CheckReadsMessage
  <2>1. inbox[seen + 1] \in Message
    BY <1>0, <1>14, MessageTypes DEF CheckReadsMessage, Base
  <2>2. db' = db \/ db' = ReconcileWorkerDone(db, inbox[seen + 1])
    BY <1>14 DEF CheckReadsMessage
  <2> QED BY <2>1, <2>2, WorkerDoneMove DEF TablesMove, Edits
<1>15. CASE Reset
  BY <1>15 DEF Reset, TablesMove, Edits
<1>16. CASE TerminalExits
  <2>1. db' = db \/ \E c \in Ctx : HasCtx(db, c) /\ db' = FailDispatch(db, c)
    BY <1>16 DEF TerminalExits, ActiveCtxAt, ActiveCtx, ActiveStatus, HasCtx, DispatchStatus
  <2> QED BY <2>1 DEF TablesMove, Edits, Fails
<1> QED BY <1>1, <1>2, <1>3, <1>4, <1>5, <1>6, <1>7, <1>8, <1>9, <1>10, <1>11, <1>12, <1>13,
           <1>14, <1>15, <1>16, <1>loop DEF StepOf, LoopStep, CallerStep, WorkerStep

LEMMA ReblockWrites ==
    ASSUME db \in Tables, Reblocks(db, db')
    PROVE  Writes(db, db', {"blocked"})
BY DEF Reblocks, UnheldGates, Writes, TaskStatus, Tables

LEMMA MoveIsMethod ==
    ASSUME db \in Tables, TablesMove
    PROVE  db' = db \/ Method(db, db', Written \cup {"blocked"})
<1>1. CASE Reblocks(db, db')
  <2>1. Writes(db, db', Written \cup {"blocked"})
    BY <1>1, ReblockWrites DEF Writes
  <2> QED BY <2>1 DEF Method, Updates
<1>2. CASE Edits(db, db', Written)
  <2>1. Edits(db, db', Written \cup {"blocked"})
    BY <1>2 DEF Edits, Writes
  <2> QED BY <2>1 DEF Edits, Method, Updates
<1>3. CASE Inserts(db, db') \/ OpensGate(db, db')
  BY <1>3 DEF Method, Updates
<1> QED BY <1>1, <1>2, <1>3 DEF TablesMove

LEMMA TablesKept ==
    ASSUME Base, Next
    PROVE  /\ Good(db') /\ Known(db') /\ Ages(db, db')
           /\ IsFiniteSet(TasksIn(db', "dispatched"))
<1>1. Good(db) /\ db \in Tables /\ Known(db) /\ IsFiniteSet(TasksIn(db, "dispatched"))
  BY DEF Base, Good
<1>2. TablesMove
  BY NextTables
<1>3. db' = db \/ Method(db, db', Written \cup {"blocked"})
  BY <1>1, <1>2, MoveIsMethod
<1>4. Good(db') /\ Ages(db, db')
  BY <1>1, <1>3, MethodStep, MethodAges DEF Step, Ages, Known
<1>5. IsFiniteSet(TasksIn(db', "dispatched"))
  <2>1. CASE Inserts(db, db')
    <3>1. PICK t \in Task : TasksIn(db', "dispatched") = TasksIn(db, "dispatched") \cup {t}
      BY <1>1, <2>1, InsertDispatchesOne
    <3> QED BY <1>1, <3>1, FS_AddElement
  <2>2. CASE \E t \in Task : TasksIn(db', "dispatched") \subseteq TasksIn(db, "dispatched") \cup {t}
    <3>1. PICK t \in Task : TasksIn(db', "dispatched") \in SUBSET (TasksIn(db, "dispatched") \cup {t})
      BY <2>2
    <3>2. IsFiniteSet(TasksIn(db, "dispatched") \cup {t})
      BY <1>1, FS_AddElement
    <3> QED BY <3>1, <3>2, FS_Subset
  <2>3. CASE Updates(db, db', Written \cup {"blocked"})
    <3>1. CASE Writes(db, db', Written \cup {"blocked"})
      <4>1. PICK t \in Task, s \in TaskStatus : db' = UpdateTaskStatus(db, t, s)
        BY <3>1 DEF Writes
      <4>2. TasksIn(db', "dispatched") \subseteq TasksIn(db, "dispatched") \cup {t}
        BY <1>1, <4>1, UpdateTaskStatusWrites DEF TasksIn
      <4> QED BY <2>2, <4>2
    <3>2. CASE ~Writes(db, db', Written \cup {"blocked"})
      <4>1. Updates(db, db', {})
        BY <2>3, <3>2 DEF Updates
      <4>2. TasksIn(db', "dispatched") \in SUBSET TasksIn(db, "dispatched")
        BY <1>1, <4>1, UpdatesDispatchNothing
      <4> QED BY <1>1, <4>2, FS_Subset
    <3> QED BY <3>1, <3>2
  <2> QED BY <1>1, <1>3, <2>1, <2>3 DEF Method
<1> QED BY <1>4, <1>5 DEF Ages

-----------------------------------------------------------------------------
(***************************************************************************)
(* The other variables.                                                    *)
(***************************************************************************)

\* What a step does to the inbox and its reader.
Reads == seen < Len(inbox) /\ seen' = seen + 1 /\ inbox' = inbox
         /\ checking' = checking

InboxMove ==
    \/ inbox' = inbox /\ seen' = seen
    \/ Reads
    \/ inbox' = <<>> /\ seen' = 0
    \/ /\ Yielded /\ seen' = seen /\ InboxHasRoom
       /\ \E c \in Ctx, h \in Handle, type \in {"worker_done", "escalation", "decision_gate"} :
            /\ inbox' = Append(inbox, [type |-> type, from |-> h, task |-> db.ctask[c], ctx |-> c])
            /\ db.cstat[c] # "unused"
            /\ type = "decision_gate" => GateRowLeft /\ "asks" \in Env
            /\ type = "worker_done" => agent'[c] # "none"

LEMMA NextInbox ==
    ASSUME Base, Next
    PROVE  InboxMove
<1>loop. PICK l \in Loop : StepOf(l)
  BY SomeLoop
<1>0. /\ seen \in Nat /\ inbox \in Seq(Message) /\ db.cwho \in [Ctx -> Handle]
      /\ agent \in [Ctx -> {"none", "working", "raised", "reported", "gone"}]
      /\ \A c \in Ctx : agent[c] # "none" => db.cstat[c] # "unused"
  BY DEF Base, TypeOK, Refs, Tables
<1>1. CASE ProcessMessage(l) \/ CheckReadsMessage
  BY <1>0, <1>1 DEF ProcessMessage, CheckReadsMessage, InboxMove, Reads, Base, TypeOK
<1>2. CASE MarkAsRead(l) \/ CheckMarksRead
  BY <1>2 DEF MarkAsRead, CheckMarksRead, InboxMove
<1>3. CASE StartRun(l) \/ CheckBegins \/ Wake(l)
  BY <1>3 DEF StartRun, CheckBegins, Wake, InboxMove, Base, Reader, Yielded
<1>4. CASE Reset
  BY <1>4 DEF Reset, InboxMove, Base, Reader, Yielded
<1>5. CASE TerminalExits
  <2>1. \/ inbox' = inbox
        \/ \E h \in Handle : \E c \in ActiveCtxAt(db, h) :
             inbox' = Append(inbox, Sent("escalation", h, c))
    BY <1>5 DEF TerminalExits, Post
  <2>2. \A h \in Handle : \A c \in ActiveCtxAt(db, h) : c \in Ctx /\ db.cstat[c] # "unused"
    BY DEF ActiveCtxAt, ActiveCtx, ActiveStatus
  <2> QED BY <1>5, <2>1, <2>2 DEF TerminalExits, Sent, InboxMove
<1>6. ASSUME NEW c \in Ctx, WorkerDone(c) \/ WorkerEscalates(c) \/ WorkerAsks(c)
      PROVE  InboxMove
  <2>1. db.cstat[c] # "unused" /\ db.cwho[c] \in Handle
    BY <1>0, <1>6 DEF WorkerDone, WorkerEscalates, WorkerAsks, Reporting
  <2>2. CASE WorkerDone(c)
    BY <1>0, <2>1, <2>2 DEF WorkerDone, Post, Sent, InboxMove
  <2>3. CASE WorkerEscalates(c)
    BY <1>0, <2>1, <2>3 DEF WorkerEscalates, Post, Sent, InboxMove
  <2>4. CASE WorkerAsks(c)
    BY <1>0, <2>1, <2>4 DEF WorkerAsks, Post, Sent, InboxMove
  <2> QED BY <1>6, <2>2, <2>3, <2>4
<1>7. CASE ReblockGatedTask(l) \/ SnapshotReadyTasks(l) \/ GetAvailableTerminals(l) \/ CreateTerminal(l)
           \/ CreateTerminalFails(l) \/ PickTask(l) \/ StopPicking(l) \/ ProbeWorktreeDrift(l)
           \/ SendSucceeds(l) \/ SendFails(l) \/ CheckConvergence(l) \/ CreateTasks \/ RunStop(l)
           \/ TaskUpdate \/ GateCreate \/ GateResolve \/ GateResolveAgain \/ RpcDispatch
           \/ RpcAgentDetected \/ RpcNoAgent \/ RpcSendSucceeds \/ RpcSendFails
  BY <1>7 DEF ReblockGatedTask, SnapshotReadyTasks, GetAvailableTerminals, CreateTerminal,
       CreateTerminalFails, PickTask, StopPicking, ProbeWorktreeDrift, SendSucceeds,
       SendFails, CheckConvergence, CreateTasks, RunStop, TaskUpdate, GateCreate,
       GateResolve, GateResolveAgain, RpcDispatch, RpcAgentDetected, RpcNoAgent,
       RpcSendSucceeds, RpcSendFails, InboxMove
<1> QED BY <1>loop, <1>1, <1>2, <1>3, <1>4, <1>5, <1>6, <1>7 DEF StepOf, LoopStep, CallerStep, WorkerStep

LEMMA InboxKept ==
    ASSUME Base, Next
    PROVE  /\ inbox' \in Seq(Message) /\ Len(inbox') <= MaxInbox
           /\ seen' \in 0..MaxInbox /\ seen' <= Len(inbox')
           /\ \A i \in 1..Len(inbox') : db'.tstat[inbox'[i].task] # "unused"
<1>0. /\ seen \in Nat /\ inbox \in Seq(Message) /\ Len(inbox) \in Nat /\ Len(inbox) <= MaxInbox
      /\ seen <= Len(inbox) /\ MaxInbox \in Nat /\ db.ctask \in [Ctx -> Task]
      /\ \A i \in 1..Len(inbox) : db.tstat[inbox[i].task] # "unused"
  BY OptionAssumption DEF Base, TypeOK, Reader, Refs, Tables
<1>1. /\ \A t \in Task : db.tstat[t] # "unused" => db'.tstat[t] # "unused"
      /\ \A c \in Ctx : db.cstat[c] # "unused" => db.tstat[db.ctask[c]] # "unused"
  BY TablesKept DEF Ages, Base, Known
<1>2. \A i \in 1..Len(inbox) : inbox[i].task \in Task
  BY MessageTypes DEF Base, Message
<1>3. CASE inbox' = inbox
  BY <1>0, <1>1, <1>2, <1>3, NextInbox DEF InboxMove, Reads
<1>4. CASE inbox' = <<>> /\ seen' = 0
  BY <1>0, <1>4
<1>5. CASE \E c \in Ctx, h \in Handle, type \in {"worker_done", "escalation", "decision_gate"} :
             /\ seen' = seen /\ InboxHasRoom
             /\ inbox' = Append(inbox, [type |-> type, from |-> h, task |-> db.ctask[c], ctx |-> c])
             /\ db.cstat[c] # "unused"
  <2>1. PICK c \in Ctx, h \in Handle, type \in {"worker_done", "escalation", "decision_gate"} :
          /\ seen' = seen /\ InboxHasRoom
          /\ inbox' = Append(inbox, [type |-> type, from |-> h, task |-> db.ctask[c], ctx |-> c])
          /\ db.cstat[c] # "unused"
    BY <1>5
  <2> DEFINE m == [type |-> type, from |-> h, task |-> db.ctask[c], ctx |-> c]
  <2>2. m \in Message /\ m.task \in Task /\ db.tstat[m.task] # "unused"
    BY <1>0, <1>1, <2>1, BoundAssumption DEF Message, Ctx
  <2>3. Len(inbox) < MaxInbox
    BY <2>1 DEF InboxHasRoom
  <2> HIDE DEF m
  <2>4. /\ inbox' \in Seq(Message) /\ Len(inbox') = Len(inbox) + 1
        /\ \A i \in 1..Len(inbox') : inbox'[i] = IF i <= Len(inbox) THEN inbox[i] ELSE m
    BY <1>0, <2>1, <2>2 DEF m
  <2> QED BY <1>0, <1>1, <1>2, <2>1, <2>2, <2>3, <2>4
<1> QED BY <1>3, <1>4, <1>5, NextInbox DEF InboxMove, Reads

LEMMA NextRow ==
    ASSUME TypeOK, UnusedCtx(db) # {}
    PROVE  NextCtx(db) \in Ctx /\ db.cstat[NextCtx(db)] = "unused"
BY NextRowFree DEF NextCtx, UnusedCtx

LEMMA LoopsKept ==
    ASSUME TypeOK, NEW l \in Loop, StepOf(l)
    PROVE  co' = [k \in Loop |-> co'[k]]
<1>1. CASE CallerStep \/ WorkerStep
  BY <1>1 DEF TypeOK, CallerStep, CreateTasks, TaskUpdate, GateCreate, GateResolve,
     GateResolveAgain, RpcDispatch, RpcAgentDetected, RpcNoAgent, RpcSendSucceeds, RpcSendFails,
     CheckBegins, CheckReadsMessage, CheckMarksRead, Reset, WorkerStep, TerminalExits,
     WorkerDone, WorkerEscalates, WorkerAsks
<1>2. CASE LoopStep(l) \/ StartRun(l) \/ RunStop(l)
  <2>1. co' = co \/ \E v : Becomes(l, v)
    BY <1>2, LoopBecomes
  <2> QED BY <2>1 DEF TypeOK, Becomes
<1> QED BY <1>1, <1>2 DEF StepOf

LEMMA LoopLocals ==
    ASSUME Base, NEW l \in Loop, LoopStep(l) \/ StartRun(l) \/ RunStop(l)
    PROVE  co'[l] \in Locals
<1>0. /\ TypeOK /\ co[l] \in Locals /\ FreeSlots(db) \in Int
      /\ co \in [Loop -> Locals]
  BY FS_CardinalityType, OptionAssumption DEF Base, FreeSlots, TypeOK
<1>1. UnusedCtx(db) # {} => NextCtx(db) \in 0..MaxCtx
  BY <1>0, NextRow, BoundAssumption DEF Ctx
<1>2. IdleLoop \in Locals /\ AnyTask \in Task /\ AnyHandle \in Handle
  BY RowAssumption, BoundAssumption DEF AnyTask, AnyHandle, IdleLoop, Locals, LoopPc
<1>3. CASE ProcessMessage(l)
  <2>1. co[l].broken \cup BrokenBy(db, db') \in SUBSET Task
    BY <1>0 DEF BrokenBy, Locals
  <2>2. co'[l] = [co[l] EXCEPT !.broken = co[l].broken \cup BrokenBy(db, db')]
    BY <1>0, <1>3 DEF ProcessMessage, Becomes
  <2> QED BY <1>0, <2>1, <2>2 DEF Locals
<1>4. CASE MarkAsRead(l) \/ StopPicking(l) \/ CreateTerminalFails(l) \/ SendSucceeds(l)
  <2>1. \E pc \in LoopPc : co'[l] = [co[l] EXCEPT !.pc = pc]
    BY <1>0, <1>4 DEF Becomes, MarkAsRead, StopPicking, CreateTerminalFails, SendSucceeds, LoopPc
  <2> QED BY <1>0, <2>1 DEF Locals
<1>5. CASE SnapshotReadyTasks(l)
  <2>1. TasksIn(db, "ready") \in SUBSET Task
    BY DEF TasksIn
  <2>2. \/ co'[l] = [co[l] EXCEPT !.pc = "converging"]
        \/ co'[l] = [co[l] EXCEPT !.pc = "listing", !.ready = TasksIn(db, "ready"),
                            !.slots = FreeSlots(db)]
    BY <1>0, <1>5 DEF Becomes, SnapshotReadyTasks
  <2> QED BY <1>0, <2>1, <2>2 DEF Locals, LoopPc
<1>6. CASE GetAvailableTerminals(l) \/ CreateTerminal(l)
  <2>1. ASSUME NEW hs \in SUBSET Handle, WithTerminals(l, hs)
        PROVE  co'[l] \in Locals
    <3> DEFINE pc == IF hs = {} THEN "creating" ELSE "picking"
    <3>1. co'[l] = [co[l] EXCEPT !.terms = hs, !.pc = pc] /\ pc \in LoopPc
      BY <1>0, <2>1 DEF Becomes, WithTerminals, LoopPc
    <3> HIDE DEF pc
    <3> QED BY <1>0, <3>1 DEF Locals
  <2>2. CASE GetAvailableTerminals(l)
    <3> DEFINE live == {h \in Handle : term[h] = "live"} \ BusyHandles(db)
    <3>1. WithTerminals(l, live) \/ WithTerminals(l, {})
      BY <2>2 DEF GetAvailableTerminals
    <3>2. live \in SUBSET Handle /\ {} \in SUBSET Handle
      OBVIOUS
    <3> HIDE DEF live
    <3> QED BY <2>1, <3>1, <3>2
  <2>3. CASE CreateTerminal(l)
    <3>1. PICK h \in Handle : WithTerminals(l, {h})
      BY <2>3 DEF CreateTerminal
    <3> QED BY <2>1, <3>1
  <2> QED BY <1>6, <2>2, <2>3
<1>7. CASE PickTask(l)
  <2>1. PICK t \in co[l].ready, h \in co[l].terms :
          LET local == [co[l] EXCEPT !.ready = @ \ {t}, !.terms = @ \ {h}, !.slots = @ - 1,
                                  !.task = t, !.handle = h]
          IN  \/ co'[l] = [local EXCEPT !.pc = "probing"]
              \/ co'[l] = [local EXCEPT !.pc = "picking"]
              \/ UnusedCtx(db) # {} /\ co'[l] = [local EXCEPT !.pc = "sending", !.ctx = NextCtx(db)]
    BY <1>0, <1>7 DEF Becomes, PickTask, LockTask
  <2> DEFINE local == [co[l] EXCEPT !.ready = @ \ {t}, !.terms = @ \ {h}, !.slots = @ - 1,
                                 !.task = t, !.handle = h]
  <2>2. local \in Locals
    <3>1. /\ t \in Task /\ h \in Handle /\ co[l].slots - 1 \in Int
          /\ co[l].ready \ {t} \in SUBSET Task /\ co[l].terms \ {h} \in SUBSET Handle
      BY <1>0 DEF Locals
    <3>2. ASSUME NEW r \in SUBSET Task, NEW hs \in SUBSET Handle, NEW n \in Int
          PROVE  [co[l] EXCEPT !.ready = r, !.terms = hs, !.slots = n, !.task = t, !.handle = h]
                   \in Locals
      BY <1>0, <3>1 DEF Locals
    <3> QED BY <3>1, <3>2
  <2>3. \/ co'[l] = [local EXCEPT !.pc = "probing"]
        \/ co'[l] = [local EXCEPT !.pc = "picking"]
        \/ UnusedCtx(db) # {} /\ co'[l] = [local EXCEPT !.pc = "sending", !.ctx = NextCtx(db)]
    BY <2>1
  <2> HIDE DEF local
  <2>4. CASE UnusedCtx(db) # {} /\ co'[l] = [local EXCEPT !.pc = "sending", !.ctx = NextCtx(db)]
    <3>1. NextCtx(db) \in 0..MaxCtx
      BY <1>1, <2>4
    <3> QED BY <2>2, <2>4, <3>1 DEF Locals, LoopPc
  <2>5. CASE co'[l] = [local EXCEPT !.pc = "probing"] \/ co'[l] = [local EXCEPT !.pc = "picking"]
    BY <2>2, <2>5 DEF Locals, LoopPc
  <2> QED BY <2>3, <2>4, <2>5
<1>8. CASE ProbeWorktreeDrift(l)
  <2>1. \/ co'[l] = [co[l] EXCEPT !.pc = "picking"]
        \/ UnusedCtx(db) # {} /\ co'[l] = [co[l] EXCEPT !.pc = "sending", !.ctx = NextCtx(db)]
    BY <1>0, <1>8 DEF Becomes, ProbeWorktreeDrift, LockTask
  <2> QED BY <1>0, <1>1, <2>1 DEF Locals, LoopPc
<1>9. CASE SendFails(l)
  <2>1. \E b \in SUBSET Task : co'[l] = [co[l] EXCEPT !.pc = "picking", !.broken = b]
    <3>1. co[l].broken \cup {t \in {co[l].task} : db'.cstat[co[l].ctx] = "circuit_broken"} \in SUBSET Task
      BY <1>0 DEF Locals
    <3> QED BY <1>0, <1>9, <3>1 DEF Becomes, SendFails
  <2> QED BY <1>0, <2>1 DEF Locals, LoopPc
<1>10. CASE CheckConvergence(l) \/ Wake(l)
  <2>1. \/ co'[l] = IdleLoop
        \/ co'[l] = [co[l] EXCEPT !.pc = "messages"]
        \/ co'[l] = [co[l] EXCEPT !.pc = "sleeping", !.ready = {}, !.terms = {}, !.slots = 0,
                            !.task = AnyTask, !.handle = AnyHandle, !.ctx = 0]
    BY <1>0, <1>10 DEF Becomes, CheckConvergence, Wake, EndRun
  <2>2. CASE co'[l] = IdleLoop
    BY <1>2, <2>2
  <2>3. CASE co'[l] = [co[l] EXCEPT !.pc = "messages"]
    BY <1>0, <2>3 DEF Locals, LoopPc
  <2>4. CASE co'[l] = [co[l] EXCEPT !.pc = "sleeping", !.ready = {}, !.terms = {}, !.slots = 0,
                              !.task = AnyTask, !.handle = AnyHandle, !.ctx = 0]
    <3>1. ASSUME NEW p \in LoopPc, NEW r \in SUBSET Task, NEW hs \in SUBSET Handle,
                 NEW n \in Int, NEW t \in Task, NEW h \in Handle, NEW c \in 0..MaxCtx
          PROVE  [co[l] EXCEPT !.pc = p, !.ready = r, !.terms = hs, !.slots = n,
                            !.task = t, !.handle = h, !.ctx = c] \in Locals
      BY <1>0 DEF Locals
    <3>2. /\ {} \in SUBSET Task /\ {} \in SUBSET Handle /\ 0 \in 0..MaxCtx /\ 0 \in Int
          /\ "sleeping" \in LoopPc /\ AnyTask \in Task /\ AnyHandle \in Handle
      BY <1>2, BoundAssumption DEF LoopPc
    <3>3. [co[l] EXCEPT !.pc = "sleeping", !.ready = {}, !.terms = {}, !.slots = 0,
                     !.task = AnyTask, !.handle = AnyHandle, !.ctx = 0] \in Locals
      <4> HIDE DEF Locals, LoopPc
      <4> QED BY <3>1, <3>2, Zenon
    <3> QED BY <2>4, <3>3, Zenon
  <2> QED BY <2>1, <2>2, <2>3, <2>4
<1>11. CASE StartRun(l)
  <2>1. co'[l] = co[l] \/ co'[l] = [IdleLoop EXCEPT !.pc = "messages", !.recorded = TRUE]
    BY <1>0, <1>11 DEF Becomes, StartRun
  <2> QED BY <1>0, <1>2, <2>1 DEF Locals, LoopPc
<1>12. CASE RunStop(l)
  BY <1>0, <1>12 DEF Becomes, RunStop, Locals
<1>13. CASE ReblockGatedTask(l)
  BY <1>0, <1>13 DEF ReblockGatedTask
<1> QED BY <1>3, <1>4, <1>5, <1>6, <1>7, <1>8, <1>9, <1>10, <1>11, <1>12, <1>13 DEF LoopStep

LEMMA LocalsKept ==
    ASSUME Base, Next
    PROVE  co' \in [Loop -> Locals]
<1>1. PICK l \in Loop : StepOf(l)
  BY SomeLoop
<1>2. TypeOK
  BY DEF Base
<1>3. ASSUME NEW k \in Loop, Keeps(k)
      PROVE  co'[k] \in Locals
  <2>1. co[k] \in Locals
    BY <1>2 DEF TypeOK
  <2> QED BY <1>3, <2>1 DEF Keeps, Locals
<1>4. co'[l] \in Locals
  BY <1>1, <1>2, <1>3, LoopLocals, OthersKept DEF StepOf
<1>5. \A k \in Loop : co'[k] \in Locals
  BY <1>1, <1>2, <1>3, <1>4, OthersKept
<1> QED BY <1>1, <1>2, <1>5, LoopsKept

LEMMA TypeKept ==
    ASSUME Base, Next
    PROVE  TypeOK'
<1>loop. PICK l \in Loop : StepOf(l)
  BY SomeLoop
<1>0. /\ checking \in BOOLEAN
      /\ run \in {"none", "running", "completed", "failed"}
      /\ rpc \in [pc : RpcPc, task : Task, handle : Handle, ctx : 0..MaxCtx]
      /\ term \in [Handle -> {"absent", "live", "exited"}]
      /\ agent \in [Ctx -> {"none", "working", "raised", "reported", "gone"}]
  BY DEF Base, TypeOK
<1>1. db' \in Tables /\ co' \in [Loop -> Locals]
  BY TablesKept, LocalsKept DEF Good
<1>2. inbox' \in Seq(Message) /\ Len(inbox') <= MaxInbox /\ seen' \in 0..MaxInbox
  BY InboxKept
<1>3. UnusedCtx(db) # {} => NextCtx(db) \in 0..MaxCtx
  BY NextRow, BoundAssumption DEF Ctx, Base
<1>4. IdleRpc \in [pc : RpcPc, task : Task, handle : Handle, ctx : 0..MaxCtx]
  BY RowAssumption, BoundAssumption DEF AnyTask, AnyHandle, IdleRpc, RpcPc
<1> DEFINE Rest ==
        /\ checking' \in BOOLEAN
        /\ run' \in {"none", "running", "completed", "failed"}
        /\ rpc' \in [pc : RpcPc, task : Task, handle : Handle, ctx : 0..MaxCtx]
        /\ term' \in [Handle -> {"absent", "live", "exited"}]
        /\ agent' \in [Ctx -> {"none", "working", "raised", "reported", "gone"}]
<1> SUFFICES Rest
  BY <1>1, <1>2 DEF TypeOK
<1>5. CASE LoopStep(l)
  BY <1>0, <1>5 DEF LoopStep, ProcessMessage, MarkAsRead, ReblockGatedTask, SnapshotReadyTasks,
       GetAvailableTerminals, CreateTerminal, CreateTerminalFails, PickTask, StopPicking,
       ProbeWorktreeDrift, SendSucceeds, SendFails, CheckConvergence, Wake, EndRun, FinalStatus
<1>6. CASE CreateTasks \/ StartRun(l) \/ RunStop(l) \/ TaskUpdate \/ GateCreate \/ GateResolve
           \/ GateResolveAgain \/ CheckBegins \/ CheckReadsMessage \/ CheckMarksRead \/ Reset
  BY <1>0, <1>6 DEF CreateTasks, StartRun, RunStop, TaskUpdate, GateCreate, GateResolve,
       GateResolveAgain, CheckBegins, CheckReadsMessage, CheckMarksRead, Reset
<1>7. CASE RpcDispatch
  <2>1. PICK t \in Task, h \in Handle :
          \/ rpc' = [pc |-> "probing", task |-> t, handle |-> h, ctx |-> 0] /\ agent' = agent
          \/ rpc' = IdleRpc /\ agent' = agent
          \/ /\ rpc' = IdleRpc
             /\ \E a \in {"working", "gone"} : agent' = [agent EXCEPT ![NextCtx(db)] = a]
    BY <1>7 DEF RpcDispatch, LockForRpc, TasksIn
  <2> QED BY <1>0, <1>4, <1>7, <2>1, BoundAssumption DEF RpcDispatch, RpcPc
<1>8. CASE RpcAgentDetected
  <2>1. /\ agent' = agent
        /\ \/ rpc' = IdleRpc
           \/ /\ UnusedCtx(db) # {}
              /\ rpc' = [pc |-> "sending", task |-> rpc.task, handle |-> rpc.handle,
                         ctx |-> NextCtx(db)]
    BY <1>8 DEF RpcAgentDetected, LockForRpc
  <2> QED BY <1>0, <1>3, <1>4, <1>8, <2>1 DEF RpcAgentDetected, RpcPc
<1>9. CASE RpcNoAgent \/ RpcSendSucceeds \/ RpcSendFails
  BY <1>0, <1>4, <1>9 DEF RpcNoAgent, RpcSendSucceeds, RpcSendFails
<1>10. CASE WorkerStep
  BY <1>0, <1>10 DEF WorkerStep, TerminalExits, WorkerDone, WorkerEscalates, WorkerAsks
<1> QED
  BY <1>loop, <1>5, <1>6, <1>7, <1>8, <1>9, <1>10 DEF StepOf, CallerStep

LEMMA ReaderKept ==
    ASSUME Base, Next
    PROVE  Reader'
<1>loop. PICK l \in Loop : StepOf(l)
  BY SomeLoop
<1>0. /\ seen' <= Len(inbox') /\ seen \in Nat /\ Reader /\ TypeOK
      /\ \A v : Becomes(l, v) => co'[l] = v
  BY InboxKept, NewLocals DEF Base, TypeOK
<1>1. \A k \in Loop : k # l \/ CallerStep \/ WorkerStep => co'[k].pc = co[k].pc
  <2>1. \A k \in Loop : Keeps(k) => co'[k].pc = co[k].pc
    BY <1>0 DEF Keeps, TypeOK, Locals
  <2> QED BY <1>0, <1>loop, <2>1, OthersKept
<1>2. co[l] \in Locals
  BY <1>0 DEF TypeOK
<1>3. CASE ProcessMessage(l)
  <2>1. co[l].pc = "messages" /\ co'[l].pc = co[l].pc /\ checking' = checking
    BY <1>0, <1>2, <1>3 DEF ProcessMessage, Locals
  <2> QED BY <1>0, <1>1, <2>1 DEF Reader
<1>4. CASE MarkAsRead(l) \/ SnapshotReadyTasks(l)
  <2>1. /\ checking' = checking /\ co'[l].pc # "messages"
        /\ co[l].pc \in {"messages", "gates"}
        /\ seen' = 0 \/ (seen' = seen /\ co[l].pc # "messages")
    BY <1>0, <1>2, <1>4 DEF MarkAsRead, SnapshotReadyTasks, Locals
  <2> QED BY <1>0, <1>1, <2>1 DEF Reader
<1>5. CASE ReblockGatedTask(l)
  BY <1>0, <1>5 DEF ReblockGatedTask, Reader
<1>6. CASE CheckReadsMessage \/ CheckMarksRead
  BY <1>0, <1>1, <1>6 DEF Reader, CallerStep, CheckReadsMessage, CheckMarksRead
<1>7. CASE Yielded /\ seen' = 0 /\ checking' = checking
  BY <1>0, <1>7 DEF Reader, Yielded
<1>8. CASE CheckBegins
  BY <1>0, <1>8 DEF Reader, Yielded, CheckBegins
<1>9. Yielded => seen = 0
  BY <1>0 DEF Reader, Yielded
<1>10. CASE \/ GetAvailableTerminals(l) \/ CreateTerminal(l) \/ CreateTerminalFails(l)
            \/ PickTask(l) \/ StopPicking(l) \/ ProbeWorktreeDrift(l) \/ SendSucceeds(l)
            \/ SendFails(l) \/ CheckConvergence(l) \/ Wake(l) \/ StartRun(l) \/ RunStop(l)
  BY <1>7, <1>9, <1>10 DEF GetAvailableTerminals, CreateTerminal, CreateTerminalFails, PickTask,
     StopPicking, ProbeWorktreeDrift, SendSucceeds, SendFails, CheckConvergence, Wake,
     StartRun, RunStop
<1>11. CASE WorkerStep
  BY <1>7, <1>9, <1>11 DEF WorkerStep, TerminalExits, WorkerDone, WorkerEscalates, WorkerAsks
<1>12. CASE CallerStep
  BY <1>6, <1>7, <1>8, <1>9, <1>12 DEF CallerStep, CreateTasks, TaskUpdate, GateCreate,
     GateResolve, GateResolveAgain, RpcDispatch, RpcAgentDetected, RpcNoAgent, RpcSendSucceeds,
     RpcSendFails, Reset
<1> QED BY <1>loop, <1>3, <1>4, <1>5, <1>10, <1>11, <1>12 DEF StepOf, LoopStep

\* What a step does to the dispatch a loop is sending, and to the agents.
Locked(t, x) ==
    /\ UnusedCtx(db) # {} /\ x = NextCtx(db)
    /\ \E h \in Handle : CanDispatch(db, t, h) /\ db' = CreateDispatchContext(db, t, h, x)

SendingMove(l) ==
    co'[l].pc = "sending" =>
        \/ co[l].pc = "sending" /\ co'[l].task = co[l].task /\ co'[l].ctx = co[l].ctx
        \/ co'[l].task \in Task /\ Locked(co'[l].task, co'[l].ctx)

AgentMove(c) ==
    \/ agent'[c] = agent[c]
    \/ agent[c] # "none" /\ agent'[c] # "none"
    \/ \E l \in Loop : SendSucceeds(l) /\ c = co[l].ctx
    \/ RpcSendSucceeds /\ c = rpc.ctx
    \/ RpcDispatch /\ \E t \in Task : Locked(t, c)

LEMMA LockedRow ==
    ASSUME TypeOK, NEW t \in Task, NEW x, Locked(t, x)
    PROVE  x \in Ctx /\ db.cstat[x] = "unused" /\ db'.cstat[x] = "dispatched" /\ db'.ctask[x] = t
<1>1. PICK h \in Handle : CanDispatch(db, t, h) /\ db' = CreateDispatchContext(db, t, h, x)
  BY DEF Locked
<1>2. x \in Ctx /\ db.cstat[x] = "unused"
  BY NextRow DEF Locked
<1> QED BY <1>1, <1>2, CreateDispatchContextWrites DEF TypeOK

LEMMA LoopSending ==
    ASSUME Base, NEW l \in Loop, LoopStep(l) \/ StartRun(l) \/ RunStop(l)
    PROVE  SendingMove(l)
<1>0. /\ TypeOK /\ co[l] \in Locals
      /\ co \in [Loop -> Locals]
  BY DEF Base, TypeOK
<1>1. CASE PickTask(l)
  <2>1. PICK t \in co[l].ready, h \in co[l].terms :
          LET local == [co[l] EXCEPT !.ready = @ \ {t}, !.terms = @ \ {h}, !.slots = @ - 1,
                                  !.task = t, !.handle = h]
          IN  \/ co'[l] = [local EXCEPT !.pc = "probing"]
              \/ co'[l] = [local EXCEPT !.pc = "picking"]
              \/ /\ CanDispatch(db, t, h) /\ UnusedCtx(db) # {}
                 /\ db' = CreateDispatchContext(db, t, h, NextCtx(db))
                 /\ co'[l] = [local EXCEPT !.pc = "sending", !.ctx = NextCtx(db)]
    BY <1>0, <1>1 DEF Becomes, PickTask, LockTask
  <2>2. t \in Task /\ h \in Handle
    BY <1>0 DEF Locals
  <2>3. \/ co'[l].pc # "sending"
        \/ /\ co'[l].task = t /\ co'[l].ctx = NextCtx(db)
           /\ CanDispatch(db, t, h) /\ UnusedCtx(db) # {}
           /\ db' = CreateDispatchContext(db, t, h, NextCtx(db))
    BY <1>0, <2>1 DEF Locals
  <2> QED BY <2>2, <2>3 DEF SendingMove, Locked
<1>2. CASE ProbeWorktreeDrift(l)
  <2>1. co[l].task \in Task /\ co[l].handle \in Handle
    BY <1>0 DEF Locals
  <2> QED BY <1>0, <1>2, <2>1 DEF Becomes, Locals, ProbeWorktreeDrift, LockTask, SendingMove, Locked
<1>3. CASE LoopStep(l)
  <2>1. CASE ProcessMessage(l) \/ ReblockGatedTask(l)
    BY <1>0, <2>1 DEF Becomes, Locals, SendingMove, ProcessMessage, ReblockGatedTask
  <2>2. CASE \/ MarkAsRead(l) \/ SnapshotReadyTasks(l) \/ CreateTerminalFails(l) \/ StopPicking(l)
             \/ SendSucceeds(l) \/ SendFails(l)
    <3>1. co'[l].pc # "sending"
      <4>1. CASE SnapshotReadyTasks(l)
        BY <1>0, <4>1 DEF Becomes, Locals, SnapshotReadyTasks
      <4>2. CASE MarkAsRead(l) \/ CreateTerminalFails(l) \/ StopPicking(l) \/ SendSucceeds(l)
        BY <1>0, <4>2 DEF Becomes, Locals, MarkAsRead, CreateTerminalFails, StopPicking,
           SendSucceeds
      <4>3. CASE SendFails(l)
        BY <1>0, <4>3 DEF Becomes, Locals, SendFails
      <4> QED BY <2>2, <4>1, <4>2, <4>3
    <3> QED BY <3>1 DEF SendingMove
  <2>3. CASE GetAvailableTerminals(l) \/ CreateTerminal(l)
    <3>1. PICK hs : WithTerminals(l, hs)
      BY <2>3 DEF GetAvailableTerminals, CreateTerminal
    <3> QED BY <1>0, <3>1 DEF Becomes, Locals, SendingMove, WithTerminals
  <2>4. CASE CheckConvergence(l) \/ Wake(l)
    <3>1. \/ co'[l] = IdleLoop
          \/ co'[l] = [co[l] EXCEPT !.pc = "messages"]
          \/ co'[l] = [co[l] EXCEPT !.pc = "sleeping", !.ready = {}, !.terms = {}, !.slots = 0,
                              !.task = AnyTask, !.handle = AnyHandle, !.ctx = 0]
      BY <1>0, <2>4 DEF Becomes, CheckConvergence, Wake, EndRun
    <3>2. IdleLoop.pc = "off" /\ [co[l] EXCEPT !.pc = "messages"].pc = "messages"
      BY <1>0 DEF Becomes, Locals, IdleLoop
    <3>3. ASSUME NEW r, NEW hs, NEW n, NEW t, NEW h, NEW x
          PROVE  [co[l] EXCEPT !.pc = "sleeping", !.ready = r, !.terms = hs, !.slots = n,
                            !.task = t, !.handle = h, !.ctx = x].pc = "sleeping"
      BY <1>0 DEF Locals
    <3>4. [co[l] EXCEPT !.pc = "sleeping", !.ready = {}, !.terms = {}, !.slots = 0,
                     !.task = AnyTask, !.handle = AnyHandle, !.ctx = 0].pc = "sleeping"
      BY <3>3
    <3>5. co'[l].pc \in {"off", "messages", "sleeping"}
      BY <3>1, <3>2, <3>4
    <3> QED BY <3>5 DEF SendingMove
  <2> QED BY <1>1, <1>2, <1>3, <2>1, <2>2, <2>3, <2>4 DEF LoopStep
<1>4. CASE StartRun(l) \/ RunStop(l)
  <2>1. co' = co \/ co'[l].pc # "sending" \/ co'[l] = [co[l] EXCEPT !.stop = TRUE]
    BY <1>0, <1>4 DEF Becomes, StartRun, RunStop, IdleLoop
  <2> QED BY <1>0, <2>1 DEF Locals, SendingMove
<1> QED BY <1>3, <1>4

LEMMA NextSending ==
    ASSUME Base, Next, NEW k \in Loop
    PROVE  SendingMove(k)
<1>1. PICK l \in Loop : StepOf(l)
  BY SomeLoop
<1>2. TypeOK /\ co[k] \in Locals
  BY DEF Base, TypeOK
<1>3. CASE Keeps(k)
  BY <1>2, <1>3 DEF SendingMove, Keeps, Locals
<1>4. CASE ~Keeps(k)
  <2>1. k = l /\ (LoopStep(l) \/ StartRun(l) \/ RunStop(l))
    BY <1>1, <1>2, <1>4, OthersKept DEF StepOf
  <2> QED BY <2>1, LoopSending
<1> QED BY <1>3, <1>4

LEMMA NextAgent ==
    ASSUME Base, Next, NEW c \in Ctx
    PROVE  AgentMove(c)
<1>loop. PICK l \in Loop : StepOf(l)
  BY SomeLoop
<1>0. agent \in [Ctx -> {"none", "working", "raised", "reported", "gone"}]
  BY DEF Base, TypeOK
<1>1. CASE LoopStep(l)
  BY <1>0, <1>1 DEF AgentMove, LoopStep, ProcessMessage, MarkAsRead, ReblockGatedTask,
     SnapshotReadyTasks, GetAvailableTerminals, CreateTerminal, CreateTerminalFails, PickTask,
     StopPicking, ProbeWorktreeDrift, SendSucceeds, SendFails, CheckConvergence, Wake
<1>2. CASE RpcDispatch
  <2>1. \/ agent' = agent
        \/ \E t \in Task, h \in Handle :
             /\ CanDispatch(db, t, h) /\ UnusedCtx(db) # {}
             /\ db' = CreateDispatchContext(db, t, h, NextCtx(db))
             /\ \E a : agent' = [agent EXCEPT ![NextCtx(db)] = a]
    BY <1>2 DEF RpcDispatch, LockForRpc, TasksIn
  <2> QED BY <1>0, <1>2, <2>1 DEF AgentMove, Locked
<1>3. CASE WorkerStep
  BY <1>0, <1>3 DEF AgentMove, WorkerStep, TerminalExits, WorkerDone, WorkerEscalates,
     WorkerAsks, Reporting
<1>4. CASE RpcSendSucceeds
  BY <1>0, <1>4 DEF AgentMove, RpcSendSucceeds
<1>5. CASE RpcAgentDetected
  BY <1>5 DEF AgentMove, RpcAgentDetected, LockForRpc
<1>6. CASE UNCHANGED agent
  BY <1>6 DEF AgentMove
<1> QED BY <1>loop, <1>1, <1>2, <1>3, <1>4, <1>5, <1>6 DEF StepOf, CallerStep, CreateTasks, StartRun,
     RunStop, TaskUpdate, GateCreate, GateResolve, GateResolveAgain, RpcNoAgent, RpcSendFails,
     CheckBegins, CheckReadsMessage, CheckMarksRead, Reset

LEMMA RefsKept ==
    ASSUME Base, Next
    PROVE  Refs'
<1>loop. PICK l \in Loop : StepOf(l)
  BY SomeLoop
<1>0. /\ TypeOK /\ Refs /\ rpc \in [pc : RpcPc, task : Task, handle : Handle, ctx : 0..MaxCtx]
  BY DEF Base, TypeOK
<1>1. \A c \in Ctx : db.cstat[c] # "unused" => db'.cstat[c] # "unused"
  BY TablesKept DEF Ages
<1>2. ASSUME NEW t \in Task, NEW x, Locked(t, x)
      PROVE  x \in Ctx /\ db'.cstat[x] # "unused"
  BY <1>0, <1>2, LockedRow
<1>3. \A i \in 1..Len(inbox') : db'.tstat[inbox'[i].task] # "unused"
  BY InboxKept
<1>4. ASSUME NEW c \in Ctx, agent'[c] # "none"
      PROVE  db'.cstat[c] # "unused"
  BY <1>0, <1>1, <1>2, <1>4, NextAgent DEF AgentMove, Refs, SendSucceeds, RpcSendSucceeds
<1>5. \A k \in Loop : co'[k].pc = "sending" => co'[k].ctx \in Ctx /\ db'.cstat[co'[k].ctx] # "unused"
  BY <1>0, <1>1, <1>2, NextSending DEF SendingMove, Refs
<1>6. rpc'.pc = "sending" => rpc'.ctx \in Ctx /\ db'.cstat[rpc'.ctx] # "unused"
  <2>1. CASE RpcAgentDetected
    <3>1. CASE rpc' = IdleRpc
      BY <3>1 DEF IdleRpc
    <3>2. CASE rpc' # IdleRpc
      <4>1. /\ rpc'.ctx = NextCtx(db) /\ rpc.task \in Task /\ Locked(rpc.task, NextCtx(db))
        BY <1>0, <2>1, <3>2 DEF RpcAgentDetected, LockForRpc, Locked
      <4> QED BY <1>2, <4>1
    <3> QED BY <3>1, <3>2
  <2>2. CASE rpc' = rpc
    BY <1>0, <1>1, <2>2 DEF Refs
  <2>3. CASE rpc'.pc # "sending"
    BY <2>3
  <2>4. CASE RpcDispatch
    BY <2>3, <2>4 DEF RpcDispatch, LockForRpc, IdleRpc
  <2>5. CASE LoopStep(l) \/ WorkerStep
    BY <2>2, <2>5 DEF LoopStep, ProcessMessage, MarkAsRead, ReblockGatedTask,
     SnapshotReadyTasks, GetAvailableTerminals, CreateTerminal, CreateTerminalFails, PickTask,
     StopPicking, ProbeWorktreeDrift, SendSucceeds, SendFails, CheckConvergence, Wake,
     WorkerStep, TerminalExits, WorkerDone, WorkerEscalates, WorkerAsks
  <2> QED BY <1>loop, <2>1, <2>2, <2>3, <2>4, <2>5 DEF StepOf, CallerStep, CreateTasks, StartRun, RunStop,
     TaskUpdate, GateCreate, GateResolve, GateResolveAgain, RpcNoAgent, RpcSendSucceeds,
     RpcSendFails, CheckBegins, CheckReadsMessage, CheckMarksRead, Reset, IdleRpc
<1> QED BY <1>3, <1>4, <1>5, <1>6 DEF Refs

\* Posting, reading and gates: a gate row stays free for every gate asked for.
LEMMA SameGateRoom ==
    ASSUME TypeOK, GateRoom, UnusedGate(db') = UnusedGate(db), Unread' \subseteq Unread
    PROVE  GateRoom'
<1>1. Unread' \in SUBSET Unread
  OBVIOUS
<1>2. Cardinality(Unread') <= Cardinality(Unread)
  BY <1>1, FiniteRows, FS_Subset
<1>3. Cardinality(UnusedGate(db)') = Cardinality(UnusedGate(db))
  OBVIOUS
<1>4. Cardinality(Unread)' \in Nat
  BY <1>1, FiniteRows, FS_Subset, FS_CardinalityType
<1> QED BY <1>2, <1>3, <1>4, FiniteRows DEF GateRoom

LEMMA UnreadMove ==
    ASSUME Base, Next
    PROVE  \/ Unread' \subseteq Unread
           \/ GateRowLeft /\ Yielded /\ \E n : Unread' = Unread \cup {n}
<1>0. /\ inbox \in Seq(Message) /\ Len(inbox) \in Nat /\ seen \in Nat /\ seen' \in Nat
  BY InboxKept DEF Base, TypeOK
<1>1. CASE inbox' = inbox /\ seen' >= seen
  BY <1>0, <1>1 DEF Unread, Asked
<1>2. CASE inbox' = <<>>
  BY <1>2 DEF Unread, Asked
<1>3. CASE \E c \in Ctx, h \in Handle, type \in {"worker_done", "escalation", "decision_gate"} :
             /\ Yielded /\ seen' = seen
             /\ inbox' = Append(inbox, [type |-> type, from |-> h, task |-> db.ctask[c], ctx |-> c])
             /\ type = "decision_gate" => GateRowLeft
  <2>1. PICK c \in Ctx, h \in Handle, type \in {"worker_done", "escalation", "decision_gate"} :
          /\ Yielded /\ seen' = seen
          /\ inbox' = Append(inbox, [type |-> type, from |-> h, task |-> db.ctask[c], ctx |-> c])
          /\ type = "decision_gate" => GateRowLeft
    BY <1>3
  <2> DEFINE m == [type |-> type, from |-> h, task |-> db.ctask[c], ctx |-> c]
  <2>2. m \in Message /\ m.type = type
    BY BoundAssumption DEF Message, Ctx, Base, TypeOK, Tables
  <2> HIDE DEF m
  <2>3. /\ Len(inbox') = Len(inbox) + 1
        /\ \A i \in 1..Len(inbox') : inbox'[i] = IF i <= Len(inbox) THEN inbox[i] ELSE m
    BY <1>0, <2>1, <2>2 DEF m
  <2>4. \A i \in 1..Len(inbox') : i <= Len(inbox) \/ i = Len(inbox) + 1
    BY <1>0, <2>3
  <2>5. CASE type = "decision_gate"
    <3>1. Asked' = Asked \cup {Len(inbox) + 1}
      BY <1>0, <2>2, <2>3, <2>4, <2>5 DEF Asked
    <3>2. seen <= Len(inbox)
      BY DEF Base, Reader
    <3>3. Unread' = Unread \cup {Len(inbox) + 1}
      BY <1>0, <2>1, <3>1, <3>2 DEF Unread
    <3> QED BY <2>1, <2>5, <3>3
  <2>6. CASE type # "decision_gate"
    <3>1. Asked' = Asked
      BY <1>0, <2>2, <2>3, <2>4, <2>6 DEF Asked
    <3> QED BY <2>1, <3>1 DEF Unread
  <2> QED BY <2>5, <2>6
<1>4. InboxMove
  BY NextInbox
<1>5. CASE Reads \/ (inbox' = inbox /\ seen' = seen)
  <2>1. inbox' = inbox /\ seen' >= seen
    BY <1>0, <1>5 DEF Reads
  <2> QED BY <1>1, <2>1
<1>6. CASE /\ Yielded /\ seen' = seen
           /\ \E c \in Ctx, h \in Handle, type \in {"worker_done", "escalation", "decision_gate"} :
                /\ inbox' = Append(inbox, [type |-> type, from |-> h, task |-> db.ctask[c], ctx |-> c])
                /\ type = "decision_gate" => GateRowLeft
  BY <1>3, <1>6
<1> QED BY <1>2, <1>4, <1>5, <1>6 DEF InboxMove

LEMMA GateRoomKept ==
    ASSUME Base, Next
    PROVE  GateRoom'
<1>0. TypeOK /\ GateRoom /\ db \in Tables /\ seen \in Nat /\ Len(inbox) \in Nat
      /\ inbox \in Seq(Message)
  BY DEF Base, TypeOK
<1> DEFINE Same == UnusedGate(db') = UnusedGate(db)
<1>1. TablesMove
  BY NextTables
<1>2. CASE OpensGate(db, db') /\ (GateCreate \/ HandlesGate)
  <2>1. PICK g \in UnusedGate(db) : UnusedGate(db') = UnusedGate(db) \ {g}
    BY <1>0, <1>2, OpensOneGate
  <2>2. Cardinality(UnusedGate(db')) = Cardinality(UnusedGate(db)) - 1
    <3>1. IsFiniteSet(UnusedGate(db))
      BY <1>0, FiniteRows
    <3>2. Cardinality(UnusedGate(db) \ {g}) = Cardinality(UnusedGate(db)) - 1
      BY <2>1, <3>1, FS_RemoveElement
    <3> QED BY <2>1, <3>2
  <2>3. CASE GateCreate
    <3>1. seen = 0 /\ GateRowLeft
      BY <2>3 DEF GateCreate, Yielded, Base, Reader
    <3>2. Unread = Asked
      BY <1>0, <3>1 DEF Unread, Asked
    <3>3. Unread' = Unread
      BY <2>3 DEF GateCreate, Unread, Asked
    <3> QED BY <1>0, <2>2, <3>1, <3>2, <3>3, FiniteRows DEF GateRoom, GateRowLeft
  <2>4. CASE HandlesGate
    <3>1. inbox' = inbox
      <4>1. CASE (\E l \in Loop : ProcessMessage(l)) \/ CheckReadsMessage
        BY <4>1 DEF ProcessMessage, CheckReadsMessage
      <4> QED BY <1>0, <2>4, <4>1, NextInbox DEF HandlesGate, InboxMove, Reads
    <3>2. Unread' = Unread \ {seen + 1} /\ seen + 1 \in Unread
      BY <1>0, <2>4, <3>1 DEF HandlesGate, Unread, Asked
    <3>3. Cardinality(Unread') = Cardinality(Unread) - 1
      BY <1>0, <3>2, FiniteRows, FS_RemoveElement
    <3> QED BY <1>0, <2>2, <3>3, FiniteRows DEF GateRoom
  <2> QED BY <1>2, <2>3, <2>4
<1>3. CASE Same
  <2>1. CASE Unread' \subseteq Unread
    BY <1>0, <1>3, <2>1, SameGateRoom
  <2>2. CASE GateRowLeft /\ Yielded /\ \E n : Unread' = Unread \cup {n}
    <3>1. PICK n : Unread' = Unread \cup {n}
      BY <2>2
    <3>2. seen = 0
      BY <2>2 DEF Yielded, Base, Reader
    <3>3. Unread = Asked
      BY <1>0, <3>2 DEF Unread, Asked
    <3>4. Cardinality(Unread') <= Cardinality(Unread) + 1 /\ Cardinality(Unread') \in Nat
      <4> DEFINE U == Unread \cup {n}
      <4>1. IsFiniteSet(Unread) /\ Cardinality(Unread) \in Nat
        BY <1>0, FiniteRows
      <4>2. IsFiniteSet(U) /\ (Cardinality(U) = Cardinality(Unread) \/ Cardinality(U) = Cardinality(Unread) + 1)
        BY <4>1, FS_AddElement
      <4>3. Unread' = U
        BY <3>1
      <4> HIDE DEF U
      <4> QED BY <4>1, <4>2, <4>3
    <3> QED BY <1>0, <1>3, <2>2, <3>3, <3>4, FiniteRows DEF GateRoom, GateRowLeft
  <2> QED BY <2>1, <2>2, UnreadMove
<1>4. CASE Reblocks(db, db')
  <2>1. Edits(db, db', {"blocked"})
    BY <1>0, <1>4, ReblockWrites DEF Edits
  <2> QED BY <1>0, <1>3, <2>1, KeepsUnusedGates
<1> QED BY <1>0, <1>1, <1>2, <1>3, <1>4, KeepsUnusedGates DEF TablesMove

-----------------------------------------------------------------------------
(***************************************************************************)
(* Theorems that hold in every environment.                                *)
(***************************************************************************)
LEMMA BaseInit == Init => Base
<1> SUFFICES ASSUME Init PROVE Base
  OBVIOUS
<1>0. AnyTask \in Task /\ AnyHandle \in Handle
  BY RowAssumption DEF AnyTask, AnyHandle
<1>1. Good(db) /\ db \in Tables
  BY EmptyOrderly DEF Init, Orderly, Good
<1>2. Known(db) /\ TasksIn(db, "dispatched") = {}
  BY DEF Init, EmptyTables, Known, TasksIn
<1>3. inbox \in Seq(Message) /\ Len(inbox) = 0
  BY DEF Init
<1>4. co \in [Loop -> Locals] /\ \A l \in Loop : co[l].pc = "off"
  <2>1. IdleLoop \in Locals /\ IdleLoop.pc = "off"
    BY <1>0, BoundAssumption DEF IdleLoop, Locals, LoopPc
  <2> QED BY <2>1 DEF Init
<1>5. rpc \in [pc : RpcPc, task : Task, handle : Handle, ctx : 0..MaxCtx] /\ rpc.pc = "idle"
  BY <1>0, BoundAssumption DEF Init, IdleRpc, RpcPc
<1>6. TypeOK
  <2>1. /\ seen \in 0..MaxInbox /\ run \in {"none", "running", "completed", "failed"}
        /\ Len(inbox) <= MaxInbox
    BY <1>3, OptionAssumption DEF Init
  <2>3. checking \in BOOLEAN
    BY DEF Init
  <2>2. /\ term \in [Handle -> {"absent", "live", "exited"}]
        /\ agent \in [Ctx -> {"none", "working", "raised", "reported", "gone"}]
    BY DEF Init
  <2> QED BY <1>1, <1>3, <1>4, <1>5, <2>1, <2>2, <2>3 DEF TypeOK
<1>7. Reader /\ Refs
  BY <1>3, <1>4, <1>5 DEF Reader, Refs, Init
<1>8. GateRoom
  <2>1. Unread = {}
    BY <1>3 DEF Unread, Asked
  <2> QED BY <1>6, <2>1, FiniteRows, FS_EmptySet DEF GateRoom
<1>9. IsFiniteSet(TasksIn(db, "dispatched"))
  BY <1>2, FS_EmptySet
<1> QED BY <1>1, <1>2, <1>6, <1>7, <1>8, <1>9 DEF Base

LEMMA BaseStep ==
    ASSUME Base, [Next]_vars
    PROVE  Base'
<1>1. CASE Next
  BY <1>1, TypeKept, TablesKept, ReaderKept, RefsKept, GateRoomKept
     DEF Base, Good, Lock, Refer, Accounts, Known, ActiveCtx, HasCtx, HasTask, TasksIn
<1>2. CASE UNCHANGED vars
  BY <1>2 DEF vars, Base, TypeOK, Good, Lock, Refer, Accounts, Known, ActiveCtx, HasCtx, HasTask,
     TasksIn, Reader, Refs, GateRoom, Unread, Asked, UnusedGate
<1> QED BY <1>1, <1>2

\* The inductive invariant of every environment: typed state, well-kept tables, a reader
\* that nobody interrupts, ids that name rows, and room for the gates asked for.
THEOREM BaseInvariant == Spec => []Base
BY BaseInit, BaseStep, PTL DEF Spec

\* Every variable keeps its type, in every environment and for every bound.
THEOREM TypeCorrect == Spec => []TypeOK
<1>1. Base => TypeOK
  BY DEF Base
<1> QED BY <1>1, BaseInvariant, PTL

-----------------------------------------------------------------------------
(***************************************************************************)
(* Every step is one store method: the module implements the store.  The   *)
(* operators of the instance are those of OrchestrationDb.                 *)
(***************************************************************************)
LEMMA StoreTypes ==
    /\ Store!Ctx = Ctx /\ Store!Gate = Gate /\ Store!TaskStatus = TaskStatus
    /\ Store!EmptyTables = EmptyTables
    /\ \A d, c : Store!HasCtx(d, c) <=> HasCtx(d, c)
    /\ \A d, g : Store!HasGate(d, g) <=> HasGate(d, g)
    /\ \A d, t : Store!HasTask(d, t) <=> HasTask(d, t)
BY DEF Store!Ctx, Ctx, Store!Gate, Gate, Store!TaskStatus, TaskStatus, Store!EmptyTables,
       EmptyTables, Store!HasCtx, HasCtx, Store!HasGate, HasGate, Store!HasTask, HasTask,
       Store!DispatchStatus, DispatchStatus, Store!GateStatus, GateStatus

LEMMA StoreQueries ==
    ASSUME NEW d
    PROVE  /\ \A s : Store!TasksIn(d, s) = TasksIn(d, s)
           /\ Store!UnusedCtx(d) = UnusedCtx(d) /\ Store!UnusedGate(d) = UnusedGate(d)
           /\ \A t : Store!CtxOf(d, t) = CtxOf(d, t)
           /\ Store!ActiveCtx(d) = ActiveCtx(d)
           /\ \A t : Store!ActiveCtxOf(d, t) = ActiveCtxOf(d, t)
           /\ \A t, c : Store!IsLatestCtx(d, t, c) <=> IsLatestCtx(d, t, c)
           /\ \A t, h : Store!CanDispatch(d, t, h) <=> CanDispatch(d, t, h)
           /\ \A t : Store!PriorFailures(d, t) = PriorFailures(d, t)
<1>1. \A t : Store!CtxOf(d, t) = CtxOf(d, t)
  BY StoreTypes DEF Store!CtxOf, CtxOf
<1>2. Store!ActiveCtx(d) = ActiveCtx(d)
  BY StoreTypes DEF Store!ActiveCtx, ActiveCtx, Store!ActiveStatus, ActiveStatus
<1>3. /\ \A t, c : Store!IsLatestCtx(d, t, c) <=> IsLatestCtx(d, t, c)
      /\ \A t : Store!ActiveCtxOf(d, t) = ActiveCtxOf(d, t)
      /\ \A t, h : Store!CanDispatch(d, t, h) <=> CanDispatch(d, t, h)
  BY <1>1, <1>2 DEF Store!IsLatestCtx, IsLatestCtx, Store!ActiveCtxOf, ActiveCtxOf,
     Store!CanDispatch, CanDispatch, Store!ActiveCtxAt, ActiveCtxAt
<1>4. \A t : Store!PriorFailures(d, t) = PriorFailures(d, t)
  BY <1>1 DEF Store!PriorFailures, PriorFailures, Store!Max, Max
<1>5. /\ \A s : Store!TasksIn(d, s) = TasksIn(d, s)
      /\ Store!UnusedCtx(d) = UnusedCtx(d) /\ Store!UnusedGate(d) = UnusedGate(d)
  BY StoreTypes DEF Store!TasksIn, TasksIn, Store!UnusedCtx, UnusedCtx, Store!UnusedGate, UnusedGate
<1> QED BY <1>1, <1>2, <1>3, <1>4, <1>5

LEMMA StoreSetTask ==
    ASSUME NEW d, NEW t, NEW s
    PROVE  Store!SetTask(d, t, s) = SetTask(d, t, s)
BY StoreTypes DEF Store!SetTask, SetTask

LEMMA StoreCompleteActive ==
    ASSUME NEW d, NEW t
    PROVE  Store!CompleteActiveDispatchForTask(d, t) = CompleteActiveDispatchForTask(d, t)
<1>1. Store!Max(ActiveCtxOf(d, t)) = Max(ActiveCtxOf(d, t))
  BY DEF Store!Max, Max
<1>2. Store!ActiveCtxOf(d, t) = ActiveCtxOf(d, t)
  BY StoreQueries
<1> QED BY <1>1, <1>2 DEF Store!CompleteActiveDispatchForTask, CompleteActiveDispatchForTask

LEMMA StoreUpdateTaskStatus ==
    ASSUME NEW d, NEW t, NEW s
    PROVE  Store!UpdateTaskStatus(d, t, s) = UpdateTaskStatus(d, t, s)
<1>1. \A e : Store!Promotable(e, t) = Promotable(e, t)
  BY StoreQueries DEF Store!Promotable, Promotable
<1>2. \A e, P : Store!Promote(e, P) = Promote(e, P)
  BY DEF Store!Promote, Promote
<1> QED BY <1>1, <1>2, StoreSetTask, StoreCompleteActive DEF Store!UpdateTaskStatus, UpdateTaskStatus

LEMMA StoreMethods ==
    ASSUME NEW d
    PROVE  /\ \A t, D : Store!CreateTask(d, t, D) = CreateTask(d, t, D)
           /\ \A t, h, c : Store!CreateDispatchContext(d, t, h, c) = CreateDispatchContext(d, t, h, c)
           /\ \A c : Store!FailDispatch(d, c) = FailDispatch(d, c)
           /\ \A t, g : Store!CreateGate(d, t, g) = CreateGate(d, t, g)
           /\ \A g : Store!ResolveGate(d, g) = ResolveGate(d, g)
           /\ Store!ResetTasks(d) = ResetTasks(d)
<1>1. \A t, D : Store!CreateTask(d, t, D) = CreateTask(d, t, D)
  BY DEF Store!CreateTask, CreateTask
<1>2. \A t, h, c : Store!CreateDispatchContext(d, t, h, c) = CreateDispatchContext(d, t, h, c)
  <2>1. \A t, h, c : Store!InsertCtx(d, t, h, c) = InsertCtx(d, t, h, c)
    BY StoreQueries DEF Store!InsertCtx, InsertCtx
  <2> QED BY <2>1, StoreSetTask DEF Store!CreateDispatchContext, CreateDispatchContext
<1>3. \A c : Store!FailDispatch(d, c) = FailDispatch(d, c)
  <2>1. \A c : Store!FailCtx(d, c) = FailCtx(d, c)
    BY DEF Store!FailCtx, FailCtx
  <2> QED BY <2>1, StoreSetTask DEF Store!FailDispatch, FailDispatch
<1>4. \A t, g : Store!CreateGate(d, t, g) = CreateGate(d, t, g)
  <2>1. \A e, t, g : Store!InsertGate(e, t, g) = InsertGate(e, t, g)
    BY DEF Store!InsertGate, InsertGate
  <2> QED BY <2>1, StoreSetTask, StoreCompleteActive DEF Store!CreateGate, CreateGate
<1>5. \A g : Store!ResolveGate(d, g) = ResolveGate(d, g)
  <2>1. \A g, s : Store!CloseGate(d, g, s) = CloseGate(d, g, s)
    BY DEF Store!CloseGate, CloseGate
  <2> QED BY <2>1, StoreSetTask DEF Store!ResolveGate, ResolveGate
<1>6. Store!ResetTasks(d) = ResetTasks(d)
  BY DEF Store!ResetTasks, ResetTasks, Store!DeleteTasks, DeleteTasks, Store!DeleteCtxs,
     DeleteCtxs, Store!DeleteGates, DeleteGates, Store!DeleteRows, DeleteRows
<1> QED BY <1>1, <1>2, <1>3, <1>4, <1>5, <1>6

LEMMA InUseIsStoreStep ==
    ASSUME db \in Tables, InUse(db, db', ManualStatus \cup {"completed", "blocked"})
    PROVE  Store!Next
<1>1. CASE Inserts(db, db')
  BY <1>1, StoreQueries, StoreMethods DEF Inserts, Store!DoCreateDispatchContext, Store!Next
<1>2. CASE OpensGate(db, db')
  BY <1>2, StoreTypes, StoreQueries, StoreMethods DEF OpensGate, Store!DoCreateGate, Store!Next
<1>3. CASE Creates(db, db')
  BY <1>3, StoreQueries, StoreMethods DEF Creates, Store!DoCreateTask, Store!Next
<1>4. CASE Writes(db, db', ManualStatus \cup {"completed", "blocked"})
  BY <1>4, StoreTypes, StoreUpdateTaskStatus DEF Writes, Store!DoUpdateTaskStatus, Store!Next
<1>5. CASE Fails(db, db')
  <2>1. \A c \in Ctx : db.cfail[c] \in Nat
    BY DEF Tables
  <2> QED BY <1>5, <2>1, StoreTypes, StoreMethods DEF Fails, Store!DoFailDispatch, Store!Next
<1>6. CASE Resolves(db, db')
  BY <1>6, StoreTypes, StoreMethods DEF Resolves, Store!DoResolveGate, Store!Next
<1>7. CASE db' = ResetTasks(db)
  BY <1>7, StoreMethods DEF Store!DoResetTasks, Store!Next
<1> QED BY <1>1, <1>2, <1>3, <1>4, <1>5, <1>6, <1>7 DEF InUse, Edits

\* Whatever the coordinator, the RPC callers, the workers and the terminals do, the tables
\* go through store methods only, one at a time: what OrchestrationStoreProofs shows of the
\* store under any caller holds here.
THEOREM ImplementsStore == Spec => StoreSpec
<1>1. Init => Store!Init
  BY StoreTypes DEF Init, Store!Init
<1>2. Base /\ [Next]_vars => [Store!Next]_db
  <2> SUFFICES ASSUME Base, Next PROVE db' = db \/ Store!Next
    BY DEF vars
  <2>1. TablesMove /\ db \in Tables
    BY NextTables DEF Base, TypeOK
  <2>2. CASE Edits(db, db', Written)
    <3>1. InUse(db, db', ManualStatus \cup {"completed", "blocked"})
      BY <2>2 DEF InUse, Edits, Writes, Written
    <3> QED BY <2>1, <3>1, InUseIsStoreStep
  <2>3. CASE Reblocks(db, db')
    <3>1. Writes(db, db', ManualStatus \cup {"completed", "blocked"})
      BY <2>1, <2>3, ReblockWrites DEF Writes
    <3> QED BY <2>1, <3>1, InUseIsStoreStep DEF InUse, Edits
  <2> QED BY <2>1, <2>2, <2>3, InUseIsStoreStep DEF TablesMove, InUse
<1> QED BY <1>1, <1>2, BaseInvariant, PTL DEF Spec, StoreSpec, Store!Spec

-----------------------------------------------------------------------------
(***************************************************************************)
(* Completion authority.                                                   *)
(***************************************************************************)
LEMMA OneMessageAtATime ==
    ASSUME Base, Next, seen' = seen + 1
    PROVE  (\E l \in Loop : ProcessMessage(l)) \/ CheckReadsMessage
<1>loop. PICK l \in Loop : StepOf(l)
  BY SomeLoop
<1>0. seen \in Nat
  BY DEF Base, TypeOK
<1>1. CASE LoopStep(l)
  <2>1. CASE MarkAsRead(l) \/ Wake(l)
    BY <1>0, <2>1 DEF MarkAsRead, Wake
  <2>2. CASE seen' = seen
    BY <1>0, <2>2
  <2> QED BY <1>1, <2>1, <2>2 DEF LoopStep, ReblockGatedTask, SnapshotReadyTasks,
     GetAvailableTerminals, CreateTerminal, CreateTerminalFails, PickTask, StopPicking,
     ProbeWorktreeDrift, SendSucceeds, SendFails, CheckConvergence
<1>2. CASE CallerStep \/ StartRun(l) \/ RunStop(l)
  BY <1>0, <1>2 DEF CallerStep, CreateTasks, StartRun, RunStop, TaskUpdate, GateCreate, GateResolve,
     GateResolveAgain, RpcDispatch, RpcAgentDetected, RpcNoAgent, RpcSendSucceeds, RpcSendFails,
     CheckBegins, CheckMarksRead, Reset
<1>3. CASE WorkerStep
  BY <1>0, <1>3 DEF WorkerStep, TerminalExits, WorkerDone, WorkerEscalates, WorkerAsks
<1> QED BY <1>loop, <1>1, <1>2, <1>3 DEF StepOf

\* An accepted worker_done completes the dispatch it names, and no other.
LEMMA ReconcileNamed ==
    ASSUME NEW d \in Tables, NEW m \in Message, NEW c \in Ctx,
           ReconcileWorkerDone(d, m).cstat[c] # d.cstat[c]
    PROVE  AcceptsDone(d, m) /\ m.ctx = c /\ m.from = d.cwho[c]
<1> DEFINE e == UpdateTaskStatus(d, m.task, "completed")
<1>1. AcceptsDone(d, m) /\ e.cstat[c] # d.cstat[c]
  BY DEF ReconcileWorkerDone
<1>2. m.task \in Task /\ IsLatestCtx(d, m.task, m.ctx) /\ d.cwho[m.ctx] = m.from
      /\ d.cstat[m.ctx] = "dispatched"
  BY <1>1 DEF AcceptsDone, Message
<1>3. m.ctx \in ActiveCtx(d)
  BY <1>2 DEF IsLatestCtx, CtxOf, ActiveCtx, ActiveStatus
<1>4. Max(ActiveCtxOf(d, m.task)) = m.ctx
  BY <1>2, <1>3, LatestActiveIsMax
<1>5. e.cstat[c] = IF c \in ActiveCtxOf(d, m.task) /\ c = Max(ActiveCtxOf(d, m.task))
                   THEN "completed" ELSE d.cstat[c]
  <2>1. "completed" \in TaskStatus
    BY DEF TaskStatus
  <2> QED BY <1>2, <2>1, UpdateTaskStatusWrites
<1> HIDE DEF e
<1>6. c = m.ctx
  BY <1>1, <1>4, <1>5
<1> QED BY <1>1, <1>2, <1>6

\* However messages are misrouted, read twice or raced by other writers, a worker_done
\* closes only the dispatch row it names, and only its assignee's does.
THEOREM CompletionAuthority == Spec => OnlyNamedDispatchCompletes
<1> DEFINE A == \A c \in Ctx :
                  (/\ seen' = seen + 1
                   /\ inbox[seen + 1].type = "worker_done"
                   /\ db'.cstat[c] # db.cstat[c])
                  => inbox[seen + 1].ctx = c /\ inbox[seen + 1].from = db.cwho[c]
<1>1. Base /\ [Next]_vars => [A]_vars
  <2> SUFFICES ASSUME Base, Next, NEW c \in Ctx, seen' = seen + 1,
                      inbox[seen + 1].type = "worker_done", db'.cstat[c] # db.cstat[c]
               PROVE  inbox[seen + 1].ctx = c /\ inbox[seen + 1].from = db.cwho[c]
    OBVIOUS
  <2>1. (\E l \in Loop : ProcessMessage(l)) \/ CheckReadsMessage
    BY OneMessageAtATime
  <2>2. seen \in Nat /\ Len(inbox) \in Nat /\ seen < Len(inbox) /\ db \in Tables
    <3>1. seen < Len(inbox)
      BY <2>1 DEF ProcessMessage, CheckReadsMessage
    <3> QED BY <3>1 DEF Base, TypeOK
  <2> DEFINE m == inbox[seen + 1]
  <2>3. m \in Message
    BY <2>2, MessageTypes DEF Base
  <2>4. db' = ReconcileWorkerDone(db, m)
    <3>1. CASE \E l \in Loop : ProcessMessage(l)
      <4>1. db' = HandleMessage(db, m) /\ m.type = "worker_done"
        BY <3>1 DEF ProcessMessage
      <4> HIDE DEF m
      <4> QED BY <4>1 DEF HandleMessage
    <3>2. CASE CheckReadsMessage
      BY <3>2 DEF CheckReadsMessage
    <3> QED BY <2>1, <3>1, <3>2
  <2> HIDE DEF m
  <2>5. m.ctx = c /\ m.from = db.cwho[c]
    BY <2>2, <2>3, <2>4, ReconcileNamed
  <2> QED BY <2>5 DEF m
<1> QED BY <1>1, BaseInvariant, PTL DEF Spec, OnlyNamedDispatchCompletes

-----------------------------------------------------------------------------
(***************************************************************************)
(* A status that waits for somebody has that somebody.                     *)
(***************************************************************************)

\* task-update writes a status that is another method's to write.
Reserved == "manual" \in Env /\ ManualStatus \cap {"dispatched", "blocked"} # {}

\* A task that the loop blocks again has the pending gate it is blocked for.
LEMMA ReblockHeld ==
    ASSUME db \in Tables, Held(db), Reblocks(db, db')
    PROVE  Held(db')
<1>1. PICK g \in UnheldGates(db) : db' = UpdateTaskStatus(db, db.gtask[g], "blocked")
  BY DEF Reblocks
<1>2. g \in Gate /\ db.gstat[g] = "pending" /\ db.gtask[g] \in Task
  BY DEF UnheldGates, Tables
<1>3. /\ SameGates(db, db')
      /\ \A u \in Task : db'.tstat[u] = "blocked" => u = db.gtask[g] \/ db.tstat[u] = "blocked"
  <2>1. "blocked" \in TaskStatus
    BY DEF TaskStatus
  <2> QED BY <1>1, <1>2, <2>1, UpdateTaskStatusWrites
<1> QED BY <1>2, <1>3 DEF Held, SameGates

LEMMA BackedStep ==
    ASSUME ~Reserved, Base, Tracked(db), Held(db), Next
    PROVE  Tracked(db') /\ Held(db')
<1>1. TablesMove /\ db \in Tables
  BY NextTables DEF Base, TypeOK
<1>2. "dispatched" \notin Written \cup {"blocked"} /\ "blocked" \notin Written
  BY DEF Reserved, Written
<1>3. Tracked(db')
  BY <1>1, <1>2, MoveIsMethod, MethodTracked
<1>4. Held(db')
  BY <1>1, <1>2, ReblockHeld, MethodHeld DEF TablesMove, InUse
<1> QED BY <1>3, <1>4

\* No task is left waiting for nobody: whatever retries, gates, exits, resets and races
\* with the RPC methods happen, as long as task-update is not used to write the two
\* statuses that only createDispatchContext and createGate back with a row.
THEOREM NobodyWaitsForNobody ==
    ASSUME ~Reserved
    PROVE  Spec => []StatusIsBacked
<1>1. Init => Tracked(db) /\ Held(db)
  <2> SUFFICES ASSUME Init PROVE Tracked(db) /\ Held(db)
    OBVIOUS
  <2>1. Tracked(db)
    BY EmptyOrderly DEF Init, Orderly, Good, Tracked, WorkedOn, EmptyTables
  <2>2. Held(db)
    BY DEF Init, Held, EmptyTables
  <2> QED BY <2>1, <2>2
<1>2. Base /\ Tracked(db) /\ Held(db) /\ [Next]_vars => Tracked(db)' /\ Held(db)'
  <2> SUFFICES ASSUME Base, Tracked(db), Held(db), [Next]_vars PROVE Tracked(db') /\ Held(db')
    BY DEF Tracked, InOrder, WorkedOn, ActiveCtxOf, ActiveCtx, IsLatestCtx, CtxOf, HasCtx, Held
  <2>1. CASE Next
    BY <2>1, BackedStep
  <2>2. CASE UNCHANGED vars
    BY <2>2 DEF vars
  <2> QED BY <2>1, <2>2
<1>3. Tracked(db) /\ Held(db) => StatusIsBacked
  <2> SUFFICES ASSUME Tracked(db), Held(db) PROVE StatusIsBacked
    OBVIOUS
  <2>1. \A t \in TasksIn(db, "dispatched") : \E c \in ActiveCtxOf(db, t) : IsLatestCtx(db, t, c)
    BY DEF Tracked, WorkedOn, TasksIn
  <2>2. DispatchedHasLatestActive
    BY <2>1, StoreQueries DEF DispatchedHasLatestActive, Store!DispatchedHasLatestActive
  <2>3. \A t \in TasksIn(db, "blocked") :
           \E g \in Gate : db.gstat[g] = "pending" /\ db.gtask[g] = t
    BY DEF Held, TasksIn
  <2> QED BY <2>2, <2>3 DEF StatusIsBacked
<1> QED BY <1>1, <1>2, <1>3, BaseInvariant, PTL DEF Spec

-----------------------------------------------------------------------------
(***************************************************************************)
(* Without resets there is one loop at a time: it holds the running row,   *)
(* and orchestration.run refuses to start another beside it.               *)
(***************************************************************************)
Single ==
    /\ run # "running" => \A l \in Loop : co[l].pc = "off"
    /\ \A l, k \in Loop : co[l].pc # "off" /\ co[k].pc # "off" => l = k

\* Becoming a loop that is not running, and staying what it was.
LEMMA OffIsIdle ==
    ASSUME TypeOK, NEW l \in Loop, EndRun(l)
    PROVE  co'[l].pc = "off" /\ \A k \in Loop : k # l => co'[k] = co[k]
BY DEF TypeOK, EndRun, Becomes, IdleLoop

\* Only a start makes a loop of what was none, and only the end of a loop or a start
\* changes the run.
LEMMA LoopPcs ==
    ASSUME "reset" \notin Env, TypeOK, NEW l \in Loop, StepOf(l)
    PROVE  /\ \A k \in Loop : k # l => co'[k].pc = co[k].pc
           /\ \/ StartRun(l)
              \/ co[l].pc # "off" /\ LoopStep(l) /\ (run' = run \/ (EndRun(l) /\ db' = db))
              \/ ~LoopStep(l) /\ run' = run /\ co'[l].pc = co[l].pc
<1>0. co[l] \in Locals /\ \A k \in Loop : Keeps(k) => co'[k].pc = co[k].pc
  BY DEF TypeOK, Keeps, Locals
<1>1. \A k \in Loop : k # l => co'[k].pc = co[k].pc
  BY <1>0, OthersKept
<1>2. CASE LoopStep(l)
  <2>1. co[l].pc # "off"
    BY <1>2 DEF LoopStep, ProcessMessage, MarkAsRead, ReblockGatedTask, SnapshotReadyTasks,
       GetAvailableTerminals, CreateTerminal, CreateTerminalFails, PickTask, StopPicking,
       ProbeWorktreeDrift, SendSucceeds, SendFails, CheckConvergence, Wake
  <2>2. run' = run \/ (EndRun(l) /\ db' = db)
    <3>1. CASE CheckConvergence(l) \/ Wake(l)
      BY <3>1 DEF CheckConvergence, Wake
    <3>2. CASE run' = run
      BY <3>2
    <3> QED BY <1>2, <3>1, <3>2 DEF LoopStep, ProcessMessage, MarkAsRead, ReblockGatedTask,
       SnapshotReadyTasks, GetAvailableTerminals, CreateTerminal, CreateTerminalFails, PickTask,
       StopPicking, ProbeWorktreeDrift, SendSucceeds, SendFails
  <2> QED BY <1>1, <1>2, <2>1, <2>2
<1>3. CASE ~LoopStep(l) /\ RunStop(l)
  <2>1. run' = run /\ co'[l] = [co[l] EXCEPT !.stop = TRUE]
    BY <1>3, NewLocals DEF RunStop
  <2> QED BY <1>0, <1>1, <1>3, <2>1 DEF Locals
<1>4. CASE ~LoopStep(l) /\ (CallerStep \/ WorkerStep)
  <2>1. run' = run
    BY <1>4 DEF CallerStep, CreateTasks, TaskUpdate, GateCreate, GateResolve,
       GateResolveAgain, RpcDispatch, RpcAgentDetected, RpcNoAgent, RpcSendSucceeds, RpcSendFails,
       CheckBegins, CheckReadsMessage, CheckMarksRead, Reset, WorkerStep, TerminalExits,
       WorkerDone, WorkerEscalates, WorkerAsks
  <2> QED BY <1>0, <1>1, <1>4, <2>1, OthersKept
<1> QED BY <1>1, <1>2, <1>3, <1>4 DEF StepOf

LEMMA SingleStep ==
    ASSUME "reset" \notin Env, TypeOK, Single, Next
    PROVE  Single'
<1>1. PICK l \in Loop : StepOf(l)
  BY SomeLoop
<1>2. /\ \A k \in Loop : k # l => co'[k].pc = co[k].pc
      /\ \/ StartRun(l)
         \/ co[l].pc # "off" /\ LoopStep(l) /\ (run' = run \/ (EndRun(l) /\ db' = db))
         \/ ~LoopStep(l) /\ run' = run /\ co'[l].pc = co[l].pc
  BY <1>1, LoopPcs
<1>3. CASE StartRun(l)
  <2>1. /\ \A k \in Loop : co[k].pc = "off"
        /\ run' = "running" \/ co' = co
    BY <1>3 DEF StartRun, Single
  <2>2. \A k \in Loop : k # l => co'[k].pc = "off"
    BY <1>2, <2>1
  <2>3. CASE co' = co
    BY <2>1, <2>3 DEF Single
  <2> QED BY <2>1, <2>2, <2>3 DEF Single
<1>4. CASE co[l].pc # "off" /\ (run' = run \/ EndRun(l))
  <2>1. run = "running" /\ \A k \in Loop : k # l => co[k].pc = "off"
    BY <1>4 DEF Single
  <2>2. \A k \in Loop : k # l => co'[k].pc = "off"
    BY <1>2, <2>1
  <2>3. run' = "running" \/ co'[l].pc = "off"
    BY <1>4, <2>1, OffIsIdle
  <2> QED BY <2>2, <2>3 DEF Single
<1>5. CASE run' = run /\ co'[l].pc = co[l].pc
  BY <1>2, <1>5 DEF Single
<1> QED BY <1>2, <1>3, <1>4, <1>5

LEMMA SingleInvariant ==
    ASSUME "reset" \notin Env
    PROVE  Spec => []Single
<1>1. Init => Single
  BY DEF Init, Single, IdleLoop
<1>2. Base /\ Single /\ [Next]_vars => Single'
  <2> SUFFICES ASSUME Base, Single, [Next]_vars PROVE Single'
    OBVIOUS
  <2>1. CASE Next
    BY <2>1, SingleStep DEF Base
  <2>2. CASE UNCHANGED vars
    BY <2>2 DEF vars, Single
  <2> QED BY <2>1, <2>2
<1> QED BY <1>1, <1>2, BaseInvariant, PTL DEF Spec

-----------------------------------------------------------------------------
(***************************************************************************)
(* maxConcurrent.                                                          *)
(***************************************************************************)

\* A loop still has the slots it counted, and one more for the task it is probing for.
\* One that is not running has none.
SlotsOf(l) ==
    /\ co[l].slots \in Nat
    /\ co[l].pc = "off" => co[l].slots = 0
    /\ co[l].pc = "probing" => Cardinality(TasksIn(db, "dispatched")) + co[l].slots < MaxConcurrent
    /\ Cardinality(TasksIn(db, "dispatched")) + co[l].slots <= MaxConcurrent

SlotsLeft == rpc.pc = "idle" /\ \A l \in Loop : SlotsOf(l)

LEMMA RpcIdle ==
    ASSUME "rpc" \notin Env, Next, rpc.pc = "idle"
    PROVE  rpc'.pc = "idle" /\ ~RpcDispatch /\ ~RpcAgentDetected /\ ~RpcSendSucceeds /\ ~RpcSendFails
<1>1. ~RpcDispatch /\ ~RpcAgentDetected /\ ~RpcNoAgent /\ ~RpcSendSucceeds /\ ~RpcSendFails
  BY DEF RpcDispatch, RpcAgentDetected, RpcNoAgent, RpcSendSucceeds, RpcSendFails
<1>2. UNCHANGED rpc
  <2>1. PICK l \in Loop : StepOf(l)
    BY SomeLoop
  <2> QED BY <1>1, <2>1 DEF StepOf, LoopStep, ProcessMessage, MarkAsRead, ReblockGatedTask,
     SnapshotReadyTasks, GetAvailableTerminals, CreateTerminal, CreateTerminalFails, PickTask,
     StopPicking, ProbeWorktreeDrift, SendSucceeds, SendFails, CheckConvergence, Wake,
     CallerStep, CreateTasks, StartRun, RunStop, TaskUpdate, GateCreate, GateResolve,
     GateResolveAgain, CheckBegins, CheckReadsMessage, CheckMarksRead, Reset,
     WorkerStep, TerminalExits, WorkerDone, WorkerEscalates, WorkerAsks
<1> QED BY <1>1, <1>2

\* What a step does to a loop's count of free slots.
SlotMove(l) ==
    \/ /\ co'[l].slots = co[l].slots /\ (co'[l].pc = "probing" => co[l].pc = "probing")
       /\ co'[l].pc = "off" => co[l].pc = "off"
    \/ co'[l].slots = 0 /\ co'[l].pc # "probing"
    \/ SnapshotReadyTasks(l) /\ co'[l].slots = FreeSlots(db) /\ co'[l].slots > 0 /\ co'[l].pc = "listing"

LEMMA NextSlots ==
    ASSUME Base, NEW l \in Loop, StepOf(l), ~PickTask(l), ~ProbeWorktreeDrift(l)
    PROVE  SlotMove(l)
<1>0. co[l] \in Locals /\ co \in [Loop -> Locals]
  BY DEF Base, TypeOK, Locals
<1>1. CASE LoopStep(l)
  <2>1. CASE \/ ProcessMessage(l) \/ ReblockGatedTask(l)
             \/ MarkAsRead(l) \/ CreateTerminalFails(l) \/ StopPicking(l) \/ SendSucceeds(l) \/ SendFails(l)
    <3>1. CASE ProcessMessage(l) \/ ReblockGatedTask(l)
      BY <1>0, <3>1 DEF Becomes, Locals, SlotMove, ProcessMessage, ReblockGatedTask
    <3>2. CASE MarkAsRead(l) \/ CreateTerminalFails(l) \/ StopPicking(l) \/ SendSucceeds(l)
      BY <1>0, <3>2 DEF Becomes, Locals, SlotMove, MarkAsRead, CreateTerminalFails, StopPicking,
         SendSucceeds
    <3>3. CASE SendFails(l)
      BY <1>0, <3>3 DEF Becomes, Locals, SlotMove, SendFails
    <3> QED BY <2>1, <3>1, <3>2, <3>3
  <2>2. CASE SnapshotReadyTasks(l)
    <3>1. FreeSlots(db) \in Int
      BY OptionAssumption, FS_CardinalityType DEF Base, FreeSlots
    <3>2. \/ co'[l] = [co[l] EXCEPT !.pc = "converging"]
          \/ /\ FreeSlots(db) > 0
             /\ co'[l] = [co[l] EXCEPT !.pc = "listing", !.ready = TasksIn(db, "ready"),
                                 !.slots = FreeSlots(db)]
      BY <1>0, <2>2, <3>1 DEF Becomes, SnapshotReadyTasks
    <3> QED BY <1>0, <2>2, <3>2 DEF Becomes, Locals, SlotMove
  <2>3. CASE GetAvailableTerminals(l) \/ CreateTerminal(l)
    <3>1. PICK hs : WithTerminals(l, hs)
      BY <2>3 DEF GetAvailableTerminals, CreateTerminal
    <3> QED BY <1>0, <3>1 DEF Becomes, Locals, SlotMove, WithTerminals
  <2>4. CASE CheckConvergence(l) \/ Wake(l)
    <3>1. \/ co'[l] = IdleLoop
          \/ co'[l] = [co[l] EXCEPT !.pc = "messages"]
          \/ co'[l] = [co[l] EXCEPT !.pc = "sleeping", !.ready = {}, !.terms = {}, !.slots = 0,
                              !.task = AnyTask, !.handle = AnyHandle, !.ctx = 0]
      BY <1>0, <2>4 DEF Becomes, CheckConvergence, Wake, EndRun
    <3>2. CASE co'[l] = IdleLoop \/ co'[l] = [co[l] EXCEPT !.pc = "messages"]
      BY <1>0, <3>2 DEF Locals, IdleLoop, SlotMove
    <3>3. ASSUME NEW r, NEW hs, NEW n, NEW t, NEW h, NEW x
          PROVE  LET v == [co[l] EXCEPT !.pc = "sleeping", !.ready = r, !.terms = hs, !.slots = n,
                                     !.task = t, !.handle = h, !.ctx = x]
                 IN  v.pc = "sleeping" /\ v.slots = n
      BY <1>0 DEF Locals
    <3>4. LET v == [co[l] EXCEPT !.pc = "sleeping", !.ready = {}, !.terms = {}, !.slots = 0,
                              !.task = AnyTask, !.handle = AnyHandle, !.ctx = 0]
          IN  v.pc = "sleeping" /\ v.slots = 0
      BY <3>3
    <3> QED BY <3>1, <3>2, <3>4 DEF SlotMove
  <2> QED BY <1>1, <2>1, <2>2, <2>3, <2>4 DEF LoopStep
<1>2. CASE StartRun(l) \/ RunStop(l)
  <2>1. \/ co' = co
        \/ co'[l] = [IdleLoop EXCEPT !.pc = "messages", !.recorded = TRUE]
        \/ co'[l] = [co[l] EXCEPT !.stop = TRUE]
    BY <1>0, <1>2 DEF Becomes, StartRun, RunStop
  <2> QED BY <1>0, <2>1 DEF Locals, SlotMove, IdleLoop
<1>3. CASE CallerStep \/ WorkerStep
  <2>1. Keeps(l)
    BY <1>3, OthersKept DEF Base
  <2> QED BY <1>0, <2>1 DEF Keeps, Locals, SlotMove
<1> QED BY <1>1, <1>2, <1>3 DEF StepOf

\* PickTask takes a slot before it dispatches or probes; the answer to a probe takes none.
LEMMA PickSlots ==
    ASSUME Base, NEW l \in Loop, PickTask(l)
    PROVE  /\ co[l].slots > 0 /\ co'[l].slots = co[l].slots - 1
           /\ co'[l].pc # "off" /\ (db' = db \/ co'[l].pc # "probing")
<1>0. co[l] \in Locals /\ co \in [Loop -> Locals]
  BY DEF Base, TypeOK, Locals
<1>1. PICK t \in co[l].ready, h \in co[l].terms :
        LET local == [co[l] EXCEPT !.ready = @ \ {t}, !.terms = @ \ {h}, !.slots = @ - 1,
                                !.task = t, !.handle = h]
        IN  \/ co'[l] = [local EXCEPT !.pc = "probing"] /\ db' = db
            \/ co'[l] = [local EXCEPT !.pc = "picking"]
            \/ co'[l] = [local EXCEPT !.pc = "sending", !.ctx = NextCtx(db)]
  BY <1>0 DEF Becomes, PickTask, LockTask
<1> QED BY <1>0, <1>1 DEF Locals, PickTask

LEMMA ProbeSlots ==
    ASSUME Base, NEW l \in Loop, ProbeWorktreeDrift(l)
    PROVE  co[l].pc = "probing" /\ co'[l].slots = co[l].slots /\ co'[l].pc \notin {"off", "probing"}
<1>0. co[l] \in Locals /\ co \in [Loop -> Locals]
  BY DEF Base, TypeOK, Locals
<1>1. \/ co'[l] = [co[l] EXCEPT !.pc = "sending", !.ctx = NextCtx(db)]
      \/ co'[l] = [co[l] EXCEPT !.pc = "picking"]
  BY <1>0 DEF Becomes, ProbeWorktreeDrift, LockTask
<1> QED BY <1>0, <1>1 DEF Locals, ProbeWorktreeDrift

LEMMA SlotsStep ==
    ASSUME Env \cap {"rpc", "reset"} = {}, "dispatched" \notin Written, Base, Single, SlotsLeft,
           Next
    PROVE  SlotsLeft'
<1> DEFINE Picks(l) == PickTask(l) \/ ProbeWorktreeDrift(l)
           n == Cardinality(TasksIn(db, "dispatched"))
           m == Cardinality(TasksIn(db', "dispatched"))
<1>1. PICK l \in Loop : StepOf(l) /\ ((\E k \in Loop : Picks(k)) => Picks(l))
  <2>1. ASSUME NEW k \in Loop, Picks(k) PROVE StepOf(k)
    BY <2>1 DEF StepOf, LoopStep
  <2> HIDE DEF Picks
  <2> QED BY <2>1, SomeLoop
<1>2. /\ TypeOK /\ TablesMove /\ db \in Tables /\ MaxConcurrent \in Nat /\ n \in Nat
      /\ IsFiniteSet(TasksIn(db, "dispatched")) /\ \A k \in Loop : SlotsOf(k)
  BY NextTables, OptionAssumption, FS_CardinalityType DEF Base, TypeOK, SlotsLeft
<1>3. rpc'.pc = "idle" /\ ~RpcDispatch /\ ~RpcAgentDetected
  BY RpcIdle DEF SlotsLeft
<1>4. m \in Nat
  BY TablesKept, FS_CardinalityType
<1>5. m <= n \/ (Inserts(db, db') /\ Picks(l))
  <2>1. CASE TasksIn(db', "dispatched") \subseteq TasksIn(db, "dispatched")
    <3>1. TasksIn(db', "dispatched") \in SUBSET TasksIn(db, "dispatched")
      BY <2>1
    <3> QED BY <1>2, <3>1, FS_Subset
  <2>2. CASE OpensGate(db, db') \/ Edits(db, db', Written) \/ Reblocks(db, db')
    <3>1. Updates(db, db', Written \cup {"blocked"})
      BY <1>2, <2>2, ReblockWrites DEF Updates, Edits, Writes
    <3> QED BY <1>2, <2>1, <3>1, UpdatesDispatchNothing
  <2> QED BY <1>1, <1>2, <1>3, <2>1, <2>2 DEF TablesMove
<1>6. m <= n + 1
  <2>1. CASE Inserts(db, db')
    <3>1. PICK t \in Task : TasksIn(db', "dispatched") = TasksIn(db, "dispatched") \cup {t}
      BY <1>2, <2>1, InsertDispatchesOne
    <3>2. Cardinality(TasksIn(db, "dispatched") \cup {t}) \in {n, n + 1}
      BY <1>2, FS_AddElement
    <3>3. m \in {n, n + 1}
      BY <3>1, <3>2, Zenon
    <3> HIDE DEF n, m
    <3> QED BY <1>2, <3>3
  <2>2. CASE m <= n
    <3> HIDE DEF n, m
    <3> QED BY <1>2, <1>4, <2>2
  <2> QED BY <1>5, <2>1, <2>2
\* The step of a loop keeps its own count.
<1>7. SlotsOf(l)'
  <2>1. CASE PickTask(l)
    <3>1. /\ co[l].slots > 0 /\ co'[l].slots = co[l].slots - 1
          /\ co'[l].pc # "off" /\ (db' = db \/ co'[l].pc # "probing")
      BY <1>2, <2>1, PickSlots
    <3>2. db' = db => m = n
      OBVIOUS
    <3> QED BY <1>2, <1>4, <1>6, <3>1, <3>2 DEF SlotsOf
  <2>2. CASE ProbeWorktreeDrift(l)
    <3>1. co[l].pc = "probing" /\ co'[l].slots = co[l].slots /\ co'[l].pc \notin {"off", "probing"}
      BY <1>2, <2>2, ProbeSlots
    <3> QED BY <1>2, <1>4, <1>6, <3>1 DEF SlotsOf
  <2>3. CASE ~Picks(l)
    <3>1. m <= n /\ SlotMove(l)
      BY <1>1, <1>5, <2>3, NextSlots
    <3> QED BY <1>2, <1>4, <3>1 DEF SlotsOf, SlotMove, FreeSlots
  <2> QED BY <2>1, <2>2, <2>3
\* When a loop dispatches, no other is running.
<1>8. ASSUME NEW k \in Loop, k # l PROVE SlotsOf(k)'
  <2>1. co[k] \in Locals /\ co'[k].slots = co[k].slots /\ co'[k].pc = co[k].pc
    <3>1. co[k] \in Locals
      BY <1>2 DEF TypeOK
    <3> QED BY <1>1, <1>2, <1>8, <3>1, OthersKept DEF Keeps, Locals
  <2>2. CASE m <= n
    BY <1>2, <1>4, <2>1, <2>2 DEF SlotsOf
  <2>3. CASE Picks(l)
    <3>1. co[l].pc # "off" /\ n < MaxConcurrent
      <4>1. CASE PickTask(l)
        BY <1>2, <4>1 DEF PickTask, SlotsOf
      <4>2. CASE ProbeWorktreeDrift(l)
        BY <1>2, <4>2 DEF ProbeWorktreeDrift, SlotsOf
      <4> QED BY <2>3, <4>1, <4>2
    <3>2. co[k].pc = "off"
      BY <1>8, <3>1 DEF Single
    <3> QED BY <1>2, <1>4, <1>6, <2>1, <3>1, <3>2 DEF SlotsOf
  <2> QED BY <1>5, <2>2, <2>3
<1>9. \A k \in Loop : SlotsOf(k)'
  BY <1>7, <1>8
<1> QED BY <1>3, <1>9 DEF SlotsLeft

\* The coordinator counts its slots before its awaits and dispatches after them, and yet
\* never has more than maxConcurrent tasks dispatched, whatever fails, exits, is gated or
\* answered meanwhile, as long as nobody else dispatches and no reset lets a second loop
\* run, which would count slots of its own.
THEOREM NeverTooManyDispatched ==
    ASSUME Env \cap {"rpc", "reset"} = {}, ~("manual" \in Env /\ "dispatched" \in ManualStatus)
    PROVE  Spec => []SlotsRespected
<1>1. Init => SlotsLeft
  <2> SUFFICES ASSUME Init PROVE SlotsLeft
    OBVIOUS
  <2>1. TasksIn(db, "dispatched") = {}
    BY DEF Init, EmptyTables, TasksIn
  <2>2. Cardinality(TasksIn(db, "dispatched")) = 0
    BY <2>1, FS_EmptySet
  <2>3. rpc.pc = "idle" /\ \A l \in Loop : co[l].slots = 0 /\ co[l].pc = "off"
    BY DEF Init, IdleRpc, IdleLoop
  <2> QED BY <2>2, <2>3, OptionAssumption DEF SlotsLeft, SlotsOf
<1>2. Base /\ Single /\ SlotsLeft /\ [Next]_vars => SlotsLeft'
  <2> SUFFICES ASSUME Base, Single, SlotsLeft, [Next]_vars PROVE SlotsLeft'
    OBVIOUS
  <2>1. CASE Next
    BY <2>1, SlotsStep DEF Written
  <2>2. CASE UNCHANGED vars
    BY <2>2 DEF vars, SlotsLeft, SlotsOf
  <2> QED BY <2>1, <2>2
<1>3. Base /\ SlotsLeft => SlotsRespected
  BY FS_CardinalityType, OptionAssumption DEF Base, SlotsLeft, SlotsOf, SlotsRespected
<1>4. "reset" \notin Env
  OBVIOUS
<1> QED BY <1>1, <1>2, <1>3, <1>4, BaseInvariant, SingleInvariant, PTL DEF Spec

-----------------------------------------------------------------------------
(***************************************************************************)
(* The coordinator alone with its workers: nobody dispatches by RPC,       *)
(* writes task statuses or opens gates, and no reset lets a second loop    *)
(* run beside the first (its refused send would fail an old row of a task  *)
(* the other has dispatched again).  Terminals may exit, agents may        *)
(* escalate, report for each other and have their mail read by `check',    *)
(* sends and terminals may fail, and the run may be stopped.               *)
(***************************************************************************)
Undisturbed == Env \cap {"rpc", "manual", "gates", "asks", "reset"} = {}

\* The agent of the dispatch being sent knows nothing of it yet, so nobody can complete
\* it; and nothing but the loop dispatches its task again.
Alone ==
    /\ Orderly(db)
    /\ Single
    /\ rpc.pc = "idle"
    /\ \A g \in Gate : db.gstat[g] = "unused"
    /\ \A i \in 1..Len(inbox) :
         /\ inbox[i].type # "decision_gate"
         /\ inbox[i].type = "worker_done" => inbox[i].ctx \in Ctx /\ agent[inbox[i].ctx] # "none"
    /\ \A l \in Loop : co[l].pc = "sending" =>
         /\ agent[co[l].ctx] = "none"
         /\ HasCtx(db, co[l].ctx) => /\ IsLatestCtx(db, co[l].task, co[l].ctx)
                                     /\ db.tstat[co[l].task] # "completed"

\* The tables move by these methods only, with these arguments.
Accepts(d, e) ==
    \E m \in Message :
        /\ AcceptsDone(d, m) /\ m.ctx \in Ctx /\ agent[m.ctx] # "none"
        /\ e = UpdateTaskStatus(d, m.task, "completed")

FailsLatest(d, e) ==
    \E t \in Task : \E x \in CtxOf(d, t) :
        IsLatestCtx(d, t, x) /\ d.tstat[t] # "completed" /\ e = FailDispatch(d, x)

QuietMove(d, e) ==
    \/ e = d \/ Accepts(d, e) \/ FailsLatest(d, e)
    \/ CreateTasks /\ Creates(d, e)

LEMMA QuietIsEdit ==
    ASSUME db \in Tables, QuietMove(db, db')
    PROVE  db' = db \/ Edits(db, db', {"completed"})
<1>1. CASE Accepts(db, db')
  BY <1>1 DEF Accepts, Message, Edits, Writes, TaskStatus
<1>2. CASE FailsLatest(db, db')
  BY <1>2 DEF FailsLatest, CtxOf, Edits, Fails
<1> QED BY <1>1, <1>2 DEF QuietMove, Edits

LEMMA QuietOrderly ==
    ASSUME Orderly(db), QuietMove(db, db')
    PROVE  Orderly(db')
<1>1. CASE Creates(db, db')
  <2>1. PICK t \in TasksIn(db, "unused"), D \in SUBSET Task : db' = CreateTask(db, t, D)
    BY <1>1 DEF Creates
  <2> QED BY <2>1, CreateTaskOrderly
<1>2. CASE Accepts(db, db')
  <2>1. PICK m \in Message : AcceptsDone(db, m) /\ db' = UpdateTaskStatus(db, m.task, "completed")
    BY <1>2 DEF Accepts
  <2>2. m.task \in TasksIn(db, "dispatched")
    BY <2>1 DEF AcceptsDone, Message, TasksIn
  <2> QED BY <2>1, <2>2, CompleteOrderly
<1>3. CASE FailsLatest(db, db')
  BY <1>3, FailOrderly DEF FailsLatest
<1> QED BY <1>1, <1>2, <1>3 DEF QuietMove

\* The message read is reconciled as nothing, a completion or a failure.
LEMMA AloneReads ==
    ASSUME Base, Alone, seen < Len(inbox),
           \/ db' = ReconcileWorkerDone(db, inbox[seen + 1]) /\ inbox[seen + 1].type = "worker_done"
           \/ db' = HandleEscalation(db, inbox[seen + 1])
    PROVE  QuietMove(db, db')
<1> DEFINE m == inbox[seen + 1]
<1>1. m \in Message /\ seen + 1 \in 1..Len(inbox)
  BY MessageTypes DEF Base, TypeOK
<1>2. m.type = "worker_done" => m.ctx \in Ctx /\ agent[m.ctx] # "none"
  BY <1>1 DEF Alone
<1>3. CASE db' = ReconcileWorkerDone(db, m) /\ m.type = "worker_done"
  <2> HIDE DEF m
  <2> QED BY <1>1, <1>2, <1>3 DEF ReconcileWorkerDone, QuietMove, Accepts
<1>4. CASE db' = HandleEscalation(db, m)
  <2> HIDE DEF m
  <2>1. CASE AcceptsEscalation(db, m)
    <3>1. m.task \in Task /\ db.tstat[m.task] # "completed" /\ CtxOf(db, m.task) # {}
      BY <1>1, <2>1 DEF AcceptsEscalation, Done, Message
    <3>2. IsLatestCtx(db, m.task, LatestCtx(db, m.task))
      BY <3>1, LatestIsMax DEF LatestCtx
    <3>3. LatestCtx(db, m.task) \in CtxOf(db, m.task)
      BY <3>2 DEF IsLatestCtx
    <3>4. db' = FailDispatch(db, LatestCtx(db, m.task))
      BY <1>4, <2>1 DEF HandleEscalation
    <3> QED BY <3>1, <3>2, <3>3, <3>4 DEF QuietMove, FailsLatest
  <2>2. CASE ~AcceptsEscalation(db, m)
    BY <1>4, <2>2 DEF HandleEscalation, QuietMove
  <2> QED BY <2>1, <2>2
<1> QED BY <1>3, <1>4

LEMMA AloneMove ==
    ASSUME Undisturbed, Base, Alone, Next
    PROVE  \/ QuietMove(db, db')
           \/ Inserts(db, db') /\ \E l \in Loop : PickTask(l) \/ ProbeWorktreeDrift(l)
<1>loop. PICK l \in Loop : StepOf(l)
  BY SomeLoop
<1>0. /\ db \in Tables /\ seen \in Nat /\ Len(inbox) \in Nat /\ co[l] \in Locals
      /\ ~RpcDispatch /\ ~RpcAgentDetected /\ ~RpcSendFails
  BY RpcIdle DEF Base, TypeOK, Undisturbed, Alone
<1>1. CASE ProcessMessage(l)
  <2> DEFINE m == inbox[seen + 1]
  <2>1. seen < Len(inbox) /\ db' = HandleMessage(db, m)
    BY <1>1 DEF ProcessMessage
  <2>2. m \in Message /\ m.type # "decision_gate"
    BY <1>0, <2>1, MessageTypes DEF Base, Alone
  <2>3. \/ db' = ReconcileWorkerDone(db, m) /\ m.type = "worker_done"
        \/ db' = HandleEscalation(db, m)
    <3> HIDE DEF m
    <3> QED BY <2>1, <2>2 DEF HandleMessage, Message
  <2> QED BY <2>1, <2>3, AloneReads
<1>2. CASE CheckReadsMessage
  <2>1. /\ seen < Len(inbox)
        /\ \/ db' = db
           \/ db' = ReconcileWorkerDone(db, inbox[seen + 1]) /\ inbox[seen + 1].type = "worker_done"
    BY <1>2 DEF CheckReadsMessage
  <2> QED BY <2>1, AloneReads DEF QuietMove
<1>3. CASE PickTask(l) \/ ProbeWorktreeDrift(l)
  <2>1. \/ db' = db
        \/ \E t \in Task, h \in Handle :
             /\ CanDispatch(db, t, h) /\ UnusedCtx(db) # {}
             /\ db' = CreateDispatchContext(db, t, h, NextCtx(db))
    <3>1. co[l].task \in Task /\ co[l].handle \in Handle /\ co[l].ready \in SUBSET Task
          /\ co[l].terms \in SUBSET Handle
      BY <1>0 DEF Locals
    <3>2. CASE PickTask(l)
      BY <3>1, <3>2 DEF PickTask, LockTask
    <3>3. CASE ProbeWorktreeDrift(l)
      BY <3>1, <3>3 DEF ProbeWorktreeDrift, LockTask
    <3> QED BY <1>3, <3>2, <3>3
  <2> QED BY <1>3, <2>1, LockTaskInserts DEF QuietMove
<1>4. CASE SendFails(l)
  <2>1. co[l].ctx \in Ctx /\ co[l].task \in Task /\ db' = FailRow(db, co[l].ctx) /\ co[l].pc = "sending"
    BY <1>0, <1>4 DEF SendFails, Base, Refs, Locals
  <2>2. CASE HasCtx(db, co[l].ctx)
    <3>1. IsLatestCtx(db, co[l].task, co[l].ctx) /\ db.tstat[co[l].task] # "completed"
      BY <2>1, <2>2 DEF Alone
    <3>2. co[l].ctx \in CtxOf(db, co[l].task) /\ db' = FailDispatch(db, co[l].ctx)
      BY <2>1, <2>2, <3>1 DEF IsLatestCtx, FailRow
    <3> QED BY <2>1, <3>1, <3>2 DEF QuietMove, FailsLatest
  <2>3. CASE ~HasCtx(db, co[l].ctx)
    BY <2>1, <2>3 DEF FailRow, QuietMove
  <2> QED BY <2>2, <2>3
<1>5. CASE TerminalExits
  <2>1. db' = db \/ \E c \in ActiveCtx(db) : db' = FailDispatch(db, c)
    BY <1>5 DEF TerminalExits, ActiveCtxAt
  <2>2. ASSUME NEW c \in ActiveCtx(db), db' = FailDispatch(db, c)
        PROVE  FailsLatest(db, db')
    <3>1. /\ db.ctask[c] \in Task /\ c \in CtxOf(db, db.ctask[c])
          /\ IsLatestCtx(db, db.ctask[c], c) /\ db.tstat[db.ctask[c]] = "dispatched"
      BY <1>0, ActiveOrderly DEF Alone, Orderly
    <3> QED BY <2>2, <3>1 DEF FailsLatest
  <2> QED BY <2>1, <2>2 DEF QuietMove
<1>6. CASE CreateTasks
  <2>1. PICK t \in TasksIn(db, "unused"), D \in SUBSET Rows(db) : db' = CreateTask(db, t, D)
    BY <1>6 DEF CreateTasks
  <2>2. D \in SUBSET (Task \ TasksIn(db, "unused"))
    BY DEF Rows, HasTask, TasksIn, TaskStatus
  <2> QED BY <1>6, <2>1, <2>2 DEF Creates, QuietMove
<1>7. ~Reset
  BY DEF Reset, Undisturbed
<1>8. CASE ReblockGatedTask(l) \/ TaskUpdate \/ GateCreate \/ GateResolve \/ GateResolveAgain
  BY <1>8 DEF Undisturbed, Alone, ReblockGatedTask, UnheldGates, TaskUpdate, GateCreate,
     GateResolve, GateResolveAgain
<1>9. CASE db' = db
  BY <1>9 DEF QuietMove
<1> QED BY <1>loop, <1>0, <1>1, <1>2, <1>3, <1>4, <1>5, <1>6, <1>7, <1>8, <1>9 DEF StepOf, LoopStep,
     MarkAsRead, SnapshotReadyTasks, GetAvailableTerminals, CreateTerminal, CreateTerminalFails,
     StopPicking, SendSucceeds, CheckConvergence, Wake, CallerStep, StartRun, RunStop, RpcNoAgent,
     RpcSendSucceeds, CheckBegins, CheckMarksRead, WorkerStep, WorkerDone, WorkerEscalates,
     WorkerAsks

\* A quiet move adds no dispatch row, and completes only what a message accepted names.
LEMMA QuietRows ==
    ASSUME db \in Tables, QuietMove(db, db')
    PROVE  /\ \A c \in Ctx : HasCtx(db', c) => HasCtx(db, c) /\ db'.ctask[c] = db.ctask[c]
           /\ \A u \in Task : db'.tstat[u] = "completed" =>
                \/ db.tstat[u] = "completed"
                \/ \E m \in Message : AcceptsDone(db, m) /\ agent[m.ctx] # "none" /\ m.task = u
<1>1. CASE Creates(db, db')
  <2>1. PICK t \in Task, D \in SUBSET Task : db' = CreateTask(db, t, D)
    BY <1>1 DEF Creates, TasksIn
  <2>2. /\ SameCtxs(db, db')
        /\ \A u \in Task : db'.tstat[u] = db.tstat[u] \/ db'.tstat[u] # "completed"
    BY <2>1, CreateTaskWrites
  <2> QED BY <2>2 DEF SameCtxs, HasCtx
<1>2. CASE Accepts(db, db')
  <2>1. PICK m \in Message : /\ AcceptsDone(db, m) /\ agent[m.ctx] # "none"
                             /\ db' = UpdateTaskStatus(db, m.task, "completed")
    BY <1>2 DEF Accepts
  <2>2. m.task \in Task /\ "completed" \in TaskStatus
    BY DEF Message, TaskStatus
  <2>3. /\ db'.ctask = db.ctask
        /\ \A u \in Task : \/ u = m.task \/ db'.tstat[u] = db.tstat[u] \/ db'.tstat[u] = "ready"
        /\ \A c \in Ctx : \/ db'.cstat[c] = db.cstat[c]
                          \/ c \in ActiveCtxOf(db, m.task)
    BY <2>1, <2>2, UpdateTaskStatusWrites
  <2>4. \A c \in Ctx : HasCtx(db', c) => HasCtx(db, c)
    BY <2>3 DEF ActiveCtxOf, CtxOf, HasCtx
  <2> QED BY <2>1, <2>3, <2>4
<1>3. CASE FailsLatest(db, db')
  <2>1. PICK x \in Ctx : HasCtx(db, x) /\ db' = FailDispatch(db, x)
    BY <1>3 DEF FailsLatest, CtxOf
  <2>2. /\ db'.ctask = db.ctask
        /\ \A c \in Ctx : c = x \/ db'.cstat[c] = db.cstat[c]
        /\ \A u \in Task : db'.tstat[u] = db.tstat[u] \/ db'.tstat[u] \in {"failed", "ready"}
    BY <2>1, FailDispatchWrites
  <2> QED BY <2>1, <2>2 DEF HasCtx
<1> QED BY <1>1, <1>2, <1>3 DEF QuietMove

\* The row just inserted is the latest one of its task.
LEMMA LockedIsLatest ==
    ASSUME TypeOK, InOrder(db), NEW t \in Task, NEW x, Locked(t, x)
    PROVE  IsLatestCtx(db', t, x) /\ db'.tstat[t] = "dispatched"
<1>1. PICK h \in Handle : CanDispatch(db, t, h) /\ db' = CreateDispatchContext(db, t, h, x)
  BY DEF Locked
<1>2. x \in Ctx /\ db.cstat[x] = "unused"
  BY LockedRow
<1>3. /\ db'.tstat[t] = "dispatched"
      /\ \A c \in Ctx : /\ db'.cstat[c] = IF c = x THEN "dispatched" ELSE db.cstat[c]
                        /\ db'.ctask[c] = IF c = x THEN t ELSE db.ctask[c]
  BY <1>1, <1>2, CreateDispatchContextWrites DEF TypeOK
<1>4. \A k \in Ctx : HasCtx(db', k) => k <= x
  <2> SUFFICES ASSUME NEW k \in Ctx, HasCtx(db', k), ~(k <= x) PROVE FALSE
    OBVIOUS
  <2>1. x <= k /\ k # x
    BY <1>2 DEF Ctx
  <2>2. db.cstat[k] = "unused"
    BY <1>2, <2>1 DEF InOrder
  <2> QED BY <1>3, <2>1, <2>2 DEF HasCtx, DispatchStatus
<1>5. x \in CtxOf(db', t)
  BY <1>2, <1>3 DEF CtxOf, HasCtx, DispatchStatus
<1> QED BY <1>3, <1>4, <1>5 DEF IsLatestCtx, CtxOf

LEMMA AloneStep ==
    ASSUME Undisturbed, Base, Alone, Next
    PROVE  Alone'
<1>0. /\ TypeOK /\ db \in Tables /\ Orderly(db) /\ Refs /\ InOrder(db)
      /\ agent \in [Ctx -> {"none", "working", "raised", "reported", "gone"}]
      /\ "asks" \notin Env /\ "reset" \notin Env /\ Single
  BY DEF Base, TypeOK, Alone, Orderly, Undisturbed
<1>1. /\ rpc'.pc = "idle" /\ ~RpcDispatch /\ ~RpcAgentDetected /\ ~RpcSendSucceeds
  BY RpcIdle DEF Alone, Undisturbed
<1>2. CASE \/ QuietMove(db, db')
           \/ Inserts(db, db') /\ \E l \in Loop : PickTask(l) \/ ProbeWorktreeDrift(l)
  <2>1. Orderly(db')
    BY <1>0, <1>2, QuietOrderly, InsertOrderly
  <2>2. \A g \in Gate : db'.gstat[g] = "unused"
    <3>1. UnusedGate(db') = UnusedGate(db)
      BY <1>0, <1>2, QuietIsEdit, KeepsUnusedGates
    <3> QED BY <3>1 DEF UnusedGate, Alone
  <2>3. \A c \in Ctx : agent[c] # "none" => agent'[c] # "none"
    <3>1. ASSUME NEW c \in Ctx, NEW k \in Loop, SendSucceeds(k), c = co[k].ctx
          PROVE  agent'[c] = "working"
      BY <1>0, <3>1 DEF SendSucceeds
    <3> QED BY <1>0, <1>1, <3>1, NextAgent DEF AgentMove
  <2>4. \A i \in 1..Len(inbox') :
          /\ inbox'[i].type # "decision_gate"
          /\ inbox'[i].type = "worker_done" => inbox'[i].ctx \in Ctx /\ agent'[inbox'[i].ctx] # "none"
    <3>0. inbox \in Seq(Message) /\ Len(inbox) \in Nat
      BY <1>0 DEF TypeOK
    <3>1. CASE inbox' = inbox
      BY <2>3, <3>1 DEF Alone
    <3>2. CASE inbox' = <<>>
      BY <3>2
    <3>3. CASE \E c \in Ctx, h \in Handle, type \in {"worker_done", "escalation", "decision_gate"} :
                 /\ inbox' = Append(inbox, [type |-> type, from |-> h, task |-> db.ctask[c], ctx |-> c])
                 /\ type # "decision_gate"
                 /\ type = "worker_done" => agent'[c] # "none"
      <4>1. PICK c \in Ctx, h \in Handle, type \in {"worker_done", "escalation", "decision_gate"} :
                 /\ inbox' = Append(inbox, [type |-> type, from |-> h, task |-> db.ctask[c], ctx |-> c])
                 /\ type # "decision_gate"
                 /\ type = "worker_done" => agent'[c] # "none"
        BY <3>3
      <4> DEFINE m == [type |-> type, from |-> h, task |-> db.ctask[c], ctx |-> c]
      <4>2. m.type = type /\ m.ctx = c /\ m \in Message
        BY <1>0, BoundAssumption DEF Message, Ctx, Tables
      <4> HIDE DEF m
      <4>3. /\ Len(inbox') = Len(inbox) + 1
            /\ \A i \in 1..Len(inbox') : inbox'[i] = IF i <= Len(inbox) THEN inbox[i] ELSE m
        BY <3>0, <4>1, <4>2 DEF m
      <4>4. \A i \in 1..Len(inbox') : inbox'[i] = m \/ (i \in 1..Len(inbox) /\ inbox'[i] = inbox[i])
        BY <3>0, <4>3
      <4> QED BY <2>3, <4>1, <4>2, <4>4 DEF Alone
    <3> QED BY <1>0, <3>1, <3>2, <3>3, NextInbox DEF InboxMove, Reads
  <2>5. ASSUME NEW l \in Loop, co'[l].pc = "sending"
        PROVE  /\ agent'[co'[l].ctx] = "none"
               /\ HasCtx(db', co'[l].ctx) => /\ IsLatestCtx(db', co'[l].task, co'[l].ctx)
                                          /\ db'.tstat[co'[l].task] # "completed"
    <3>1. /\ co[l] \in Locals
          /\ \A k \in Loop : SendSucceeds(k) => k # l /\ co[k].pc = "sending" /\ co[k].ctx \in Ctx
                                                   /\ db.cstat[co[k].ctx] # "unused"
      BY <1>0, <2>5 DEF SendSucceeds, Becomes, TypeOK, Refs, Locals
    <3>2. ASSUME NEW x \in Ctx, agent[x] = "none", co[l].pc # "off" \/ db.cstat[x] = "unused"
          PROVE  agent'[x] = "none"
      <4>1. ~\E k \in Loop : SendSucceeds(k) /\ x = co[k].ctx
        BY <1>0, <3>1, <3>2 DEF Single
      <4> QED BY <1>1, <3>2, <4>1, NextAgent DEF AgentMove
    <3>3. CASE co[l].pc = "sending" /\ co'[l].task = co[l].task /\ co'[l].ctx = co[l].ctx
      <4>1. co[l].ctx \in Ctx /\ co[l].task \in Task /\ agent'[co[l].ctx] = "none"
        <5>1. co[l].ctx \in Ctx /\ co[l].task \in Task /\ agent[co[l].ctx] = "none"
          BY <1>0, <3>1, <3>3 DEF Refs, Alone, Locals
        <5> QED BY <3>2, <3>3, <5>1
      <4>2. QuietMove(db, db')
        <5>1. \A k \in Loop : ~PickTask(k) /\ ~ProbeWorktreeDrift(k)
          BY <1>0, <3>3 DEF PickTask, ProbeWorktreeDrift, Single
        <5> QED BY <1>2, <5>1
      <4>3. ASSUME HasCtx(db', co[l].ctx)
            PROVE  IsLatestCtx(db', co[l].task, co[l].ctx) /\ db'.tstat[co[l].task] # "completed"
        <5>1. HasCtx(db, co[l].ctx) /\ db'.ctask[co[l].ctx] = db.ctask[co[l].ctx]
          BY <1>0, <4>1, <4>2, <4>3, QuietRows
        <5>2. IsLatestCtx(db, co[l].task, co[l].ctx) /\ db.tstat[co[l].task] # "completed"
          BY <3>3, <5>1 DEF Alone
        <5>3. CtxOf(db', co[l].task) \subseteq CtxOf(db, co[l].task) /\ co[l].ctx \in CtxOf(db', co[l].task)
          BY <1>0, <4>1, <4>2, <4>3, <5>1, <5>2, QuietRows DEF CtxOf, IsLatestCtx
        <5>4. ASSUME NEW m \in Message, AcceptsDone(db, m), agent[m.ctx] # "none", m.task = co[l].task
              PROVE  FALSE
          <6>1. m.ctx = co[l].ctx
            BY <4>1, <5>2, <5>4, LatestUnique DEF AcceptsDone
          <6> QED BY <3>3, <5>4, <6>1 DEF Alone
        <5>5. db'.tstat[co[l].task] # "completed"
          BY <1>0, <4>1, <4>2, <5>2, <5>4, QuietRows
        <5> QED BY <5>2, <5>3, <5>5 DEF IsLatestCtx
      <4> QED BY <3>3, <4>1, <4>3
    <3>4. CASE co'[l].task \in Task /\ Locked(co'[l].task, co'[l].ctx)
      <4>1. co'[l].ctx \in Ctx /\ db.cstat[co'[l].ctx] = "unused"
        BY <1>0, <3>4, LockedRow
      <4>2. agent'[co'[l].ctx] = "none"
        BY <1>0, <3>2, <4>1 DEF Refs
      <4>3. IsLatestCtx(db', co'[l].task, co'[l].ctx) /\ db'.tstat[co'[l].task] = "dispatched"
        BY <1>0, <3>4, LockedIsLatest
      <4> QED BY <4>2, <4>3
    <3> QED BY <2>5, <3>3, <3>4, NextSending DEF SendingMove
  <2>6. Single'
    BY <1>0, SingleStep
  <2> QED BY <1>1, <2>1, <2>2, <2>4, <2>5, <2>6 DEF Alone, Orderly, OrderlyTask, Good, Lock, Refer,
             Accounts, ActiveCtx, InOrder, DepsDone, IsLatestCtx, CtxOf, HasCtx, HasTask, FailedCtxOf
<1> QED BY <1>2, AloneMove

LEMMA AloneInit == Init => Alone
<1> SUFFICES ASSUME Init PROVE Alone
  OBVIOUS
<1>1. Orderly(db)
  BY EmptyOrderly DEF Init
<1>2. rpc.pc = "idle" /\ (\A l \in Loop : co[l].pc = "off") /\ Single /\ Len(inbox) = 0
  BY DEF Init, IdleRpc, IdleLoop, Single
<1>3. \A g \in Gate : db.gstat[g] = "unused"
  BY DEF Init, EmptyTables
<1> QED BY <1>1, <1>2, <1>3 DEF Alone

LEMMA AloneStutters ==
    ASSUME Alone, UNCHANGED vars
    PROVE  Alone'
<1>1. db' = db /\ inbox' = inbox /\ run' = run /\ co' = co /\ rpc' = rpc /\ agent' = agent
  BY DEF vars
<1>2. Orderly(db') /\ \A t, x : IsLatestCtx(db', t, x) <=> IsLatestCtx(db, t, x)
  BY <1>1 DEF Alone
<1>3. Orderly(db)'
  BY <1>1, <1>2 DEF Orderly, OrderlyTask, Good, Lock, Refer, Accounts, ActiveCtx, InOrder,
     DepsDone, IsLatestCtx, CtxOf, HasCtx, HasTask, FailedCtxOf
<1> QED BY <1>1, <1>3 DEF Alone, Single, IsLatestCtx, CtxOf, HasCtx

\* The inductive invariant of a coordinator alone with its workers, as long as no reset
\* lets a second loop run beside it.
THEOREM AloneInvariant ==
    ASSUME Undisturbed
    PROVE  Spec => [](Base /\ Alone)
<1>1. Base /\ Alone /\ [Next]_vars => Alone'
  <2> SUFFICES ASSUME Base, Alone, [Next]_vars PROVE Alone'
    OBVIOUS
  <2>1. CASE Next
    BY <2>1, AloneStep
  <2>2. CASE UNCHANGED vars
    BY <2>2, AloneStutters
  <2> QED BY <2>1, <2>2
<1> QED BY <1>1, AloneInit, BaseInvariant, PTL DEF Spec

\* No dispatch is leaked by a coordinator alone with its workers: whatever fails, exits,
\* escalates, is misrouted, stopped or read by `check', an active row is the latest one
\* of a dispatched task.  Resets are outside: a refused send of the loop that outlived
\* one makes a task ready again that the next loop has dispatched.
THEOREM NoDispatchLeaks ==
    ASSUME Undisturbed
    PROVE  Spec => []NoOrphanDispatch
<1>1. Base /\ Alone => NoOrphanDispatch
  BY ActiveOrderly DEF Base, TypeOK, Alone, Orderly, NoOrphanDispatch
<1> QED BY <1>1, AloneInvariant, PTL

\* At most three dispatches of a task ever fail, and the task is failed exactly when the
\* last of them broke the circuit, when no reset lets a second loop fail the rows of the
\* first.
THEOREM RetriesAreBounded ==
    ASSUME Undisturbed
    PROVE  Spec => []BreakerExact
<1>1. Base /\ Alone => BreakerExact
  <2> SUFFICES ASSUME Base, Alone PROVE BreakerExact
    OBVIOUS
  <2>1. \A t \in Task : OrderlyTask(db, t)
    BY DEF Alone, Orderly
  <2>2. ASSUME NEW t \in Task
        PROVE  Cardinality(FailedRows(t)) <= 3
    <3>1. FailedRows(t) = FailedCtxOf(db, t)
      BY DEF FailedRows, FailedCtxOf
    <3>2. CASE CtxOf(db, t) = {}
      <4>1. FailedCtxOf(db, t) = {}
        BY <3>2 DEF FailedCtxOf
      <4>2. Cardinality(FailedCtxOf(db, t)) = 0
        BY <4>1, FS_EmptySet
      <4> QED BY <3>1, <4>2
    <3>3. CASE CtxOf(db, t) # {}
      <4>1. PICK l \in CtxOf(db, t) : IsLatestCtx(db, t, l)
        BY <2>1, <3>3, LatestOrderly
      <4>2. Cardinality(FailedCtxOf(db, t)) <= 3
        BY <2>1, <4>1 DEF OrderlyTask
      <4> QED BY <3>1, <4>2
    <3> QED BY <3>2, <3>3
  <2>3. ASSUME NEW t \in Rows(db), db.tstat[t] = "failed"
        PROVE  \E c \in CtxOf(db, t) : IsLatestCtx(db, t, c) /\ db.cstat[c] = "circuit_broken"
    <3>1. t \in Task /\ CtxOf(db, t) # {}
      BY <2>1, <2>3 DEF OrderlyTask, Rows, NoRow
    <3> QED BY <2>1, <2>3, <3>1, LatestOrderly DEF StatusPairs
  <2>4. ASSUME NEW t \in Rows(db), NEW c \in CtxOf(db, t), IsLatestCtx(db, t, c),
               db.cstat[c] = "circuit_broken"
        PROVE  db.tstat[t] = "failed"
    BY <2>1, <2>4 DEF OrderlyTask, Rows, StatusPairs
  <2> QED BY <2>2, <2>3, <2>4 DEF BreakerExact
<1> QED BY <1>1, AloneInvariant, PTL

\* The DAG is respected for every DAG, also by tasks created while the run is on, when no
\* reset leaves a loop whose late failure of a dispatch could reopen a completed dep.
THEOREM DepsComeFirst ==
    ASSUME Undisturbed
    PROVE  Spec => []DepsRespected
<1>1. Base /\ Alone => DepsRespected
  BY DEF Alone, Orderly, DepsDone, DepsRespected, TaskStatus
<1> QED BY <1>1, AloneInvariant, PTL

-----------------------------------------------------------------------------
(***************************************************************************)
(* The verdict of a run, and the promotion of what waits, when no task is  *)
(* created after the start of a run.                                       *)
(***************************************************************************)
Verdict == run = "completed" => \A t \in Rows(db) : db.tstat[t] = "completed"

\* Nothing is dispatched or completed before the run that does it.
Prelude ==
    run = "none" => /\ \A c \in Ctx : db.cstat[c] = "unused"
                    /\ TasksIn(db, "completed") = {}

\* While no run is on, no loop moves the tables; the end of one changes nothing else.
LEMMA RunMove ==
    ASSUME Undisturbed, Base, Alone, Next, run' # "running"
    PROVE  \/ run = "running" /\ db' = db /\ \E l \in Loop : run' = FinalStatus(l)
           \/ run' = "failed"
           \/ run # "running" /\ run' = run /\ QuietMove(db, db')
<1>1. PICK l \in Loop : StepOf(l)
  BY SomeLoop
<1>2. \/ StartRun(l)
      \/ co[l].pc # "off" /\ LoopStep(l) /\ (run' = run \/ (EndRun(l) /\ db' = db))
      \/ ~LoopStep(l) /\ run' = run /\ co'[l].pc = co[l].pc
  BY <1>1, LoopPcs DEF Undisturbed, Base
<1>3. CASE StartRun(l)
  <2>1. run' = "failed"
    BY <1>3 DEF StartRun
  <2> QED BY <2>1
<1>4. CASE co[l].pc # "off" /\ (run' = run \/ (EndRun(l) /\ db' = db))
  <2>1. run = "running" /\ EndRun(l) /\ db' = db
    BY <1>4 DEF Alone, Single
  <2>2. run' = FinalStatus(l)
    BY <2>1 DEF EndRun
  <2> QED BY <2>1, <2>2
<1>5. CASE run' = run
  <2>1. \A k \in Loop : ~PickTask(k) /\ ~ProbeWorktreeDrift(k)
    BY <1>5 DEF Alone, Single, PickTask, ProbeWorktreeDrift
  <2> QED BY <1>5, <2>1, AloneMove
<1> QED BY <1>2, <1>3, <1>4, <1>5

LEMMA VerdictStep ==
    ASSUME Undisturbed, "late" \notin Env, Base, Alone, Verdict, Next
    PROVE  Verdict'
<1> SUFFICES ASSUME run' = "completed"
             PROVE  \A t \in Rows(db') : db'.tstat[t] = "completed"
  BY DEF Verdict, Rows, HasTask
<1>1. CASE db' = db /\ \E l \in Loop : run' = FinalStatus(l)
  <2>1. AllDone(db) /\ TasksIn(db, "failed") = {}
    BY <1>1 DEF FinalStatus
  <2> QED BY <1>1, <2>1 DEF AllDone, Done, TasksIn, Rows
<1>2. CASE run = "completed" /\ QuietMove(db, db')
  <2>1. ~CreateTasks
    BY <1>2 DEF CreateTasks
  <2>2. \A t \in Task : HasTask(db, t) => db.tstat[t] = "completed"
    BY <1>2 DEF Verdict, Rows
  <2>3. ~Accepts(db, db')
    BY <2>2 DEF Accepts, AcceptsDone, Message
  <2>4. ~FailsLatest(db, db')
    BY <2>2 DEF FailsLatest, CtxOf, Alone, Orderly, Good, Refer
  <2>5. db' = db
    BY <1>2, <2>1, <2>3, <2>4 DEF QuietMove
  <2> QED BY <2>2, <2>5 DEF Rows
<1> QED BY <1>1, <1>2, RunMove

\* A run is reported completed only when every task is, and that stays true, when no
\* task is created after the start and no reset leaves a loop that still fails rows.
THEOREM VerdictIsHonest ==
    ASSUME Undisturbed, "late" \notin Env
    PROVE  Spec => []VerdictHonest
<1>1. Init => Verdict
  BY DEF Init, Verdict
<1>2. Base /\ Alone /\ Verdict /\ [Next]_vars => Verdict'
  <2> SUFFICES ASSUME Base, Alone, Verdict, [Next]_vars PROVE Verdict'
    OBVIOUS
  <2>1. CASE Next
    BY <2>1, VerdictStep
  <2>2. CASE UNCHANGED vars
    BY <2>2 DEF vars, Verdict, Rows, HasTask
  <2> QED BY <2>1, <2>2
<1>3. Verdict => VerdictHonest
  BY DEF Verdict, VerdictHonest
<1> QED BY <1>1, <1>2, <1>3, AloneInvariant, PTL DEF Spec

LEMMA PreludeStep ==
    ASSUME Undisturbed, "late" \notin Env, Base, Alone, Prelude, Next
    PROVE  Prelude'
<1> SUFFICES ASSUME run' = "none"
             PROVE  /\ \A c \in Ctx : db'.cstat[c] = "unused"
                    /\ TasksIn(db', "completed") = {}
  BY DEF Prelude, TasksIn
<1>1. db \in Tables
  BY DEF Base, TypeOK
<1>2. run = "none" /\ QuietMove(db, db')
  <2>1. \A l \in Loop : FinalStatus(l) # "none"
    BY DEF FinalStatus
  <2> QED BY <2>1, RunMove
<1>3. \A c \in Ctx : db.cstat[c] = "unused" /\ ~HasCtx(db, c)
  BY <1>2 DEF Prelude, HasCtx, DispatchStatus
<1>4. ~Accepts(db, db') /\ ~FailsLatest(db, db')
  BY <1>3 DEF Accepts, AcceptsDone, FailsLatest, CtxOf
<1>5. CASE Creates(db, db')
  <2>1. PICK t \in Task, D \in SUBSET Task : db' = CreateTask(db, t, D)
    BY <1>5 DEF Creates, TasksIn
  <2>2. /\ SameCtxs(db, db')
        /\ \A u \in Task : db'.tstat[u] = db.tstat[u] \/ db'.tstat[u] # "completed"
    BY <1>1, <2>1, CreateTaskWrites
  <2> QED BY <1>2, <1>3, <2>2 DEF SameCtxs, Prelude, TasksIn
<1>6. CASE db' = db
  BY <1>2, <1>6 DEF Prelude
<1> QED BY <1>2, <1>4, <1>5, <1>6 DEF QuietMove

LEMMA WaitsStep ==
    ASSUME Undisturbed, "late" \notin Env, Base, Alone, Prelude, Waits(db), Next
    PROVE  Waits(db')
<1>0. db \in Tables
  BY DEF Base, TypeOK
<1>1. CASE CreateTasks /\ Creates(db, db')
  <2>1. PICK t \in TasksIn(db, "unused"), D \in SUBSET Task : db' = CreateTask(db, t, D)
    BY <1>1 DEF Creates
  <2>2. TasksIn(db, "completed") = {}
    BY <1>1 DEF CreateTasks, Prelude
  <2> QED BY <1>0, <2>1, <2>2, CreateTaskWaits
<1>2. CASE Accepts(db, db')
  BY <1>0, <1>2, CompleteTaskWaits DEF Accepts, Message
<1>3. CASE FailsLatest(db, db')
  <2>1. PICK x \in Ctx : db' = FailDispatch(db, x)
    BY <1>3 DEF FailsLatest, CtxOf
  <2>2. /\ db'.deps = db.deps
        /\ \A u \in Task : db'.tstat[u] = db.tstat[u] \/ db'.tstat[u] \in {"failed", "ready"}
    BY <1>0, <2>1, FailDispatchWrites
  <2> QED BY <1>0, <2>2, NoProgressWaits DEF NoProgress
<1>4. CASE Inserts(db, db')
  <2>1. PICK t \in Task, h \in Handle, x \in Ctx :
           CanDispatch(db, t, h) /\ db' = CreateDispatchContext(db, t, h, x)
    BY <1>4 DEF Inserts, UnusedCtx
  <2>2. /\ db'.deps = db.deps
        /\ \A u \in Task : db'.tstat[u] = db.tstat[u] \/ db'.tstat[u] = "dispatched"
    BY <1>0, <2>1, CreateDispatchContextWrites
  <2> QED BY <1>0, <2>2, NoProgressWaits DEF NoProgress
<1> QED BY <1>0, <1>1, <1>2, <1>3, <1>4, AloneMove DEF QuietMove

\* Every pending task waits for something, for every DAG: a task is promoted in the same
\* step that completes the last of its deps.
THEOREM PromotionLeavesNoWindow ==
    ASSUME Undisturbed, "late" \notin Env
    PROVE  Spec => []NoPromotionWindow
<1>1. Init => Prelude /\ Waits(db)
  BY DEF Init, EmptyTables, Prelude, Waits, TasksIn
<1>2. Base /\ Alone /\ Prelude /\ Waits(db) /\ [Next]_vars => Prelude' /\ Waits(db)'
  <2> SUFFICES ASSUME Base, Alone, Prelude, Waits(db), [Next]_vars PROVE Prelude' /\ Waits(db')
    BY DEF Waits
  <2>1. CASE Next
    BY <2>1, PreludeStep, WaitsStep
  <2>2. CASE UNCHANGED vars
    BY <2>2 DEF vars, Prelude, TasksIn, Waits
  <2> QED BY <2>1, <2>2
<1>3. Waits(db) => NoPromotionWindow
  BY StoreQueries DEF Waits, NoPromotionWindow, Store!NoPromotionWindow, TasksIn
<1> QED BY <1>1, <1>2, <1>3, AloneInvariant, PTL DEF Spec

-----------------------------------------------------------------------------
(***************************************************************************)
(* The control of coordinator runs (module CoordinatorRuns), for any       *)
(* number of runs.  It shares no state with the module of the loop.        *)
(***************************************************************************)

RunsInv == RunsTypeOK /\ OneReachableRun

\* A step keeps the types.
LEMMA RunsStepTypes ==
    ASSUME RunsTypeOK, [RunsNext]_runsVars
    PROVE  RunsTypeOK'
<1> USE RunsAssumption DEF RunsTypeOK
<1>1. CASE Starts
  <2>1. NextRun \subseteq Run /\ Run \subseteq 0..MaxRun
    BY DEF NextRun, Run
  <2> QED BY <1>1, <2>1 DEF Starts
<1>2. CASE Stops
  <2>1. Running \subseteq Run
    BY DEF Running
  <2>2. row' = row /\ stopped' \in SUBSET Run /\ active' = 0
    BY <1>2, <2>1 DEF Stops
  <2>3. loop' \in [Run -> {"off", "looping", "stopping"}]
    BY <1>2 DEF Stops
  <2> QED BY <2>2, <2>3
<1>3. ASSUME NEW r \in Run, Converge(r) PROVE RunsTypeOK'
  BY <1>3 DEF Converge, Ends
<1>4. ASSUME NEW r \in Run, NoticeStop(r) PROVE RunsTypeOK'
  BY <1>4 DEF NoticeStop, Ends
<1>5. CASE Resets
  BY <1>5 DEF Resets
<1>6. CASE Restart
  BY <1>6 DEF Restart
<1>7. CASE UNCHANGED runsVars
  BY <1>7 DEF runsVars
<1> QED BY <1>1, <1>2, <1>3, <1>4, <1>5, <1>6, <1>7 DEF RunsNext

\* The end of a loop takes no other run's coordinator away.
LEMMA EndsReachable ==
    ASSUME RunsInv, NEW r \in Run, NEW s \in {"completed", "failed"}, Ends(r, s)
    PROVE  OneReachableRun'
<1>1. \A k \in Run : row'[k] = "running" => k # r /\ row[k] = "running" /\ loop'[k] = loop[k]
  BY DEF RunsInv, RunsTypeOK, Ends
<1>2. \A k, m \in Running' : k = m
  BY <1>1 DEF Running, RunsInv, OneReachableRun
<1>3. ASSUME NEW k \in Running', loop'[k] = "looping" PROVE active' = k
  <2>1. active = k /\ k # r
    BY <1>1, <1>3 DEF Running, RunsInv, OneReachableRun
  <2> QED BY <2>1 DEF Ends
<1> QED BY <1>2, <1>3 DEF OneReachableRun

\* Every step keeps the one running row reachable.
LEMMA RunsStepReachable ==
    ASSUME RunsInv, [RunsNext]_runsVars
    PROVE  OneReachableRun'
<1> USE DEF RunsInv, OneReachableRun, Running
<1>1. CASE Starts
  <2>1. PICK r \in NextRun :
           \/ /\ row' = [row EXCEPT ![r] = "running"]
              /\ loop' = [loop EXCEPT ![r] = "looping"]
              /\ active' = r
           \/ /\ row' = [row EXCEPT ![r] = "failed"]
              /\ active' = 0
              /\ UNCHANGED loop
    BY <1>1 DEF Starts
  <2>2. \A k \in Run : row'[k] = "running" => k = r /\ active' = r
    BY <1>1, <2>1 DEF Starts, RunsTypeOK
  <2>3. \A k \in Running' : k = r /\ active' = r
    BY <2>2
  <2>4. (\A k, m \in Running' : k = m) /\ \A k \in Running' : active' = k
    BY <2>3
  <2> HIDE DEF RunsInv, Running
  <2> QED BY <2>4
<1>2. CASE Stops
  <2>1. \A k \in Run : row[k] = "running" => loop'[k] # "looping"
    <3>1. 0 \notin Run /\ loop \in [Run -> {"off", "looping", "stopping"}]
      BY RunsAssumption DEF Run, RunsTypeOK
    <3>2. \A k \in Run : row[k] = "running" /\ loop[k] = "looping" => active = k
      OBVIOUS
    <3> HIDE DEF RunsInv, Running
    <3> QED BY <1>2, <3>1, <3>2 DEF Stops
  <2>2. row' = row
    BY <1>2 DEF Stops
  <2> QED BY <2>1, <2>2
<1>3. ASSUME NEW r \in Run, Converge(r) PROVE OneReachableRun'
  BY <1>3, EndsReachable DEF Converge
<1>4. ASSUME NEW r \in Run, NoticeStop(r) PROVE OneReachableRun'
  BY <1>4, EndsReachable DEF NoticeStop
<1>5. CASE Resets
  BY <1>5 DEF Resets
<1>6. CASE Restart
  BY <1>6 DEF Restart
<1>7. CASE UNCHANGED runsVars
  BY <1>7 DEF runsVars
<1> QED BY <1>1, <1>2, <1>3, <1>4, <1>5, <1>6, <1>7 DEF RunsNext

\* The types and the one reachable run are inductive together.
LEMMA RunsInvariance == RunsSpec => []RunsInv
<1>1. RunsInit => RunsInv
  BY RunsAssumption DEF RunsInit, RunsInv, RunsTypeOK, OneReachableRun, Running
<1>2. RunsInv /\ [RunsNext]_runsVars => RunsInv'
  BY RunsStepTypes, RunsStepReachable DEF RunsInv
<1> QED BY <1>1, <1>2, PTL DEF RunsSpec

\* There is one running row at most, and runStop can reach its loop: over resets that
\* delete the row under the loop, restarts, and loops that end late.
THEOREM RunIsReachable == RunsSpec => []OneReachableRun
<1>1. RunsInv => OneReachableRun
  BY DEF RunsInv
<1> QED BY <1>1, RunsInvariance, PTL

=============================================================================
