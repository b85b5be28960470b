---------------------------- MODULE Coordinator ----------------------------
(***************************************************************************)
(* The coordinator loops of Orca (class Coordinator in                     *)
(* src/src/main/runtime/orchestration/coordinator.ts) composed with the    *)
(* callers they share the store with: worker agents, terminal exits, and   *)
(* the orchestration.* RPC methods of other terminals.                     *)
(*                                                                         *)
(* orchestration.run looks at the rows of the runs only, so a run started  *)
(* after a reset has a loop of its own beside the loop of the run that was *)
(* deleted, which goes on.                                                 *)
(*                                                                         *)
(* All of them run on one JavaScript thread, so a step is the code between *)
(* two awaits.  A loop holds locals (a snapshot of ready tasks, a list of  *)
(* terminals, a count of free slots) across its awaits, and everything     *)
(* else may move meanwhile.  The first part of a tick and a `check' call   *)
(* have no await: they are several steps here (one store method each), and *)
(* Yielded keeps the other actors out until they are over.                 *)
(***************************************************************************)
EXTENDS OrchestrationDb, Sequences

CONSTANTS
    MaxConcurrent,  \* CoordinatorOptions.maxConcurrent
    HasWorktree,    \* CoordinatorOptions.worktree is set: probe the drift before a dispatch
    Env,            \* the behaviours of the environment that are switched on
    ManualStatus,   \* the statuses task-update writes
    Loop,           \* bound: coordinator loops in memory at a time
    MaxDeps,        \* bound: deps a task names
    MaxInbox,       \* bound: unread messages of the coordinator
    MaxExits,       \* bound: terminals that exit
    MaxFailures     \* bound: the failure_count from which no agent escalates any more

EnvKind == {"exits", "faults", "escalations", "asks", "gates", "rpc", "manual",
            "check", "reset", "stop", "misroute", "late"}

ASSUME OptionAssumption ==
    /\ MaxConcurrent \in Nat
    /\ HasWorktree \in BOOLEAN
    /\ Env \subseteq EnvKind
    /\ ManualStatus \subseteq TaskStatus
    /\ Loop # {}
    /\ MaxDeps \in Nat
    /\ MaxInbox \in Nat
    /\ MaxExits \in Nat
    /\ MaxFailures \in Nat

VARIABLES
    db,        \* the tables
    inbox,     \* unread messages to the coordinator's handle, in sequence order
    seen,      \* how many of them the reader that holds the event loop has handled
    checking,  \* an orchestration.check call holds the event loop
    run,       \* the status of the latest coordinator_runs row
    co,        \* the coordinator loops: the program counter and the locals of each
    rpc,       \* an orchestration.dispatch call in progress (bound: one at a time)
    term,      \* terminals: absent (not created yet), live, exited
    agent      \* what the agent that was sent dispatch c is doing

vars == <<db, inbox, seen, checking, run, co, rpc, term, agent>>

(***************************************************************************)
(* Types.                                                                  *)
(***************************************************************************)
LoopPc == {"off", "messages", "gates", "listing", "creating", "picking",
           "probing", "sending", "converging", "sleeping"}
RpcPc == {"idle", "probing", "sending"}

Message == [type : {"worker_done", "escalation", "decision_gate"},
            from : Handle, task : Task, ctx : 0..MaxCtx]

\* The locals of a loop.  The row of its run is recorded until a reset deletes it.
Locals == [pc : LoopPc, ready : SUBSET Task, terms : SUBSET Handle, slots : Int,
           task : Task, handle : Handle, ctx : 0..MaxCtx,
           broken : SUBSET Task, stop : BOOLEAN, recorded : BOOLEAN]

TypeOK ==
    /\ db \in Tables
    /\ inbox \in Seq(Message) /\ Len(inbox) <= MaxInbox
    /\ seen \in 0..MaxInbox
    /\ checking \in BOOLEAN
    /\ run \in {"none", "running", "completed", "failed"}
    /\ co \in [Loop -> Locals]
    /\ rpc \in [pc : RpcPc, task : Task, handle : Handle, ctx : 0..MaxCtx]
    /\ term \in [Handle -> {"absent", "live", "exited"}]
    /\ agent \in [Ctx -> {"none", "working", "raised", "reported", "gone"}]

AnyTask == CHOOSE t \in Task : TRUE
AnyHandle == CHOOSE h \in Handle : TRUE

\* A loop that is not running, and an RPC that is not in progress.
IdleLoop == [pc |-> "off", ready |-> {}, terms |-> {}, slots |-> 0, task |-> AnyTask,
             handle |-> AnyHandle, ctx |-> 0, broken |-> {}, stop |-> FALSE,
             recorded |-> FALSE]
IdleRpc == [pc |-> "idle", task |-> AnyTask, handle |-> AnyHandle, ctx |-> 0]

Init ==
    /\ db = EmptyTables
    /\ inbox = <<>>
    /\ seen = 0
    /\ checking = FALSE
    /\ run = "none"
    /\ co = [l \in Loop |-> IdleLoop]
    /\ rpc = IdleRpc
    /\ term = [h \in Handle |-> "absent"]
    /\ agent = [c \in Ctx |-> "none"]

(***************************************************************************)
(* Helpers.                                                                *)
(***************************************************************************)
\* The event loop is free: no synchronous stretch of code is under way.
Yielded == ~checking /\ \A l \in Loop : co[l].pc \notin {"messages", "gates"}

Becomes(l, locals) == co' = [co EXCEPT ![l] = locals]

LatestCtx(d, t) == Max(CtxOf(d, t))
NextCtx(d) == Min(UnusedCtx(d))

\* Mutated: a failed task is not done.
DoneCompletedOnly(d, t) == d.tstat[t] = "completed"

Done(d, t) == d.tstat[t] \in {"completed", "failed"}
Rows(d) == {t \in Task : HasTask(d, t)}

\* Bound of the model: gate rows are kept for the gates already asked for.
Asked == {i \in 1..Len(inbox) : inbox[i].type = "decision_gate"}
GateRowLeft == Cardinality(UnusedGate(db)) > Cardinality(Asked)

Post(m) == inbox' = Append(inbox, m)
InboxHasRoom == Len(inbox) < MaxInbox

(***************************************************************************)
(* lifecycle-reconciliation.ts: worker_done is accepted only from the      *)
(* assignee of the latest, still active dispatch of a dispatched task.     *)
(***************************************************************************)
\* Mutated: the task id alone is the completion authority.
AcceptsDoneByTask(d, m) == HasTask(d, m.task) /\ d.tstat[m.task] = "dispatched"

AcceptsDone(d, m) ==
    /\ HasTask(d, m.task)
    /\ HasCtx(d, m.ctx)
    /\ d.ctask[m.ctx] = m.task
    /\ d.cwho[m.ctx] = m.from
    /\ d.cstat[m.ctx] = "dispatched"
    /\ IsLatestCtx(d, m.task, m.ctx)
    /\ d.tstat[m.task] = "dispatched"

\* Mutated: the row is completed, the task is not.
ReconcileRowOnly(d, m) ==
    IF AcceptsDone(d, m) THEN CompleteActiveDispatchForTask(d, m.task) ELSE d

ReconcileWorkerDone(d, m) ==
    IF AcceptsDone(d, m) THEN UpdateTaskStatus(d, m.task, "completed") ELSE d

\* Mutated: an escalation about a task that is done still fails its dispatch.
AcceptsEscalationAlways(d, m) == HasTask(d, m.task) /\ CtxOf(d, m.task) # {}

\* handleEscalation fails the latest dispatch of the task, active or not.
AcceptsEscalation(d, m) == HasTask(d, m.task) /\ ~Done(d, m.task) /\ CtxOf(d, m.task) # {}

HandleEscalation(d, m) ==
    IF AcceptsEscalation(d, m) THEN FailDispatch(d, LatestCtx(d, m.task)) ELSE d

HandleMessage(d, m) ==
    CASE m.type = "worker_done" -> ReconcileWorkerDone(d, m)
      [] m.type = "escalation" -> HandleEscalation(d, m)
      [] m.type = "decision_gate" -> CreateGate(d, m.task, Min(UnusedGate(d)))

BrokenBy(before, after) ==
    {t \in Task : before.tstat[t] # "failed" /\ after.tstat[t] = "failed"}

(***************************************************************************)
(* orchestration.run: refused while a run row is 'running', whatever loops *)
(* there are.  The loop it starts fails at once when there are no tasks    *)
(* (decompose).  runStop reaches the loop of the running row only.         *)
(***************************************************************************)
CreateTasks ==
    /\ Yielded
    /\ run = "none" \/ "late" \in Env
    /\ \E t \in TasksIn(db, "unused"), D \in SUBSET Rows(db) :
          Cardinality(D) <= MaxDeps /\ db' = CreateTask(db, t, D)
    /\ UNCHANGED <<inbox, seen, checking, run, co, rpc, term, agent>>

StartRun(l) ==
    /\ Yielded
    /\ run # "running" /\ co[l].pc = "off"
    /\ IF Rows(db) = {}
       THEN run' = "failed" /\ UNCHANGED <<co, seen>>
       ELSE /\ run' = "running" /\ seen' = 0
            /\ Becomes(l, [IdleLoop EXCEPT !.pc = "messages", !.recorded = TRUE])
    /\ UNCHANGED <<db, inbox, checking, rpc, term, agent>>

RunStop(l) ==
    /\ "stop" \in Env
    /\ Yielded
    /\ run = "running" /\ co[l].recorded
    /\ Becomes(l, [co[l] EXCEPT !.stop = TRUE])
    /\ UNCHANGED <<db, inbox, seen, checking, run, rpc, term, agent>>

(***************************************************************************)
(* The synchronous head of a tick: processMessages, processDecisionGates   *)
(* and the first reads of dispatchReadyTasks.                              *)
(***************************************************************************)
ProcessMessage(l) ==
    /\ co[l].pc = "messages"
    /\ seen < Len(inbox)
    /\ seen' = seen + 1
    /\ db' = HandleMessage(db, inbox[seen + 1])
    /\ Becomes(l, [co[l] EXCEPT !.broken = @ \cup BrokenBy(db, db')])
    /\ UNCHANGED <<inbox, checking, run, rpc, term, agent>>

MarkAsRead(l) ==
    /\ co[l].pc = "messages"
    /\ seen = Len(inbox)
    /\ inbox' = <<>>
    /\ seen' = 0
    /\ Becomes(l, [co[l] EXCEPT !.pc = "gates"])
    /\ UNCHANGED <<db, checking, run, rpc, term, agent>>

\* Pending gates whose task exists and is not blocked.
UnheldGates(d) ==
    {g \in Gate : /\ d.gstat[g] = "pending"
                  /\ HasTask(d, d.gtask[g])
                  /\ d.tstat[d.gtask[g]] # "blocked"}

ReblockGatedTask(l) ==
    /\ co[l].pc = "gates"
    /\ \E g \in UnheldGates(db) : db' = UpdateTaskStatus(db, db.gtask[g], "blocked")
    /\ UNCHANGED <<inbox, seen, checking, run, co, rpc, term, agent>>

\* Mutated: the tasks already dispatched are not counted.
FreeSlotsAll(d) == MaxConcurrent

FreeSlots(d) == MaxConcurrent - Cardinality(TasksIn(d, "dispatched"))

SnapshotReadyTasks(l) ==
    /\ co[l].pc = "gates"
    /\ UnheldGates(db) = {}
    /\ Becomes(l, IF TasksIn(db, "ready") = {} \/ FreeSlots(db) <= 0
                  THEN [co[l] EXCEPT !.pc = "converging"]
                  ELSE [co[l] EXCEPT !.pc = "listing", !.ready = TasksIn(db, "ready"),
                                     !.slots = FreeSlots(db)])
    /\ UNCHANGED <<db, inbox, seen, checking, run, rpc, term, agent>>

(***************************************************************************)
(* dispatchReadyTasks from its first await on.  A failing listTerminals    *)
(* counts as an empty list.                                                *)
(***************************************************************************)
BusyHandles(d) ==
    {d.cwho[LatestCtx(d, t)] : t \in {u \in TasksIn(d, "dispatched") : CtxOf(d, u) # {}}}

WithTerminals(l, hs) ==
    Becomes(l, [co[l] EXCEPT !.terms = hs, !.pc = IF hs = {} THEN "creating" ELSE "picking"])

GetAvailableTerminals(l) ==
    /\ Yielded
    /\ co[l].pc = "listing"
    /\ \/ WithTerminals(l, {h \in Handle : term[h] = "live"} \ BusyHandles(db))
       \/ "faults" \in Env /\ WithTerminals(l, {})
    /\ UNCHANGED <<db, inbox, seen, checking, run, rpc, term, agent>>

CreateTerminal(l) ==
    /\ Yielded
    /\ co[l].pc = "creating"
    /\ \E h \in Handle :
          /\ term[h] = "absent"
          /\ term' = [term EXCEPT ![h] = "live"]
          /\ WithTerminals(l, {h})
    /\ UNCHANGED <<db, inbox, seen, checking, run, rpc, agent>>

CreateTerminalFails(l) ==
    /\ Yielded
    /\ co[l].pc = "creating"
    /\ "faults" \in Env \/ \A h \in Handle : term[h] # "absent"
    /\ Becomes(l, [co[l] EXCEPT !.pc = "converging"])
    /\ UNCHANGED <<db, inbox, seen, checking, run, rpc, term, agent>>

\* createDispatchContext for a task and a terminal chosen earlier: it looks at the
\* tables again and throws when they have moved on, which ends this iteration only.
LockTask(l, t, h, local) ==
    IF CanDispatch(db, t, h)
    THEN /\ UnusedCtx(db) # {}
         /\ db' = CreateDispatchContext(db, t, h, NextCtx(db))
         /\ Becomes(l, [local EXCEPT !.pc = "sending", !.ctx = NextCtx(db)])
    ELSE /\ Becomes(l, [local EXCEPT !.pc = "picking"])
         /\ UNCHANGED db

PickTask(l) ==
    /\ Yielded
    /\ co[l].pc = "picking"
    /\ co[l].slots > 0
    /\ \E t \in co[l].ready, h \in co[l].terms :
          LET local == [co[l] EXCEPT !.ready = @ \ {t}, !.terms = @ \ {h}, !.slots = @ - 1,
                                     !.task = t, !.handle = h]
          IN  IF HasWorktree
              THEN Becomes(l, [local EXCEPT !.pc = "probing"]) /\ UNCHANGED db
              ELSE LockTask(l, t, h, local)
    /\ UNCHANGED <<inbox, seen, checking, run, rpc, term, agent>>

StopPicking(l) ==
    /\ Yielded
    /\ co[l].pc = "picking"
    /\ co[l].slots <= 0 \/ co[l].ready = {} \/ co[l].terms = {}
    /\ Becomes(l, [co[l] EXCEPT !.pc = "converging"])
    /\ UNCHANGED <<db, inbox, seen, checking, run, rpc, term, agent>>

\* The drift probe answers: dispatch, or leave the task ready when the base is stale.
ProbeWorktreeDrift(l) ==
    /\ Yielded
    /\ co[l].pc = "probing"
    /\ \/ LockTask(l, co[l].task, co[l].handle, co[l])
       \/ Becomes(l, [co[l] EXCEPT !.pc = "picking"]) /\ UNCHANGED db
    /\ UNCHANGED <<inbox, seen, checking, run, rpc, term, agent>>

SendSucceeds(l) ==
    /\ Yielded
    /\ co[l].pc = "sending"
    /\ term[co[l].handle] = "live"
    /\ agent' = [agent EXCEPT ![co[l].ctx] = "working"]
    /\ Becomes(l, [co[l] EXCEPT !.pc = "picking"])
    /\ UNCHANGED <<db, inbox, seen, checking, run, rpc, term>>

\* Mutated: only the dispatch row is written.
FailRowOnly(d, c) == IF HasCtx(d, c) THEN FailCtx(d, c) ELSE d

\* failDispatch of a row a reset has deleted does nothing.
FailRow(d, c) == IF HasCtx(d, c) THEN FailDispatch(d, c) ELSE d

SendFails(l) ==
    /\ Yielded
    /\ co[l].pc = "sending"
    /\ term[co[l].handle] # "live" \/ "faults" \in Env
    /\ db' = FailRow(db, co[l].ctx)
    /\ Becomes(l, [co[l] EXCEPT !.pc = "picking",
                                !.broken = @ \cup {t \in {co[l].task} :
                                                    db'.cstat[co[l].ctx] = "circuit_broken"}])
    /\ UNCHANGED <<inbox, seen, checking, run, rpc, term, agent>>

(***************************************************************************)
(* checkConvergence, and the end of executeLoop.                           *)
(***************************************************************************)
AllDone(d) == \A t \in Rows(d) : Done(d, t)

\* Mutated: a status of its own for a stopped run.
FinalStatusStopped(l) ==
    IF co[l].stop THEN "stopped"
    ELSE IF co[l].broken # {} \/ TasksIn(db, "failed") # {} \/ ~AllDone(db)
         THEN "failed" ELSE "completed"

\* Mutated: failed tasks count as done.
FinalStatusLenient(l) == IF co[l].stop \/ ~AllDone(db) THEN "failed" ELSE "completed"

FinalStatus(l) ==
    IF co[l].stop \/ co[l].broken # {} \/ TasksIn(db, "failed") # {} \/ ~AllDone(db)
    THEN "failed" ELSE "completed"

\* The UPDATE finds no row when a reset has deleted the run, also when a newer one is running.
EndRun(l) ==
    /\ run' = IF co[l].recorded THEN FinalStatus(l) ELSE run
    /\ Becomes(l, IdleLoop)

CheckConvergence(l) ==
    /\ Yielded
    /\ co[l].pc = "converging"
    /\ IF AllDone(db)
       THEN EndRun(l)
       ELSE /\ Becomes(l, [co[l] EXCEPT !.pc = "sleeping", !.ready = {}, !.terms = {}, !.slots = 0,
                                        !.task = AnyTask, !.handle = AnyHandle, !.ctx = 0])
            /\ UNCHANGED run
    /\ UNCHANGED <<db, inbox, seen, checking, rpc, term, agent>>

Wake(l) ==
    /\ Yielded
    /\ co[l].pc = "sleeping"
    /\ IF co[l].stop
       THEN EndRun(l) /\ UNCHANGED seen
       ELSE Becomes(l, [co[l] EXCEPT !.pc = "messages"]) /\ seen' = 0 /\ UNCHANGED run
    /\ UNCHANGED <<db, inbox, checking, rpc, term, agent>>

LoopStep(l) ==
    \/ ProcessMessage(l) \/ MarkAsRead(l) \/ ReblockGatedTask(l) \/ SnapshotReadyTasks(l)
    \/ GetAvailableTerminals(l) \/ CreateTerminal(l) \/ CreateTerminalFails(l)
    \/ PickTask(l) \/ StopPicking(l) \/ ProbeWorktreeDrift(l) \/ SendSucceeds(l) \/ SendFails(l)
    \/ CheckConvergence(l) \/ Wake(l)

(***************************************************************************)
(* RPC methods called by other terminals and the user.                     *)
(***************************************************************************)
TaskUpdate ==
    /\ "manual" \in Env
    /\ Yielded
    /\ \E t \in Task, s \in ManualStatus :
          HasTask(db, t) /\ db' = UpdateTaskStatus(db, t, s)
    /\ UNCHANGED <<inbox, seen, checking, run, co, rpc, term, agent>>

GateCreate ==
    /\ "gates" \in Env
    /\ Yielded
    /\ GateRowLeft
    /\ \E t \in Rows(db) : db' = CreateGate(db, t, Min(UnusedGate(db)))
    /\ UNCHANGED <<inbox, seen, checking, run, co, rpc, term, agent>>

GateResolve ==
    /\ Yielded
    /\ \E g \in Gate : db.gstat[g] = "pending" /\ db' = ResolveGate(db, g)
    /\ UNCHANGED <<inbox, seen, checking, run, co, rpc, term, agent>>

\* gateResolve does not ask whether the gate is still pending.
GateResolveAgain ==
    /\ "gates" \in Env
    /\ Yielded
    /\ \E g \in Gate : db.gstat[g] = "resolved" /\ db' = ResolveGate(db, g)
    /\ UNCHANGED <<inbox, seen, checking, run, co, rpc, term, agent>>

\* orchestration.dispatch checks the status, awaits the agent probe when it is to
\* inject, then creates the dispatch; a terminal that has exited runs no agent.  Without
\* --inject the terminal is not looked at and nothing is sent: the caller prompts the
\* agent, if there is one.
LockForRpc(t, h, next) ==
    IF CanDispatch(db, t, h)
    THEN /\ UnusedCtx(db) # {}
         /\ db' = CreateDispatchContext(db, t, h, NextCtx(db))
         /\ rpc' = IF next = "sending"
                   THEN [pc |-> "sending", task |-> t, handle |-> h, ctx |-> NextCtx(db)]
                   ELSE IdleRpc
         /\ agent' = IF next = "sending" THEN agent
                     ELSE [agent EXCEPT ![NextCtx(db)] = IF term[h] = "live" THEN "working" ELSE "gone"]
    ELSE /\ rpc' = IdleRpc
         /\ UNCHANGED <<db, agent>>

RpcDispatch ==
    /\ "rpc" \in Env
    /\ Yielded
    /\ rpc.pc = "idle"
    /\ \E t \in TasksIn(db, "ready"), h \in Handle :
          /\ \/ /\ term[h] = "live"
                /\ rpc' = [pc |-> "probing", task |-> t, handle |-> h, ctx |-> 0]
                /\ UNCHANGED <<db, agent>>
             \/ /\ term[h] # "absent"
                /\ LockForRpc(t, h, "idle")
    /\ UNCHANGED <<inbox, seen, checking, run, co, term>>

RpcAgentDetected ==
    /\ Yielded
    /\ rpc.pc = "probing"
    /\ LockForRpc(rpc.task, rpc.handle, "sending")
    /\ UNCHANGED <<inbox, seen, checking, run, co, term>>

RpcNoAgent ==
    /\ Yielded
    /\ rpc.pc = "probing"
    /\ rpc' = IdleRpc
    /\ UNCHANGED <<db, inbox, seen, checking, run, co, term, agent>>

RpcSendSucceeds ==
    /\ Yielded
    /\ rpc.pc = "sending"
    /\ term[rpc.handle] = "live"
    /\ agent' = [agent EXCEPT ![rpc.ctx] = "working"]
    /\ rpc' = IdleRpc
    /\ UNCHANGED <<db, inbox, seen, checking, run, co, term>>

RpcSendFails ==
    /\ Yielded
    /\ rpc.pc = "sending"
    /\ term[rpc.handle] # "live" \/ "faults" \in Env
    /\ db' = FailRow(db, rpc.ctx)
    /\ rpc' = IdleRpc
    /\ UNCHANGED <<inbox, seen, checking, run, co, term, agent>>

\* orchestration.check on the coordinator's handle reconciles every worker_done it
\* reads and marks the whole batch read: the loop never sees those messages.
CheckBegins ==
    /\ "check" \in Env
    /\ Yielded
    /\ inbox # <<>>
    /\ checking' = TRUE
    /\ seen' = 0
    /\ UNCHANGED <<db, inbox, run, co, rpc, term, agent>>

CheckReadsMessage ==
    /\ checking
    /\ seen < Len(inbox)
    /\ seen' = seen + 1
    /\ LET m == inbox[seen + 1]
       IN  db' = IF m.type = "worker_done" THEN ReconcileWorkerDone(db, m) ELSE db
    /\ UNCHANGED <<inbox, checking, run, co, rpc, term, agent>>

CheckMarksRead ==
    /\ checking
    /\ seen = Len(inbox)
    /\ checking' = FALSE
    /\ inbox' = <<>>
    /\ seen' = 0
    /\ UNCHANGED <<db, run, co, rpc, term, agent>>

\* orchestration.reset --all or --tasks deletes the runs too; --all also deletes the
\* messages.  The loops are not told.
Reset ==
    /\ "reset" \in Env
    /\ Yielded
    /\ Rows(db) # {}
    /\ db' = ResetTasks(db)
    /\ inbox' \in {inbox, <<>>}
    /\ run' = "none"
    /\ co' = [l \in Loop |-> [co[l] EXCEPT !.recorded = FALSE]]
    /\ UNCHANGED <<seen, checking, rpc, term, agent>>

RpcStep ==
    \/ CreateTasks \/ (\E l \in Loop : StartRun(l) \/ RunStop(l)) \/ TaskUpdate
    \/ GateCreate \/ GateResolve \/ GateResolveAgain
    \/ RpcDispatch \/ RpcAgentDetected \/ RpcNoAgent \/ RpcSendSucceeds \/ RpcSendFails
    \/ CheckBegins \/ CheckReadsMessage \/ CheckMarksRead \/ Reset

(***************************************************************************)
(* Worker agents and their terminals.                                      *)
(***************************************************************************)
Sent(type, from, c) == [type |-> type, from |-> from, task |-> db.ctask[c], ctx |-> c]

Reporting(c) == agent[c] \in {"working", "raised"} /\ term[db.cwho[c]] = "live"

\* A worker reports its dispatch once.  With "misroute" another terminal that carries
\* the preamble in its history reports it.
WorkerDone(c) ==
    /\ Yielded
    /\ Reporting(c)
    /\ InboxHasRoom
    /\ \E h \in Handle :
          /\ h = db.cwho[c] \/ ("misroute" \in Env /\ term[h] = "live")
          /\ Post(Sent("worker_done", h, c))
    /\ agent' = [agent EXCEPT ![c] = "reported"]
    /\ UNCHANGED <<db, seen, checking, run, co, rpc, term>>

\* An agent that escalated may escalate again, and may still finish its work.
WorkerEscalates(c) ==
    /\ "escalations" \in Env
    /\ \A k \in Ctx : db.cfail[k] < MaxFailures
    /\ Yielded
    /\ Reporting(c)
    /\ InboxHasRoom
    /\ Post(Sent("escalation", db.cwho[c], c))
    /\ agent' = [agent EXCEPT ![c] = "raised"]
    /\ UNCHANGED <<db, seen, checking, run, co, rpc, term>>

WorkerAsks(c) ==
    /\ "asks" \in Env
    /\ Yielded
    /\ Reporting(c)
    /\ InboxHasRoom
    /\ GateRowLeft
    /\ Post(Sent("decision_gate", db.cwho[c], c))
    /\ agent' = [agent EXCEPT ![c] = "raised"]
    /\ UNCHANGED <<db, seen, checking, run, co, rpc, term>>

Exited == {h \in Handle : term[h] = "exited"}

\* failActiveDispatchOnExit: fail the terminal's active dispatch at once, and tell the
\* coordinator of the running run with an escalation about the same task.
TerminalExits ==
    /\ "exits" \in Env
    /\ Yielded
    /\ Cardinality(Exited) < MaxExits
    /\ InboxHasRoom
    /\ \E h \in Handle :
          /\ term[h] = "live"
          /\ term' = [term EXCEPT ![h] = "exited"]
          /\ agent' = [c \in Ctx |-> IF agent[c] # "none" /\ db.cwho[c] = h THEN "gone" ELSE agent[c]]
          /\ IF ActiveCtxAt(db, h) = {}
             THEN UNCHANGED <<db, inbox>>
             ELSE \E c \in ActiveCtxAt(db, h) :
                    /\ db' = FailDispatch(db, c)
                    /\ IF run = "running" THEN Post(Sent("escalation", h, c)) ELSE UNCHANGED inbox
    /\ UNCHANGED <<seen, checking, run, co, rpc>>

WorkerStep == TerminalExits \/ \E c \in Ctx : WorkerDone(c) \/ WorkerEscalates(c) \/ WorkerAsks(c)

Next == (\E l \in Loop : LoopStep(l)) \/ RpcStep \/ WorkerStep

Spec == Init /\ [][Next]_vars

(***************************************************************************)
(* Fairness: the event loop keeps running a coordinator's continuations    *)
(* (timers fire, RPCs to the runtime answer), and as long as workers that  *)
(* were sent a dispatch keep finding the event loop free, one of them      *)
(* reports, as its preamble tells it to.  A report waits for an event loop *)
(* that is busy now and then: strong fairness.                             *)
(***************************************************************************)
FairSpec ==
    /\ Spec
    /\ \A l \in Loop : WF_vars(LoopStep(l))
    /\ SF_vars(\E c \in Ctx : agent[c] = "working" /\ WorkerDone(c))

-----------------------------------------------------------------------------
(***************************************************************************)
(* The store as its other callers see it.  Every step of this module is    *)
(* one store method or leaves the tables alone.                            *)
(***************************************************************************)
Store == INSTANCE OrchestrationStore WITH
            FailFrom <- Nat,
            ManualStatus <- ManualStatus \cup {"completed", "blocked"},
            LateDeps <- TRUE, TornWrites <- FALSE

StoreSpec == Store!Spec
DispatchedHasLatestActive == Store!DispatchedHasLatestActive
NoPromotionWindow == Store!NoPromotionWindow

(***************************************************************************)
(* Properties.                                                             *)
(***************************************************************************)

\* No leaked dispatch: an active dispatch is the latest one of a task that is
\* dispatched.  A leaked row keeps its terminal locked (createDispatchContext refuses
\* it) and can never be completed by worker_done.  Stated for environments without
\* resets, gates and other dispatchers.
NoOrphanDispatch ==
    \A c \in ActiveCtx(db) :
        /\ db.tstat[db.ctask[c]] = "dispatched"
        /\ IsLatestCtx(db, db.ctask[c], c)

\* The DAG is respected through retries: no task is ready, dispatched or completed
\* before all its deps are completed.
DepsRespected ==
    \A t \in Task :
        db.tstat[t] \in {"ready", "dispatched", "completed"} =>
            \A u \in db.deps[t] : db.tstat[u] = "completed"

FailedRows(t) == {c \in CtxOf(db, t) : db.cstat[c] \in {"failed", "circuit_broken"}}

\* The circuit breaker bounds the retries of a task, and nothing else ends them: its
\* failures accumulate over its dispatch rows, so no more than three of them ever fail,
\* and it is failed exactly when its latest dispatch broke the circuit.
BreakerExact ==
    /\ \A t \in Task : Cardinality(FailedRows(t)) <= 3
    /\ \A t \in Rows(db) :
          db.tstat[t] = "failed" <=>
              \E c \in CtxOf(db, t) : IsLatestCtx(db, t, c) /\ db.cstat[c] = "circuit_broken"

\* The loop never has more than maxConcurrent tasks dispatched, although it counts
\* them before its awaits and dispatches after them.
SlotsRespected == Cardinality(TasksIn(db, "dispatched")) <= MaxConcurrent

\* A run reported completed left every task completed.
VerdictHonest ==
    run = "completed" => \A t \in Rows(db) : db.tstat[t] = "completed"

\* A worker_done closes no dispatch but the one it names, and only if its assignee
\* sent it ("Completion authority comes from the active dispatch context: taskId +
\* dispatchId + assignee handle", skills/orchestration/SKILL.md:36).
OnlyNamedDispatchCompletes ==
    [][\A c \in Ctx :
        (/\ seen' = seen + 1
         /\ inbox[seen + 1].type = "worker_done"
         /\ db'.cstat[c] # db.cstat[c])
        => inbox[seen + 1].ctx = c /\ inbox[seen + 1].from = db.cwho[c]]_vars

\* A task in a status that waits for somebody has that somebody: a dispatched one is being
\* worked on, by its latest dispatch, and a blocked one has a pending gate, the resolution
\* of which makes it ready.  Otherwise the task would stay as it is for good.
StatusIsBacked ==
    /\ DispatchedHasLatestActive
    /\ \A t \in TasksIn(db, "blocked") :
          \E g \in Gate : db.gstat[g] = "pending" /\ db.gtask[g] = t

\* A run that is started ends.
RunEnds == run = "running" ~> run # "running"

\* "After 3 consecutive failures on one task, the dispatch context circuit-breaks"
\* (skills/orchestration/SKILL.md:95): a circuit is broken only after three dispatches
\* of the task.
BreakerNeedsThreeDispatches ==
    \A c \in Ctx :
        db.cstat[c] = "circuit_broken" => Cardinality(CtxOf(db, db.ctask[c])) >= 3

=============================================================================
