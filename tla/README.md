# Formal models of Orca's orchestration runtime

Orca runs many coding agents in terminals and lets one of them, or a built-in
loop, coordinate the others: tasks with dependencies are dispatched to
terminals, workers report back by messages, questions become decision gates.
Around that core stand the RPC server through which agents, the command line and
phones reach it, the scheduler that starts agents by itself, and the relay that
serves remote hosts over SSH. This directory models these in TLA+, checks them
with TLC on small instances and proves the central facts with TLAPS for every
value of the constants.

Paths below are relative to the repository root (`src/main/...`).

## 1. Inventory

### The orchestration core (modelled)

| Component | State | Operations | What is hard | What makes it correct |
|---|---|---|---|---|
| Store (`runtime/orchestration/db.ts`) | tables `tasks`, `dispatch_contexts`, `decision_gates`, `messages`, `coordinator_runs` in SQLite | create/update/promote tasks, create/complete/fail dispatches, create/resolve/time out gates, reset | callers of every kind in any order; methods of several statements without a transaction | one active dispatch per terminal; a dispatched task is worked on; the circuit breaker counts right; a task whose deps are done is promoted |
| Coordinator loop (`coordinator.ts`) | program counter, snapshot of ready tasks, terminals, free slots, stop flag | tick: read messages, re-block gated tasks, dispatch, converge, sleep | three kinds of await inside one tick; every other actor moves meanwhile | no leaked dispatch, slots respected, DAG respected, honest verdict, runs end |
| Lifecycle reconciliation (`lifecycle-reconciliation.ts`) | none | accept or ignore `worker_done`, record `heartbeat` | stale, duplicated and misrouted reports | a report completes the dispatch it names and no other |
| Orchestration RPC (`rpc/methods/orchestration.ts`, `orchestration-gates.ts`) | `activeCoordinator` | send, check, reply, ask, dispatch, task-create, task-update, gates, run, run-stop, reset | waits, disconnects, deadlines | no lost wake-up, no row handed out twice |
| Mailbox in the runtime (`orca-runtime.ts`) | message waiters per handle, agent status, pending Enter timers | waitForMessage, notifyMessageArrived, deliverPendingMessages, failActiveDispatchOnExit | timers, a row with two independent bits | a message is pushed once and eventually |
| Hung-worker detector (`getStaleDispatches`) | `dispatched_at`, `last_heartbeat_at` | record heartbeat, list stale dispatches | late heartbeats, zombies, two text formats | hung workers are warned about, fresh ones are not |

All of it runs on the one thread of Electron's main process. The components
call each other synchronously and share the store; concurrency comes from
awaits, timers, terminal events and RPC calls in flight.

### Around the core (modelled in part)

| Component | State | Operations | What is hard | What makes it correct |
|---|---|---|---|---|
| RPC server (`runtime/runtime-rpc.ts`, `rpc/ws-transport.ts`, `rpc/unix-socket-transport.ts`, `rpc/e2ee-channel.ts`) | slots of long polls, sockets, `wsAlive`, `wsClientIds`, abort controllers | admit, dispatch, abort, keep-alive, idle timer, heartbeat, authenticate, revoke, close | calls that wait for minutes on sockets that end in five ways; half-open sockets | slots counted exactly and given back; waits survive; state of a device goes with its last socket |
| Subscriptions (`orca-runtime.ts`, `rpc/methods/files.ts`, `session-tabs.ts`, `terminal.ts`) | `subscriptionCleanups`, listeners | register, clean up by id or by connection, set up over awaits | the socket ends, or the same id is registered again, during the set-up | no listener outlives its socket |
| Automations (`automations/service.ts`, the store's runs, the window's hook, the headless dispatcher) | automations, runs, `webContents`, `rendererReady`, `evaluating` | sweep, evaluate, dispatch, mark, edit, open/reload/close a window | awaits inside a sweep, deletions under it, crashes between run and `nextRunAt` | an occurrence runs once, none is skipped, all that is due is served, runs settle |
| SSH multiplexer and file reads (`ssh/ssh-channel-multiplexer.ts`, `ssh-filesystem-stream-reader.ts`) | pending requests, dispose handlers, the reader's locals | request, time out, answer, notify, dispose, collect chunks | late answers, chunks before the metadata, broadcast chunks, link loss | contents are whole; answers are one's own; everything ends |
| Relay (`relay/dispatcher.ts`, `client-request-aborts.ts`, `fs-handler-file-read.ts`, `fs-stream-registry.ts`) | clients, requests in flight, stream registry | attach, detach, cancel, open, pump, release | clients that go during a read; a registry of bounded size | every stream's slot is released; stale answers are dropped |

The RPC server is how the calls of `Mailbox` and `Coordinator` arrive; what an
abort does to a waiting `check` is in `Mailbox`, when it comes is in
`RpcServer`. Automations and the relay share no state with the others.

### The rest of the program

| Component | State and hazards | Plan |
|---|---|---|
| Remote runtime client, SSH relay session, daemon sessions (`daemon/session.ts`) | reconnects, attach/detach/exit | later |
| Pull-request refresh (`github/pr-refresh-coordinator.ts`) | queue with coalescing and back-off | later |
| Git, code hosts, issue trackers, agent integrations, rate limits | wrappers of external programs | no |
| Renderer, mobile, CLI, Electron shell, updater, browser and computer drivers | views and platform glue | no |

`PROJECT.json` lists each of them, with the hazards found in the code and the
properties that are aimed at them.

## 2. Modules

| Module | Models | Extends |
|---|---|---|
| `OrchestrationDb` | the three tables as one record, and each store method as an operator from tables to tables | |
| `OrchestrationStore` | the store under arbitrary callers, with crashes between two statements | `OrchestrationDb` |
| `Coordinator` | the loops, the RPC calls, workers and terminal exits, composed over the same operators; instantiates `OrchestrationStore` as the specification it implements | `OrchestrationDb` |
| `Mailbox` | one terminal handle: its message rows, push-on-idle, `check` and `ask` calls | |
| `Heartbeats` | the detector of hung workers and its timestamps | |
| `CoordinatorRuns` | run rows, loops and `activeCoordinator` over starts, stops, resets and restarts | |
| `RpcServer` | connections over both transports, waiting calls, subscriptions | |
| `Automations` | the scheduler, its stored runs, the window and the headless launch | |
| `FileReads` | what a read of a remote file promises its caller: it settles once, with its own file or an error | |
| `RelayStreams` | file reads over the relay: reader, multiplexer, two queues, relay dispatcher, stream registry, reconnects; instantiates `FileReads` as the specification it implements | |
| `OrchestrationDbProofs` | lemmas: what each store method keeps, gives and takes | `OrchestrationDb`, TLAPS |
| `OrchestrationStoreProofs` | theorems, from the same lemmas | `OrchestrationStore`, `OrchestrationDbProofs` |
| `CoordinatorProofs` | theorems about the loops, and about the runs that start and stop them | `Coordinator`, `CoordinatorRuns`, `OrchestrationDbProofs` |
| `MailboxProofs`, `AutomationsProofs`, `RpcServerProofs`, `RelayStreamsProofs`, `HeartbeatsProofs` | theorems | their components, TLAPS |
| `MCOrchestrationStore`, `MCCoordinator`, `MCMailbox`, `MCHeartbeats`, `MCRpcServer`, `MCAutomations`, `MCRelayStreams` | model values for TLC | |

### How state and actions correspond to the code

*Tables.* A dispatch or gate row is its number in rowid order, so `ORDER BY
rowid DESC LIMIT 1` is `Max`. A task id that names no row is `"unused"` before
its INSERT and `"deleted"` after a reset: callers keep old ids, but never know
an id that has not been generated. `SetTask`, like an UPDATE, changes nothing
when the row is gone. Columns that no guard reads are left out.

*Steps.* A step is the code between two awaits. The first half of a tick
(`processMessages` to the first reads of `dispatchReadyTasks`) and a `check`
have no await but handle many messages: in `Coordinator` they are several steps,
one store method each, and `Yielded` keeps every other actor out until they are
over. That keeps each step one method of the store, which is what the refinement
to `OrchestrationStore` states.

*Loops.* `orchestration.run` looks at the rows of the runs only, so after a reset
a second loop starts beside the one whose row was deleted, and both go on over the
same tables and the same inbox. `co[l]` is one loop; `Loop` bounds how many are in
memory at a time. `recorded` says that the loop's row is still there: the final
UPDATE of another finds no row, and `runStop` does not reach it. `co[l].pc` names
the await (or the synchronous stretch) the loop is in:
`listing` = `listTerminals`, `creating` = `createTerminal`, `probing` =
`probeWorktreeDrift`, `sending` = `sendTerminal`, `sleeping` = `sleep`. The
locals that live across awaits (`ready`, `terms`, `slots`, `task`, `handle`,
`ctx`) are fields of `co[l]`.

*Environment.* `Env` switches the behaviours of the actors that are not in this
repository's hands: terminal exits, refused writes, escalating or asking agents,
another dispatcher, another reader of the coordinator's mailbox, manual
`task-update`s, gates by hand, resets, misrouted reports. Worker agents are
external: they do what the dispatch preamble tells them to, or any of the above.

*Mailbox.* A row has `read` (its state) and `delivered`, the two bits the code
keeps apart. `timers` holds the batches typed in whose Enter is due, in order:
every Enter is due 500 ms after its batch was typed. A resolved waiter is `woken` until its
continuation runs; `aborted` is the AbortSignal, `expired` the timer.

*Heartbeats.* A stamp is `<<day, separator, time of day>>`, compared from left
to right, as SQLite compares the two texts.

*RPC server.* A call is a handler that awaits; `pc` is where it waits. Short
calls change nothing that is modelled. The end of a socket by the server is two
steps, `dying` (destroy, terminate, close) and `gone` (the `close` event, which
aborts the signals, sweeps the subscriptions and forgets the client); what
another socket's `terminate` does in between is the point. `entries` is
`subscriptionCleanups`, `listening` the listeners it stands for; they differ
while a set-up is under way. `silent` is a device that sleeps.

*Automations.* `svc.at` is where `evaluateDueRuns` is: `sync` and `advance` are
the stretches between two awaits, during which nothing else of the main process
moves (`Quiet`), `wait` is the await of a headless dispatch. `run[i].at` says who
carries a run: `precheck`, `launch`, `watch` in the main process; `sent`,
`started`, `marked` in the window's hook. `todo` holds the automations as they
were when the sweep read the list. A schedule is the set of its occurrences up
to the horizon. `launched` counts hand-overs; `lost` marks a run whose carrier
crashed, reloaded or closed.

*Relay streams.* `conn[c]` is one SSH channel with the multiplexer on one side
and the relay's client on the other; `up` and `down` are its two directions, in
order. The answer to a request is handled in one step and its continuation
(`OnMetadata`) in a later one, so that chunks can be handled in between, as they
are when they arrive in the same read of the channel. A broken channel loses
what is written to it; each side notices in its own time (`Dispose`, `Detach`).

Definitions introduced by a comment `Mutated:` are not used by the models. Each
is a plausible bug in the definition that follows it, kept to show that a
property can fail: with the mutated form in place of the definition, TLC finds
the property violated (`"mutants"` in `PROJECT.json`).

## 3. Runs

Each configuration gives constants their values and overrides no definition.
The run marked ✗ is expected to fail: it states what a comment says and TLC
shows the code doing otherwise (section 6).

| Run | Question | Bounds |
|---|---|---|
| `store_lock` | do the lock, the references, the breaker's books and the append-only history survive all methods, all arguments and a crash after any statement? | 2 tasks, 2 terminals, 2 dispatches, 1 gate, failures up to 3 count further |
| `coord_workers` | over any DAG of two tasks, with exits, failing sends and escalations: no leaked dispatch, slots and deps respected, the breaker exact, an honest verdict | 2 tasks, 2 terminals, 1 loop, `maxConcurrent` 1, 4 dispatches, 1 exit, stops, inbox of 2, agents escalate until a failure count reaches 3 |
| `coord_hostile` | everything at once around one task: gates, a second dispatcher, a second reader, manual updates, misrouted reports, drift probes, stops, resets; is every step still one store method? | 1 task, 2 terminals, 1 loop, 2 dispatches, 1 gate, inbox of 1, `task-update` to `completed` |
| `coord_live` | does every run end? | 2 independent tasks, 1 loop, `maxConcurrent` 2, 6 dispatches, 1 exit, fairness below |
| `mailbox_waits` | what may waiting calls, time-outs, disconnects, pushes and resets do to a row? | 2 checks, 1 ask, 2 rows, Cursor Agent |
| `mailbox_live` | is every waiter woken, do calls return and pushes arrive? | 1 check, 1 ask, 2 rows, fairness below |
| `heartbeats_hung` | are hung workers always warned about? | 2 tasks, 2 dispatches, 4 ticks a day, threshold 2 ticks, two days |
| `runs` | one running row, a reachable loop, stops that take effect, over resets and restarts | 4 runs, fairness below |
| `rpc_server` | are slots, waits, listeners and client state right however sockets end? | 1 Unix socket, 2 WebSockets of one device, 2 long polls for 1 slot, a file watch, 2 subscriptions of one terminal, idle timer of 3 keep-alive intervals |
| `automations` | is every occurrence served once, and does every run settle? | 2 automations, one with a precheck, 2 occurrences, no grace, 1 edit, 1 crash, reload or close, with and without a window in a serve process |
| `relay_streams` | do the reads implement `FileReads` (each settles once, with its own file whole or not at all), and is everything given back? | 2 files of 2 chunks (or empty), 2 connections, registry of 2 |
| ✗ `rpc_ask` | "the RPC doesn't abort before the runtime's internal timeout resolves" | 1 Unix socket, 1 ask |

*Why the bounds are enough.* Two tasks and two terminals are the least with
which rows of one can be confused with rows of the other, a dep can exist and a
second terminal can be free while the first is busy. The circuit breaks at
three failures: four dispatch rows let one task use up its three attempts while
the other is dispatched once, six let both do so. Without resets there is one loop
at a time (proved: `Single`). In `coord_hostile` one loop is a bound, and a second
has a configuration of its own, `tlc -config MCCoordLoops.cfg MCCoordinator`: two
loops, two tasks, resets, exits and refused sends. It passes for `TypeOK`,
`StatusIsBacked`, `StoreSpec` and `OnlyNamedDispatchCompletes` (560,000 states, half
a minute); with everything else switched on two loops are out of TLC's reach. The
proofs of these four are for any number of loops. One RPC dispatch is in progress at
a time. A failure is counted by the exit, the refused send and the escalation, so
failures beyond three occur with few rows. One exit suffices for its interplay with a send and an escalation.
`MaxDeps` bounds the deps a new task names; with two tasks every DAG has at most
one. Bounds on rows stop the action that would insert another one; they name
themselves `Max...`. The store facts are proved without any bound on these
values.

Two WebSockets of one device are the least with which one is not the last; two
calls for one slot the least with which the cap refuses; two subscriptions with
one id on two sockets are the reconnect the code is written for. A watch and a
terminal stream are the two ways a set-up notices that it is too late. In
`automations` two occurrences of one schedule let a sweep be late for the first,
and two automations let one fail under the other; `MaxRuns` bounds the runs that
fairness speaks of, and `RunsSettle` says that there are no more. In
`relay_streams` two files of two chunks are the least with which chunks of one
can be taken for the other's and a stream can be cut in the middle; the second
connection is the reconnect, after which request ids start at 1 again.

`SYMMETRY` is declared for terminals, tasks and checks that are interchangeable
in the run, and only with safety properties. The `CHOOSE` defaults fill cells
that no operator reads (the terminal of a row that is not inserted, the locals
of a loop that is off), so they do not tell symmetric states apart.

*Deadlock.* It is checked for the store. Elsewhere it is switched off: a
program whose tasks are done, whose bounded rows are used up or whose clock has
reached its bound may stop.

*Fairness.* `Coordinator`: weak fairness of the loop (Node runs timers and
continuations) and strong fairness of the reports: a worker that was sent a
dispatch reports, as the preamble tells it to, and it may find the event loop
busy now and then. `RunEnds` is checked for independent tasks only: with a
failed dep the loop does not end (section 6). `Mailbox`: timers fire,
continuations run, a working agent becomes idle again. Nothing is assumed of
senders, readers or clients. `CoordinatorRuns`: a loop told to stop wakes up
from its sleep. `RpcServer`: the heartbeat interval fires, a destroyed socket
closes, and a handler whose signal is aborted returns; nothing is assumed of
clients. `Automations`: the timer ticks while it is armed, prechecks, launches
and agents end; no window need ever open, load or stay. `RelayStreams`: timers
fire, continuations run, queues are read, a closed socket is noticed and reads
of an open file return; the file system calls before that may hang for ever,
which is what `Timeout` is for.

## 4. Proofs

Every theorem holds for any sets of tasks, terminals, calls, automations and so
on, any bound and any environment, as far as its statement names no hypothesis;
the assumptions on constants are those of the modules (`ASSUME`), which say what
kind of thing a constant is, and that there is some type of message `check` does
not wait for (`Other # {}`: a reply has one). The store's and the loop's theorems
need the sets of tasks and terminals non-empty, and nothing finite: that the set
of dispatched tasks is finite, which the count of slots needs, is part of the
invariant, for a task gets there one step at a time.

TLC finds each inductive invariant true on the instances of section 3, where the
hypotheses hold there.

### The store

`OrchestrationDbProofs` has one lemma per store method and question, used by the
modules above it: does the method keep the tables well kept (`Good`), a dispatched
task worked on (`Tracked`), a blocked one held by a gate (`Held`), a pending one
waiting for something (`Waits`), a task in step with its dispatch rows
(`Orderly`)? Both the store under arbitrary callers and the coordinator are then a
matter of which methods are called with which arguments.

* `Invariance`, and from it `TypeCorrect`, `LockHolds`, `NoDanglingRows` and
  `BreakerCounts`: any callers, a crash after any statement. `Good` joins types,
  terminal lock, reference from rows to tasks and the breaker's accounting. The
  parts need each other: that `failDispatch` keeps the types needs that its row's
  task exists, and that `createDispatchContext` keeps the lock needs that rows not
  yet inserted are inactive. `HistoryIsAppendOnly` follows from the same case
  split.
* `DispatchedIsWorkedOn`, if no caller writes `dispatched` by hand and no method
  is cut short. The strengthening `InOrder` says that rows are used in rowid
  order: without it a row inserted later could rank below an older row of the same
  task and would not be its latest.
* `NoWindow`, if deps are open when a task is created, nobody writes `pending` by
  hand and no method is cut short. `Waits` is inductive together with the types.

The hypotheses of the last two are needed: `MCStoreLateDeps.cfg` shows what a late
dep does, a crash after the first statement of a method breaks both, and so does a
`task-update` that writes the status by hand.

### The coordinator

`Base` holds in every environment: types; `Good` tables; the task of a dispatch
row, deleted or not, is an id that was used (`Known`); finitely many dispatched
tasks; the reader of the inbox, loop or `check`, has not been interrupted
(`Reader`); ids held by messages, agents and the locals of a call were used by an
INSERT (`Refs`: the tables may have been reset since, so "exists" would be false);
and there is a free gate row for every gate asked for and not yet handled
(`GateRoom`, without which a read `decision_gate` would have no row to go to, the
bound being the model's).

* `ImplementsStore`: `Spec => StoreSpec`. Whatever any number
  of loops, RPC calls, workers and terminals do, a step is one method of `OrchestrationStore` or leaves the tables
  alone. The store is instantiated with every status that some caller writes, late
  deps, and no crashes, so what holds of it under those constants holds of the
  composition, `HistoryStands` and the lock among it. `TablesMove` says which step
  calls which method; the argument for each guard of a method (a row to insert is
  free, a gate's task exists) comes from `Base`.
* `CompletionAuthority` (`OnlyNamedDispatchCompletes`): in every environment, from
  the message read and the lemma about `ReconcileWorkerDone`.
* `NobodyWaitsForNobody` (`StatusIsBacked`): in every environment in which
  `task-update` does not write `dispatched` or `blocked` (it can: then there is a
  dispatched task nobody works on, or a blocked one with no gate). From `Tracked`
  and `Held`; that the loop re-blocks only for a pending gate is what keeps
  `Held`.
* `SingleInvariant`: without resets one loop runs at a time, and only while a row is
  `running`. The theorems below rest on it, and therefore exclude resets (section
  6).
* `NeverTooManyDispatched` (`SlotsRespected`): if nobody but the loop dispatches.
  `SlotsLeft` says that the slots counted before the awaits are still there after
  them, one more during the drift probe, whose task has been taken off the count.
  An RPC dispatch in an await of the loop breaks it: the code does not count again.
* `AloneInvariant`: a coordinator alone with its workers (`Undisturbed`: no RPC
  dispatch, manual update, gate or agent asking for one, and no reset), in the presence
  of exits, refused sends, late escalations, stolen mail, misrouted reports, stops and
  late tasks. `Orderly`
  ties each task to its rows: every row but the latest has failed, the pair of
  status and latest row's status is one of four, the latest row's count is the
  highest and no less than the number of failed rows, which is at most three. During
  `sending` the agent of the dispatch has not been told yet, so that nobody can
  complete it, which is what keeps the failure after a refused send from hitting a
  completed task. From it: `NoDispatchLeaks` (`NoOrphanDispatch`),
  `RetriesAreBounded` (`BreakerExact`) and `DepsComeFirst` (`DepsRespected`).
  Outside `Undisturbed` they are false, for reasons in the code: a gate resolved
  on a task makes it `ready` over a live dispatch, and after a reset the refused send
  of the old loop does so with a dispatch of the new one.
* `VerdictIsHonest` (`VerdictHonest`) and `PromotionLeavesNoWindow`
  (`NoPromotionWindow`) add that no task is created after the start. With `Single`
  no loop is on from the verdict on (`RunMove`), so that nothing moves the completed
  tasks; `Prelude` says that nothing was dispatched before the run.

### The mailbox

* `RowsLeaveOnce` (`TakenOnce`): `Taken` says that what a check handed out is read
  or deleted and in nobody else's result, and `PushedOnce` that, with Cursor
  Agent, a row a push may take was not typed before. Both rest on how a row ages
  (`Aged`): unread to read or deleted, never back.
* `AsksNeverOversleep` (`AsksAwake`), terminal exits included, and `NoLostWakeUp`
  (`NoSleepingWaiter`), without the escalation of a terminal exit, which wakes
  nobody (section 6). A call that waits has nothing it would return: it looked
  before it went to sleep, and every row that came since went by
  `NotifyMessageArrived`.
* `TheDeadTakeNothing` (`AbortedTakesNothing`) and `LateRepliesCount`
  (`AskNeverDropsReply`): action properties; the first needs `Taken` (a check that
  has not returned holds nothing), the second the types only.

### Automations

`Invariance`, from it `OccurrencesLaunchOnce` and `NoneSkipped`, for any
automations, schedules, horizon, grace, and any interleaving of edits, windows and
crashes. The invariant is about a list that was read before an await and is used
after it. `Position`, `Plans` and `Past` say where the sweep, the schedules and
the runs are in time; `Listed`, that an automation still on the list has the
schedule it was listed with, or one given to it after the sweep began; `Current`
says the same of the run being dispatched. `NotAgain` is the strengthening: a
launched occurrence lies behind `nextRunAt`, or the sweep stands at its run and is
about to move it there, and it lies behind what the list holds of the same
automation. Without the last part, a `Reschedule` in an await could bring an
occurrence back. `NothingSkipped` needs `Listed` and `Current`, because `Advance`
moves `nextRunAt` past what the present schedule says, not the one on the list.

### Relay streams

`Invariance`, from it `HandlersAreKept` (`Sound`), `AnswersAreMine`
(`AnswerIsMine`) and the refinement `ReadsKeepPromise` (`PromiseKept`), for any set
of files, any size, any number of connections, any bound of the registry and any
interleaving of breaks, time-outs, cancels and reconnects. In the code answers and
chunks do not name the file they are about; the `file` of a frame is there for the
properties. The invariant says why the numbers are enough. Its parts, with what
each is for:

* `Asked` and `Answers`: a request id that was given out on a connection belongs to
  one file (`Yours`), in the queue to the relay, in a running handler and in the
  answer; a stream id belongs to the file it was registered for (`Belongs`), in
  metadata and in what the pump broadcasts. Both say "was given out", not "is
  pending": requests time out and streams are released while frames about them are
  on their way.
* `Readers`: a reader sits on a connection that was opened and has numbered its
  request (`Placed`); the stream it is bound to is one of its own file, it has
  collected the first chunks of that file, all of them when it is done, and the
  frames that wait for its metadata belong to their streams (`Collects`).
* `Unopened`: a connection to come has no handlers, without which `Reconnect` could
  break `HandlersMatch`, the list of handlers against the readers under way.

A step of the client is judged by `ClientStep`, one of the relay by `RelayStep`:
numbers only grow, registered streams keep their files, and whatever is new on a
queue is genuine. The queue that is drained when the metadata comes and the handler
list are folds over sequences. The induction theorems of the library cannot be used
for them (they take an operator as a parameter), so `FoldExists` and
`FoldInduction` go by the least counterexample; `DrainKeeps` and `WithoutKeeps` are
what the steps cite. The proof is why the arms of `Accept` exclude each other: with
a guard of its own for late frames among them, what such a frame does would be left
open by the `CASE`.

The refinement maps a reader to what its caller sees (`Outcome`, `Content`). Steps
of the relay are stutters. `ClientKeepsPromise` covers the client's: readers only
move from active to active or settled, and if one of them succeeds no other settles
in the same step. That holds of a frame because the readers it settles are readers
of its file, of which there is one (`NoticeMoves`); an answer or a disposal only
fails readers, any number of them.

### The others

* `RunIsReachable` (`OneReachableRun`, in `CoordinatorProofs`), for any number of
  runs, with types as the only strengthening: the active-run check reads the table,
  and `Ends` clears `activeCoordinator` for its own run only.
* `RpcServerProofs`: `SlotsCounted`, `WaitsOutliveIdle`, `NoListenerLeaks` and
  `LastTearsDown`, for any sets of connections, devices and calls, any cap and any
  idle time. The invariant joins types, the exact count of slots, that a client id
  is registered for open and dying sockets only, that a socket with a waiting long
  poll is never quiet long enough, that whoever listens has an entry, and that
  entries belong to sockets that are not gone. The last two carry the leak
  argument: the sweep of a closing socket removes its entries, so a listener
  without one could never be removed. `session.tabs.subscribe` is exempt (section
  6).
* `HeartbeatsProofs`: `HungWarned`, for any length of the day, threshold and
  horizon. The invariant `SignsKept` says that every stamp of a dispatch, in its
  row or in a message on its way, was written no later than its worker's last sign
  of life; `OlderIsBefore` is the arithmetic of days: a stamp written with a space
  sorts before the threshold of the same or a later time, across midnight too.
  (The converse is what fails, section 6.)

### Only model-checked

* Liveness, which rests on fairness and `ENABLED`, is beyond the prover:
  `RunEnds`, `CallsReturn`, `PushReaches`, `StopTakesEffect`, `ComesToRest`,
  `SlotsComeBack`, `DueIsServed` and `RunsSettle` stay with TLC.

## 5. Not modelled

Group addresses (one message per recipient; a filter over terminals), message
priorities, the read-only methods, parameter parsing, logging and the text of
preambles. Messages without a usable payload change nothing; among them is the
`decision_gate` that `orchestration.ask` sends, which names no task, so that the
loop marks it read and creates no gate. The coordinator's loop is not restarted
in `Coordinator` (a restart kills it; what is left behind is the subject of
`CoordinatorRuns`). The response of a call on its way to a client that
disconnects is outside `Mailbox`.

`RpcServer` leaves out the caps on connections, messages that are too large or
malformed, requests whose own authentication fails, the JSON form of the
terminal stream, notification and account subscriptions (they register without
an await), browser screencasts and the stop of the server. `Automations` leaves
out external schedulers, the attribution of usage, dispatch tokens and the page
that shows the runs, and merges the final statuses. `RelayStreams` leaves out
acknowledgements and keep-alives (a link breaks, however that is noticed),
requests from the relay to the client, the relay's stdin client and grace
period, and every request but the file read.

What is not modelled at all is listed in `PROJECT.json`. Most of the repository's
lines are views (the renderer and the mobile application), and clients and
parsers of other people's programs: they keep little state of their own, and
none that several actors change.

## 6. Where code and words part

The failing run:

* `rpc_ask`: `isLongPollRequest` is said to be the single place that classifies
  handlers which block for an external event, and does not know
  `orchestration.ask`. No keep-alive is armed, and the 30 s idle timer of the
  Unix socket closes the connection of an ask that waits ten minutes by default.
  The handler has no signal either: it waits on and marks the reply read.

Further disagreements are kept as configurations, outside the list of runs; each
is reproduced by `tlc -config <cfg> <module>` and ends in a violation:

| Configuration (module) | Property | What TLC shows |
|---|---|---|
| `MCStoreLateDeps.cfg` (`MCOrchestrationStore`) | `NoPromotionWindow` | a task created after its deps were completed stays pending for ever ("there's no window ...", `db.ts:546`) |
| `MCCoordBreaker.cfg` (`MCCoordinator`) | `BreakerNeedsThreeDispatches` | one terminal exit during a send is counted up to three times and can fail a task for good ("after 3 consecutive failures", `skills/orchestration/SKILL.md:95`) |
| `MCMailboxExit.cfg` (`MCMailbox`) | `NoSleepingWaiter` | the escalation of a terminal exit wakes nobody (blocking calls "must be woken", `orca-runtime.ts:17793`) |
| `MCHeartbeatsFresh.cfg` (`MCHeartbeats`) | `FreshNotWarned` | `datetime('now')` and `toISOString()` texts do not compare in time order within a day, so fresh dispatches are warned about (`db.ts:687`) |
| `MCRpcTabs.cfg` (`MCRpcServer`) | `NoLeakedTabsListener` | `session.tabs.subscribe` registers after its await without a look at its signal; if the socket closed meanwhile, its listener stays ("don't leak across reconnects", `runtime-rpc.ts:738`) |
| `MCRelayDispose.cfg` (`MCRelayStreams`) | `DisposeEndsReads` | `dispose` walks the live list of handlers while they take themselves off it (`ssh-channel-multiplexer.ts:278`); every second read is passed over and waits for ever. `handleNotification` iterates a snapshot for that very reason (`:413`) |
| `MCAutomationsServe.cfg` (`MCAutomations`) | `ServerServes` | a serve process never arms the timer: `start()` is called with a window only (`index.ts:742`), although "only a server process should execute schedules" of its host (`index.ts:1395`) |

The models show more behaviour of the code that words suggest otherwise. No run
is spent on it, and the properties are scoped so that they do not claim it:

* Gates: resolving one of two gates makes the task ready although the other is
  pending, and a gate resolved on a pending task makes it ready before its deps
  are done (`ResolveGate`). `DepsRespected` is checked without gates.
* Crashes: there is no transaction around a status update and its promotions; a
  crash between them strands the children (`TornUpdateTaskStatus`).
  `NoPromotionWindow` is checked, and proved, without crashes.
* Failed deps: a failed dep leaves its child pending, which the stuck detection
  counts as active, so the loop polls for ever (`CheckConvergence`). `RunEnds`
  is checked for independent tasks.
* Pushes: outside Cursor Agent rows are stamped delivered half a second after
  they were typed, and a push in between types them again (`PressEnter`).
  `TakenOnce` is about Cursor Agent.
* A check returns the whole batch (`ReadAndReturn`), where the guide speaks of
  one message at a time.
* A reset deletes the run row under a live loop, and a second run starts beside
  it (`Resets` in `CoordinatorRuns`, `StartRun` in `Coordinator`). When a send of
  the first is refused, `failDispatch` puts the task of an old row back to `ready`
  without a look whether that row is active (`db.ts:704-731`), over the live
  dispatch of the second: with `NoOrphanDispatch` among the invariants of
  `MCCoordLoops.cfg`, TLC finds a trace of 23 states. So `NoOrphanDispatch`,
  `BreakerExact`, `DepsRespected`, `VerdictHonest` and `NoPromotionWindow` are
  checked and proved without resets, and `SlotsRespected` as well, because each loop
  counts slots of its own. After a restart the old row stays `running`.
  `OneReachableRun` is about rows.
* Automations: `rendererReady` stays true while a page loads again, so a run sent
  then reaches nobody and stays `dispatching` (`Dispatched`); the same befalls
  runs whose page or process goes. `RunsSettle` excepts them. A crash between the
  launch and the advance of `nextRunAt` launches the occurrence again (`Crash`).
  A run by hand in the very millisecond of an occurrence is given that occurrence's
  run by `createAutomationRun` (`persistence.ts:4097`) and hands it out again;
  `RunNow` leaves that millisecond out.
* Subscriptions: the failure of one `terminal.subscribe` cleans up by id and may
  end the healthy stream of a later one (`SetUpFails`).

## 7. Plan

1. The client's side of the RPC connection (`remote-runtime-client.ts`): time-outs
   and reconnects over `RpcServer`, responses lost to dead clients, composed with
   `Mailbox`.
2. The relay session's reconnect attempts over `RelayStreams`, the relay's grace
   period, and the daemon's sessions.
3. Pull-request refresh queue.
4. An abstract run life cycle that `Automations` implements, and an abstract task
   life cycle that `OrchestrationStore` implements; restarts in `Coordinator`;
   several handles in `Mailbox`, with group addresses.
5. Proofs: that at most one loop drives a run over restarts too, over `Coordinator`
   and `CoordinatorRuns` together, once restarts are in `Coordinator`.
