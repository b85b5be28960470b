---------------------------- MODULE Automations ----------------------------
(***************************************************************************)
(* Scheduled agent runs.  AutomationService (main/automations/service.ts)  *)
(* sweeps the automations that are due, makes one run per occurrence in    *)
(* the store (main/persistence.ts) and hands it to the window's dispatch   *)
(* hook (useAutomationDispatchEvents.ts) or, in a serve process without a  *)
(* window, to the headless dispatcher (main/index.ts).                     *)
(*                                                                         *)
(* The main process is single threaded: nothing else happens in it while a *)
(* sweep is between two awaits (svc.at is "sync" or "advance").  Every     *)
(* store write is flushed, so a crash loses only what is in memory.        *)
(***************************************************************************)
EXTENDS Naturals, Sequences, FiniteSetsExt

CONSTANTS Automation,
          Prechecked,  \* automations with a precheck command
          Stored,      \* what the store may hold at startup: functions from automations
                       \* to schedules, a schedule being its occurrences up to Horizon
          Schedules,   \* the schedules a user may give
          Horizon,     \* bound on the clock
          Grace,       \* missedRunGraceMinutes
          Serve,       \* the process was started with --serve
          MaxRuns,     \* bound on the runs the properties speak of
          MaxEdits,    \* bound on what the user does to automations
          MaxLosses    \* bound on crashes and on pages closed or loaded again

ASSUME ConstantsAssumption ==
    /\ Prechecked \subseteq Automation
    /\ Horizon \in Nat /\ Grace \in Nat
    /\ MaxRuns \in Nat /\ MaxEdits \in Nat /\ MaxLosses \in Nat
    /\ Schedules \subseteq SUBSET (1 .. Horizon)
    /\ \A s \in Stored : DOMAIN s \subseteq Automation /\ \A a \in DOMAIN s : s[a] \subseteq 1 .. Horizon
    /\ Serve \in BOOLEAN

VARIABLES
    clock,
    auto,     \* the stored automations
    run,      \* the stored runs, in order of creation, with who carries each
    svc,      \* AutomationService: timer, webContents, rendererReady, the sweep
    left      \* edits and losses still to come

vars == <<clock, auto, run, svc, left>>

Never == Horizon + 1
Manual == 0

\* Mutated: no sentinel when the schedule has ended.
NextOrZero(s, t) == IF \E o \in s : o > t THEN Min({o \in s : o > t}) ELSE 0

NextAfter(s, t) == Min({o \in s : o > t} \cup {Never})
LatestBy(s, t) == Max({o \in s : o <= t} \cup {0})

\* Status "final" stands for completed, dispatch_failed and the skipped_ statuses.
\* Who carries a run:
Headless == {"precheck", "launch", "watch"}
InWindow == {"sent", "started", "marked"}

Init ==
    /\ clock = 0
    /\ \E stored \in Stored :
        auto = [a \in Automation |->
                  IF a \in DOMAIN stored
                  THEN [life |-> "live", enabled |-> TRUE, sched |-> stored[a],
                        next |-> NextAfter(stored[a], 0), since |-> 0]
                  ELSE [life |-> "new", enabled |-> FALSE, sched |-> {}, next |-> Never,
                        since |-> 0]]
    /\ run = <<>>
    /\ svc = [timer |-> FALSE, win |-> "none", ready |-> FALSE,
              at |-> "idle", now |-> 0, todo |-> {}, cur |-> 0]
    /\ left = [edits |-> MaxEdits, losses |-> MaxLosses]

Edit == left.edits > 0 /\ left' = [left EXCEPT !.edits = @ - 1]
Loss == left.losses > 0 /\ left' = [left EXCEPT !.losses = @ - 1]

\* The main process is not in the middle of a sweep.
Quiet == svc.at \notin {"sync", "advance"}

-----------------------------------------------------------------------------
\* The store.

Create(a) ==
    \E s \in Schedules :
        /\ Quiet /\ Edit /\ auto[a].life = "new"
        /\ auto' = [auto EXCEPT ![a] = [life |-> "live", enabled |-> TRUE, sched |-> s,
                                        next |-> NextAfter(s, clock), since |-> clock]]
        /\ UNCHANGED <<clock, run, svc>>

Toggle(a) ==
    /\ Quiet /\ Edit /\ auto[a].life = "live"
    /\ auto' = [auto EXCEPT ![a].enabled = ~@]
    /\ UNCHANGED <<clock, run, svc>>

Reschedule(a) ==
    \E s \in Schedules :
        /\ Quiet /\ Edit /\ auto[a].life = "live"
        /\ auto' = [auto EXCEPT ![a].sched = s, ![a].next = NextAfter(s, clock),
                                ![a].since = clock]
        /\ UNCHANGED <<clock, run, svc>>

\* deleteAutomation takes the automation's runs along.
Delete(a) ==
    /\ Quiet /\ Edit /\ auto[a].life = "live"
    /\ auto' = [auto EXCEPT ![a].life = "gone"]
    /\ run' = [i \in DOMAIN run |-> IF run[i].auto = a THEN [run[i] EXCEPT !.st = "deleted"]
                                                       ELSE run[i]]
    /\ UNCHANGED <<clock, svc>>

\* createAutomationRun gives back the run of an occurrence that has one.
NewRun(a, o) == [auto |-> a, occ |-> o, st |-> "pending", at |-> "none",
                 agent |-> "none", launched |-> 0, lost |-> FALSE]

RunOf(a, o) == {i \in DOMAIN run : run[i].auto = a /\ run[i].occ = o /\ run[i].st # "deleted"}

\* updateAutomationRun: the status is overwritten whatever it was.
Marked(rec, st) == IF rec.st = "deleted" THEN rec ELSE [rec EXCEPT !.st = st]

\* Nobody carries the run any more; its agent is of no interest.
Dropped(rec) == [rec EXCEPT !.at = "none", !.agent = "none"]

-----------------------------------------------------------------------------
\* requestDispatch: what becomes of a run, given whether its target resolves.

HasPrecheck(rec) == rec.occ # Manual /\ rec.auto \in Prechecked

Windowed == svc.win # "none" /\ svc.ready

Dispatched(rec, ok) ==
    IF ~ok \/ (~Windowed /\ ~Serve)
    THEN [rec EXCEPT !.st = "final", !.at = "none", !.lost = FALSE]
    ELSE IF Windowed
    THEN \* the message finds the hook, or a page that is loading again
         [rec EXCEPT !.st = "dispatching", !.launched = @ + 1,
                     !.at = IF svc.win = "ready" THEN "sent" ELSE "none",
                     !.agent = "none", !.lost = svc.win # "ready"]
    ELSE IF HasPrecheck(rec)
    THEN [rec EXCEPT !.at = "precheck", !.lost = FALSE]
    ELSE [rec EXCEPT !.at = "launch", !.launched = @ + 1, !.agent = "none", !.lost = FALSE]

\* Bound: a run by hand falls in a millisecond (its scheduledFor) in which its automation
\* has no other run; createAutomationRun would give that run back, to be handed out again.
RunNow(a) ==
    \E ok \in BOOLEAN :
        /\ Quiet /\ auto[a].life = "live" /\ Edit
        /\ run' = Append(run, Dispatched(NewRun(a, Manual), ok))
        /\ UNCHANGED <<clock, auto, svc>>

-----------------------------------------------------------------------------
\* evaluateDueRuns.

Due(a) == auto[a].life = "live" /\ auto[a].enabled /\ auto[a].next <= clock

\* The sweep walks the automations as they were when it read the list.
DueList == {[id |-> a, sched |-> auto[a].sched] : a \in {b \in Automation : Due(b)}}

SweepAnytime ==
    /\ svc.timer /\ svc.at \in {"idle", "wait"} /\ DueList # {}
    /\ svc' = [svc EXCEPT !.at = "sync", !.now = clock, !.todo = DueList]
    /\ UNCHANGED <<clock, auto, run, left>>

Sweep ==
    /\ svc.timer /\ svc.at = "idle" /\ DueList # {}
    /\ svc' = [svc EXCEPT !.at = "sync", !.now = clock, !.todo = DueList]
    /\ UNCHANGED <<clock, auto, run, left>>

\* runPrecheck throws when the automation is gone, and the sweep ends there.
Throws(rec) == rec.at = "precheck" /\ auto[rec.auto].life = "gone"

Idle == [svc EXCEPT !.at = "idle", !.todo = {}, !.cur = 0, !.now = 0]

\* evaluateAutomation up to its await, or up to advanceAutomationNextRun.
Evaluate ==
    /\ svc.at = "sync"
    /\ \E d \in svc.todo, ok \in BOOLEAN :
        LET o == LatestBy(d.sched, svc.now)
            old == RunOf(d.id, o)
            i == IF old = {} THEN Len(run) + 1 ELSE Min(old)
            fresh == IF old = {} THEN NewRun(d.id, o) ELSE run[i]
            rec == IF svc.now - o > Grace THEN [fresh EXCEPT !.st = "final"]
                                          ELSE Dispatched(fresh, ok)
            awaited == rec.at \in {"precheck", "launch"}
        IN
        /\ run' = [j \in DOMAIN run \cup {i} |->
                     IF j # i THEN run[j]
                     ELSE IF Throws(rec) THEN [fresh EXCEPT !.lost = TRUE]
                     ELSE rec]
        /\ svc' = IF Throws(rec) THEN Idle
                  ELSE [svc EXCEPT !.todo = @ \ {d}, !.cur = i,
                                   !.at = IF awaited THEN "wait" ELSE "advance"]
    /\ UNCHANGED <<clock, auto, left>>

AdvanceByClock ==
    /\ svc.at = "advance"
    /\ LET a == run[svc.cur].auto IN
       IF auto[a].life = "gone"
       THEN auto' = auto /\ svc' = Idle
       ELSE /\ auto' = [auto EXCEPT ![a].next = NextAfter(auto[a].sched, clock)]
            /\ svc' = IF svc.todo = {} THEN Idle ELSE [svc EXCEPT !.at = "sync", !.cur = 0]
    /\ UNCHANGED <<clock, run, left>>

\* advanceAutomationNextRun, with the schedule of now and the clock of the
\* sweep's start; it throws when the automation is gone.
Advance ==
    /\ svc.at = "advance"
    /\ LET a == run[svc.cur].auto IN
       IF auto[a].life = "gone"
       THEN auto' = auto /\ svc' = Idle
       ELSE /\ auto' = [auto EXCEPT ![a].next = NextAfter(auto[a].sched, svc.now)]
            /\ svc' = IF svc.todo = {} THEN Idle ELSE [svc EXCEPT !.at = "sync", !.cur = 0]
    /\ UNCHANGED <<clock, run, left>>

-----------------------------------------------------------------------------
\* requestHeadlessDispatch after its awaits.  A run that was deleted meanwhile
\* makes updateAutomationRun throw, in the catch clause too.

Awaited(i) == svc.at = "wait" /\ svc.cur = i

ResumedStuck(i) == IF Awaited(i) /\ run[i].st # "deleted"
                   THEN [svc EXCEPT !.at = "advance"] ELSE svc

Resumed(i) == IF ~Awaited(i) THEN svc
              ELSE IF run[i].st = "deleted" THEN Idle
              ELSE [svc EXCEPT !.at = "advance"]

PrecheckEnds(i) ==
    /\ Quiet /\ run[i].at = "precheck"
    /\ \/ /\ run' = [run EXCEPT ![i].at = "launch", ![i].launched = @ + 1]
          /\ svc' = svc
       \/ /\ run' = [run EXCEPT ![i] = Dropped(Marked(@, "final"))]
          /\ svc' = Resumed(i)
    /\ UNCHANGED <<clock, auto, left>>

LaunchEnds(i) ==
    /\ Quiet /\ run[i].at = "launch"
    /\ \E ok \in BOOLEAN :
        run' = [run EXCEPT ![i] =
                  IF ok /\ @.st # "deleted"
                  THEN [@ EXCEPT !.st = "dispatched", !.at = "watch", !.agent = "running"]
                  ELSE Dropped(Marked(@, "final"))]
    /\ svc' = Resumed(i)
    /\ UNCHANGED <<clock, auto, left>>

-----------------------------------------------------------------------------
\* markDispatchResult.  Usage attribution is left out.
Settle(i) ==
    /\ Quiet
    /\ run' = [run EXCEPT ![i] = Dropped(Marked(@, "final"))]
    /\ UNCHANGED <<clock, auto, svc, left>>

\* The agent finishes, also before its launch has been reported; an end nobody
\* carries any more changes nothing.
AgentEnds(i) ==
    /\ run[i].agent = "running" /\ run[i].at # "none"
    /\ run' = [run EXCEPT ![i].agent = "ended"]
    /\ UNCHANGED <<clock, auto, svc, left>>

\* The dispatcher's completion promise: the terminal is idle, blocked or gone.
HeadlessDone(i) ==
    /\ run[i].at = "watch" /\ run[i].agent = "ended"
    /\ Settle(i)

-----------------------------------------------------------------------------
\* The window's dispatch hook.

\* Project, SSH target, workspace, precheck or launch fails.
HookFails(i) ==
    /\ run[i].at = "sent"
    /\ Settle(i)

HookLaunches(i) ==
    /\ run[i].at = "sent"
    /\ run' = [run EXCEPT ![i].at = "started", ![i].agent = "running"]
    /\ UNCHANGED <<clock, auto, svc, left>>

HookMarksForgetful(i) ==
    /\ Quiet /\ run[i].at = "started"
    /\ run' = [run EXCEPT ![i] = IF @.st = "deleted" THEN Dropped(@)
                                 ELSE [@ EXCEPT !.st = "dispatched", !.at = "marked",
                                                !.agent = IF @ = "ended" THEN "none" ELSE @]]
    /\ UNCHANGED <<clock, auto, svc, left>>

\* The launch is reported and dispatchMarked set.  An end that came before
\* (pendingDone, pendingExitCode) is still in run[i].agent: it is reported next.
HookMarks(i) ==
    /\ Quiet /\ run[i].at = "started"
    /\ run' = [run EXCEPT ![i] = IF @.st = "deleted" THEN Dropped(@)
                                 ELSE [@ EXCEPT !.st = "dispatched", !.at = "marked"]]
    /\ UNCHANGED <<clock, auto, svc, left>>

\* handleAgentDone, or the exit of the process.
HookReports(i) ==
    /\ run[i].at = "marked" /\ run[i].agent = "ended"
    /\ Settle(i)

-----------------------------------------------------------------------------
\* Windows, time and crashes.

\* openMainWindow: at launch, from the dock or, in a serve process, when a
\* second instance is started.  It is the only caller of start().
OpenWindow ==
    /\ Quiet /\ svc.win = "none"
    /\ svc' = [svc EXCEPT !.win = "loading", !.ready = FALSE, !.timer = TRUE]
    /\ UNCHANGED <<clock, auto, run, left>>

RendererReady ==
    /\ Quiet /\ svc.win = "loading"
    /\ svc' = [svc EXCEPT !.win = "ready", !.ready = TRUE]
    /\ UNCHANGED <<clock, auto, run, left>>

\* The hook's locals die with its page; rendererReady outlives a reload.
Forgotten(stages) ==
    [i \in DOMAIN run |-> IF run[i].at \in stages THEN [Dropped(run[i]) EXCEPT !.lost = TRUE]
                                                 ELSE run[i]]

Reload ==
    /\ svc.win = "ready" /\ Loss
    /\ svc' = [svc EXCEPT !.win = "loading"]
    /\ run' = Forgotten(InWindow)
    /\ UNCHANGED <<clock, auto>>

CloseWindow ==
    /\ Quiet /\ svc.win # "none" /\ Loss
    /\ svc' = [svc EXCEPT !.win = "none", !.ready = FALSE]
    /\ run' = Forgotten(InWindow)
    /\ UNCHANGED <<clock, auto>>

\* A crash between the launch of a run and the advance of its automation leaves
\* the occurrence due: its launches are counted afresh.
Crash ==
    /\ Loss
    /\ svc' = [Idle EXCEPT !.timer = FALSE, !.win = "none", !.ready = FALSE]
    /\ run' = [i \in DOMAIN run |->
                 [Forgotten(Headless \cup InWindow)[i] EXCEPT
                     !.launched = IF i = svc.cur THEN 0 ELSE @]]
    /\ UNCHANGED <<clock, auto>>

Tick ==
    /\ Quiet /\ clock < Horizon
    /\ clock' = clock + 1
    /\ UNCHANGED <<auto, run, svc, left>>

-----------------------------------------------------------------------------

Carry(i) ==
    \/ PrecheckEnds(i) \/ LaunchEnds(i) \/ HeadlessDone(i) \/ AgentEnds(i)
    \/ HookFails(i) \/ HookLaunches(i) \/ HookMarks(i) \/ HookReports(i)

Service == Sweep \/ Evaluate \/ Advance

Next ==
    \/ \E a \in Automation : Create(a) \/ Toggle(a) \/ Reschedule(a) \/ Delete(a) \/ RunNow(a)
    \/ \E i \in DOMAIN run : Carry(i)
    \/ Service
    \/ OpenWindow \/ RendererReady \/ Reload \/ CloseWindow \/ Crash \/ Tick

Spec == Init /\ [][Next]_vars

\* The timer ticks; launches and prechecks end, and so do agents.
\* Nothing forces a window to open, to load or to stay.
FairSpec ==
    /\ Spec /\ WF_vars(Service)
    /\ \A i \in 1 .. MaxRuns : WF_vars(i \in DOMAIN run /\ Carry(i))

-----------------------------------------------------------------------------
\* Properties.

AutomationType ==
    [life : {"new", "live", "gone"}, enabled : BOOLEAN, sched : SUBSET (1 .. Horizon),
     next : 1 .. Never, since : 0 .. Horizon]
RunType ==
    [auto : Automation, occ : 0 .. Horizon,
     st : {"final", "pending", "dispatching", "dispatched", "deleted"},
     at : Headless \cup InWindow \cup {"none"}, agent : {"none", "running", "ended"},
     launched : Nat, lost : BOOLEAN]
DueType == [id : Automation, sched : SUBSET (1 .. Horizon)]
ServiceType ==
    [timer : BOOLEAN, win : {"none", "loading", "ready"}, ready : BOOLEAN,
     at : {"idle", "sync", "wait", "advance"}, now : 0 .. Horizon, todo : SUBSET DueType,
     cur : Nat]

\* The store and the service keep their types: the next occurrence of an automation lies within
\* the horizon or is Never, and the sweep is at a run that exists or at none.
TypeOK ==
    /\ clock \in 0 .. Horizon
    /\ auto \in [Automation -> AutomationType]
    /\ run \in Seq(RunType)
    /\ svc \in ServiceType /\ svc.cur <= Len(run)
    /\ left \in [edits : 0 .. MaxEdits, losses : 0 .. MaxLosses]

\* However sweeps, edits, windows and crashes interleave, an occurrence has one
\* run, handed to an agent once; only a crash before advanceAutomationNextRun, or
\* a run by hand in the same millisecond (RunNow), lets it be handed out again.
OccurrenceLaunchedOnce ==
    /\ \A i \in DOMAIN run : run[i].launched <= 1
    /\ \A i, j \in DOMAIN run :
        (run[i].auto = run[j].auto /\ run[i].occ = run[j].occ /\ run[i].occ # Manual
            /\ "deleted" \notin {run[i].st, run[j].st}) => i = j

\* nextRunAt never passes an occurrence of the schedule in force for which there
\* is neither a run nor a run of a later one (run_once_within_grace).
NothingSkipped ==
    \A a \in Automation : auto[a].life = "live" =>
        \A o \in auto[a].sched : auto[a].since < o /\ o < auto[a].next =>
            \E i \in DOMAIN run : run[i].auto = a /\ run[i].occ >= o

\* While the timer runs, whatever is due is served: no failed, deleted or
\* slow automation stops the sweeps for the others.
DueIsServed ==
    \A a \in Automation : (svc.timer /\ Due(a)) ~> ~(svc.timer /\ Due(a))

\* A run whose carrier neither crashed nor lost its page gets a final status,
\* also when the agent is done before its launch has been reported.  The runs it
\* names are all there are: createAutomationRun deduplicates those of the schedule.
RunsSettle ==
    /\ [](Len(run) <= MaxRuns)
    /\ \A i \in 1 .. MaxRuns :
        (i \in DOMAIN run /\ run[i].at # "none")
            ~> (i \in DOMAIN run /\ (run[i].st \in {"final", "deleted"} \/ run[i].lost))

\* index.ts:1395, "only a server process should execute schedules": a serve
\* process serves what is due.  The code starts the timer with a window only.
ServerServes == \A a \in Automation : Due(a) ~> ~Due(a)

=============================================================================
