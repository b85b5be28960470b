----------------------------- MODULE Heartbeats -----------------------------
(***************************************************************************)
(* The detector of hung workers: dispatch rows with their dispatched_at    *)
(* and last_heartbeat_at, the heartbeat messages on their way to the       *)
(* coordinator, and the query of getStaleDispatches.                       *)
(*                                                                         *)
(* The columns are text.  SQLite's datetime('now') writes                  *)
(* `2026-01-31 08:05:00'; the threshold comes from toISOString, which      *)
(* writes `2026-01-31T08:05:00.000Z'; SQLite compares them as strings.  A  *)
(* stamp is therefore <<day, separator, time of day>>, compared from left  *)
(* to right, with the space (0) before the T (1).                          *)
(*                                                                         *)
(* A tick of the clock is one heartbeat interval (5 minutes).              *)
(***************************************************************************)
EXTENDS Integers, Sequences

CONSTANTS
    Task,
    MaxCtx,      \* bound: dispatch rows ever inserted
    DayLength,   \* ticks in a day
    Hung,        \* HUNG_THRESHOLD_MS, in ticks
    MaxTime,     \* bound: the clock stops here
    MaxInbox     \* bound: heartbeat messages on their way

ASSUME ClockAssumption ==
    /\ MaxCtx \in Nat /\ MaxInbox \in Nat /\ MaxTime \in Nat
    /\ DayLength \in Nat \ {0} /\ Hung \in Nat \ {0} /\ DayLength <= MaxTime
    /\ Task # {}

VARIABLES
    now,     \* the clock
    row,     \* dispatch_contexts
    inbox,   \* unread heartbeat messages, in sequence order
    sent     \* when the worker of a dispatch last gave a sign of life

vars == <<now, row, inbox, sent>>

Ctx == 1..MaxCtx
Time == 0..MaxTime

Stamp == Nat \X {0, 1} \X (0..DayLength - 1)
DatetimeNow(t) == <<t \div DayLength, 0, t % DayLength>>
ToISOString(t) == <<t \div DayLength, 1, t % DayLength>>

\* String comparison of two stamps.
Before(a, b) ==
    \/ a[1] < b[1]
    \/ a[1] = b[1] /\ a[2] < b[2]
    \/ a[1] = b[1] /\ a[2] = b[2] /\ a[3] < b[3]

Row == [st : {"unused", "dispatched", "closed"}, task : Task, at : Stamp,
        beats : SUBSET Stamp]

TypeOK ==
    /\ now \in Time
    /\ row \in [Ctx -> Row]
    /\ inbox \in Seq([ctx : Ctx, created_at : Stamp])
    /\ sent \in [Ctx -> Time]

Init ==
    /\ now \in Hung..DayLength
    /\ row = [c \in Ctx |-> [st |-> "unused", task |-> CHOOSE t \in Task : TRUE,
                            at |-> DatetimeNow(0), beats |-> {}]]
    /\ inbox = <<>>
    /\ sent = [c \in Ctx |-> 0]

Tick == now < MaxTime /\ now' = now + 1 /\ UNCHANGED <<row, inbox, sent>>

\* createDispatchContext, for a task that has no active dispatch.
Dispatch(c) ==
    /\ row[c].st = "unused" /\ \A k \in 1..c - 1 : row[k].st # "unused"
    /\ \E t \in Task :
          /\ \A k \in 1..c - 1 : ~(row[k].st = "dispatched" /\ row[k].task = t)
          /\ row' = [row EXCEPT ![c] = [st |-> "dispatched", task |-> t,
                                        at |-> DatetimeNow(now), beats |-> {}]]
    /\ sent' = [sent EXCEPT ![c] = now]
    /\ UNCHANGED <<now, inbox>>

\* The worker of dispatch c, possibly one whose dispatch was closed long ago, sends a
\* heartbeat; insertMessage stamps it.
SendHeartbeat(c) ==
    /\ row[c].st # "unused"
    /\ Len(inbox) < MaxInbox
    /\ inbox' = Append(inbox, [ctx |-> c, created_at |-> DatetimeNow(now)])
    /\ sent' = [sent EXCEPT ![c] = now]
    /\ UNCHANGED <<now, row>>

\* Mutated: the time of reading is recorded.
RecordAtReading(r, m) ==
    IF r[m.ctx].st = "dispatched"
    THEN [r EXCEPT ![m.ctx].beats = {DatetimeNow(now)}]
    ELSE r

\* last_heartbeat_at is the stamp of the message, and only of an open dispatch.
RecordHeartbeat(r, m) ==
    IF r[m.ctx].st = "dispatched"
    THEN [r EXCEPT ![m.ctx].beats = {m.created_at}]
    ELSE r

\* A reader (the coordinator's tick, or a check) reconciles the oldest message.
ReadHeartbeat ==
    /\ inbox # <<>>
    /\ row' = RecordHeartbeat(row, Head(inbox))
    /\ inbox' = Tail(inbox)
    /\ UNCHANGED <<now, sent>>

\* The dispatch is completed or fails.
Close(c) ==
    /\ row[c].st = "dispatched"
    /\ row' = [row EXCEPT ![c].st = "closed"]
    /\ UNCHANGED <<now, inbox, sent>>

Next == Tick \/ ReadHeartbeat \/ \E c \in Ctx : Dispatch(c) \/ SendHeartbeat(c) \/ Close(c)

Spec == Init /\ [][Next]_vars

\* What warnStaleDispatches would warn about now.
GetStaleDispatches(threshold) ==
    {c \in Ctx :
        /\ row[c].st = "dispatched"
        /\ Before(row[c].at, threshold)
        /\ \A s \in row[c].beats : Before(s, threshold)}

StaleNow == GetStaleDispatches(ToISOString(now - Hung))

-----------------------------------------------------------------------------
(***************************************************************************)
(* Properties.                                                             *)
(***************************************************************************)

\* No false negative: an open dispatch whose own worker has been silent for longer
\* than the threshold is warned about, however late its last heartbeat is read and
\* whatever the workers of its task's earlier dispatches still send ("keeps the
\* zombie-heartbeat race from masking a hung retry", db.ts:675).
HungIsWarned ==
    \A c \in Ctx : row[c].st = "dispatched" /\ now - sent[c] > Hung => c \in StaleNow

DispatchedAt(c) == CHOOSE t \in Time : DatetimeNow(t) = row[c].at

\* "Without `dispatched_at < :threshold`, a freshly-dispatched worker would trip the
\* warning during its first heartbeat interval (false positive)" (db.ts:687-689), the
\* string comparison being said to order the times: no fresh dispatch is warned about.
FreshNotWarned == \A c \in StaleNow : now - DispatchedAt(c) >= Hung

=============================================================================
