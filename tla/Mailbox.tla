------------------------------ MODULE Mailbox ------------------------------
(***************************************************************************)
(* The mailbox of one terminal handle: the rows of the messages table      *)
(* addressed to it, the ways they leave it, and the calls that wait for    *)
(* them.                                                                   *)
(*                                                                         *)
(* A row leaves the mailbox by two independent bits.  `read' is set when   *)
(* an orchestration.check, ask or reply call consumes the row; `delivered' *)
(* when push-on-idle has typed it into the terminal and pressed Enter half *)
(* a second later (orca-runtime.ts, deliverPendingMessages).               *)
(*                                                                         *)
(* A step is the code between two awaits: insert, push and wake-up of one  *)
(* send are one step; a waiter that was resolved reads the table again     *)
(* only when its continuation runs.                                        *)
(***************************************************************************)
EXTENDS Integers, FiniteSets, FiniteSetsExt, Sequences

CONSTANTS
    MaxMsg,          \* bound: rows ever inserted
    MaxTimers,       \* bound: Enter keys pending at once
    Check,           \* orchestration.check calls on this handle
    Ask,             \* orchestration.ask calls from this handle
    Wanted,          \* the types a filtered check asks for
    Other,           \* the remaining types; a reply is one of them ("status")
    NoThread,
    Cursor,          \* the terminal runs Cursor Agent: Enter is left to the user
    ExitEscalations, \* terminals this coordinator dispatched to may exit
    WriteFaults      \* a write to a live PTY may be refused

ASSUME MailboxAssumption ==
    /\ MaxMsg \in Nat /\ MaxTimers \in Nat
    /\ Cursor \in BOOLEAN /\ ExitEscalations \in BOOLEAN /\ WriteFaults \in BOOLEAN
    /\ NoThread \notin Ask /\ Check \cap Ask = {} /\ Wanted \cap Other = {} /\ Other # {}

VARIABLES
    row,       \* the messages rows addressed to the handle
    idle,      \* leaf.lastAgentStatus is 'idle'
    writable,  \* leaf.writable
    timers,    \* batches typed into the terminal whose Enter is pending, oldest first
    injected,  \* how often a row was typed into the terminal
    call       \* the calls

vars == <<row, idle, writable, timers, injected, call>>

Msg == 1..MaxMsg
Type == Wanted \cup Other
Call == Check \cup Ask

Row == [st : {"unused", "unread", "read", "deleted"}, type : Type,
        thread : Ask \cup {NoThread}, delivered : BOOLEAN]

CallState == [pc : {"new", "waiting", "woken", "returned"}, filter : SUBSET Type,
              got : SUBSET Msg, aborted : BOOLEAN, expired : BOOLEAN]

TypeOK ==
    /\ row \in [Msg -> Row]
    /\ idle \in BOOLEAN /\ writable \in BOOLEAN
    /\ timers \in Seq(SUBSET Msg)
    /\ injected \in [Msg -> Nat]
    /\ call \in [Call -> CallState]

Init ==
    /\ row = [m \in Msg |-> [st |-> "unused", type |-> CHOOSE y \in Other : TRUE,
                             thread |-> NoThread, delivered |-> FALSE]]
    /\ idle \in BOOLEAN
    /\ writable = TRUE
    /\ timers = <<>>
    /\ injected = [m \in Msg |-> 0]
    /\ call = [c \in Call |-> [pc |-> "new", filter |-> Type, got |-> {},
                               aborted |-> FALSE, expired |-> FALSE]]

(***************************************************************************)
(* Rows.                                                                   *)
(***************************************************************************)
Unread(r, types) == {m \in Msg : r[m].st = "unread" /\ r[m].type \in types}
Undelivered(r) == {m \in Unread(r, Type) : ~r[m].delivered}
Replies(r, a) == {m \in Msg : r[m].st \in {"unread", "read"} /\ r[m].thread = a}

MarkAsRead(r, S) == [m \in Msg |-> IF m \in S THEN [r[m] EXCEPT !.st = "read"] ELSE r[m]]

\* The UPDATE finds no row when a reset has deleted it.
MarkAsDelivered(r, S) ==
    [m \in Msg |-> IF m \in S /\ r[m].st # "deleted"
                   THEN [r[m] EXCEPT !.delivered = TRUE] ELSE r[m]]

NextRow == {m \in Msg : row[m].st = "unused" /\ \A k \in Msg : row[k].st = "unused" => m <= k}

InsertMessage(m, type, thread) ==
    [row EXCEPT ![m] = [st |-> "unread", type |-> type, thread |-> thread, delivered |-> FALSE]]

(***************************************************************************)
(* deliverPendingMessages on the table r: type every unread, undelivered   *)
(* row into the terminal, and press Enter later.                           *)
(***************************************************************************)
\* Mutated: a row typed into Cursor Agent is not marked delivered.
DeliverUnmarked(r) ==
    \/ row' = r /\ UNCHANGED <<timers, injected>>
    \/ /\ Undelivered(r) # {} /\ writable
       /\ Len(timers) < MaxTimers
       /\ injected' = [m \in Msg |-> injected[m] + (IF m \in Undelivered(r) THEN 1 ELSE 0)]
       /\ row' = r
       /\ timers' = IF Cursor THEN timers ELSE Append(timers, Undelivered(r))

DeliverPendingMessages(r) ==
    \/ /\ Undelivered(r) = {} \/ ~writable \/ WriteFaults
       /\ row' = r
       /\ UNCHANGED <<timers, injected>>
    \/ /\ Undelivered(r) # {} /\ writable
       /\ Len(timers) < MaxTimers
       /\ injected' = [m \in Msg |-> injected[m] + (IF m \in Undelivered(r) THEN 1 ELSE 0)]
       /\ IF Cursor
          THEN row' = MarkAsDelivered(r, Undelivered(r)) /\ UNCHANGED timers
          ELSE row' = r /\ timers' = Append(timers, Undelivered(r))

\* Mutated: filtered waiters are not woken.
NotifyUnfiltered(type) ==
    call' = [c \in Call |-> IF call[c].pc = "waiting" /\ call[c].filter = Type
                            THEN [call[c] EXCEPT !.pc = "woken"] ELSE call[c]]

\* notifyMessageArrived: resolve the waiters of the handle whose filter has the type.
NotifyMessageArrived(type) ==
    call' = [c \in Call |-> IF call[c].pc = "waiting" /\ type \in call[c].filter
                            THEN [call[c] EXCEPT !.pc = "woken"] ELSE call[c]]

(***************************************************************************)
(* Messages arrive.                                                        *)
(***************************************************************************)
\* orchestration.send, and the question of another terminal's ask.
Send ==
    /\ \E m \in NextRow, type \in Type :
          /\ IF idle
             THEN DeliverPendingMessages(InsertMessage(m, type, NoThread))
             ELSE row' = InsertMessage(m, type, NoThread) /\ UNCHANGED <<timers, injected>>
          /\ NotifyMessageArrived(type)
    /\ UNCHANGED <<idle, writable>>

\* orchestration.reply to the question of ask a: wakes waiters, but is not pushed.
Reply(a) ==
    /\ call[a].pc # "new"
    /\ \E m \in NextRow, type \in Other :
          /\ row' = InsertMessage(m, type, a)
          /\ NotifyMessageArrived(type)
    /\ UNCHANGED <<idle, writable, timers, injected>>

\* failActiveDispatchOnExit writes the escalation row and leaves it at that.
ExitEscalation ==
    /\ ExitEscalations
    /\ \E m \in NextRow, type \in Wanted : row' = InsertMessage(m, type, NoThread)
    /\ UNCHANGED <<idle, writable, timers, injected, call>>

(***************************************************************************)
(* The terminal.                                                           *)
(***************************************************************************)
AgentBusy ==
    /\ idle
    /\ idle' = FALSE
    /\ UNCHANGED <<row, writable, timers, injected, call>>

\* Mutated: what arrived while the agent was busy is not pushed.
AgentIdleUnpushed ==
    /\ ~idle
    /\ idle' = TRUE
    /\ UNCHANGED <<row, writable, timers, injected, call>>

AgentIdle ==
    /\ ~idle
    /\ idle' = TRUE
    /\ DeliverPendingMessages(row)
    /\ UNCHANGED <<writable, call>>

PressEnter ==
    /\ timers # <<>>
    /\ timers' = Tail(timers)
    /\ \/ writable /\ row' = MarkAsDelivered(row, Head(timers))
       \/ (~writable \/ WriteFaults) /\ UNCHANGED row
    /\ UNCHANGED <<idle, writable, injected, call>>

TerminalExits ==
    /\ writable
    /\ writable' = FALSE
    /\ UNCHANGED <<row, idle, timers, injected, call>>

(***************************************************************************)
(* orchestration.check: read and mark, or wait once and then read and mark *)
(***************************************************************************)
Returns(c, S) == call' = [call EXCEPT ![c].pc = "returned", ![c].got = S]

\* Mutated: the rows are not marked read.
ReadUnmarked(c, types) ==
    /\ UNCHANGED row
    /\ Returns(c, Unread(row, types))

ReadAndReturn(c, types) ==
    /\ row' = MarkAsRead(row, Unread(row, types))
    /\ Returns(c, Unread(row, types))

CheckCalled(c) ==
    /\ call[c].pc = "new"
    /\ \E types \in {Wanted, Type} :
          IF call[c].aborted
          THEN Returns(c, {}) /\ UNCHANGED row
          ELSE \/ ReadAndReturn(c, types)
               \/ /\ Unread(row, types) = {}
                  /\ call' = [call EXCEPT ![c].pc = "waiting", ![c].filter = types]
                  /\ UNCHANGED row
    /\ UNCHANGED <<idle, writable, timers, injected>>

\* Mutated: the signal is not looked at after the wait.
CheckResumesAnyway(c) ==
    /\ call[c].pc = "woken"
    /\ ReadAndReturn(c, call[c].filter)
    /\ UNCHANGED <<idle, writable, timers, injected>>

CheckResumes(c) ==
    /\ call[c].pc = "woken"
    /\ IF call[c].aborted
       THEN Returns(c, {}) /\ UNCHANGED row
       ELSE ReadAndReturn(c, call[c].filter)
    /\ UNCHANGED <<idle, writable, timers, injected>>

(***************************************************************************)
(* orchestration.ask: look for a reply in the thread, else wait again      *)
(* until the deadline has passed or the client is gone.                    *)
(***************************************************************************)
AskCalled(a) ==
    /\ call[a].pc = "new"
    /\ call' = [call EXCEPT ![a].pc = IF call[a].aborted THEN "returned" ELSE "waiting"]
    /\ UNCHANGED <<row, idle, writable, timers, injected>>

\* Mutated: the deadline is looked at before the thread.
AskDeadlineFirst(a) ==
    /\ call[a].pc = "woken"
    /\ \/ /\ call[a].aborted \/ call[a].expired
          /\ Returns(a, {})
          /\ UNCHANGED row
       \/ /\ ~(call[a].aborted \/ call[a].expired)
          /\ Replies(row, a) # {}
          /\ row' = MarkAsRead(row, {Min(Replies(row, a))})
          /\ Returns(a, {Min(Replies(row, a))})
       \/ /\ ~(call[a].aborted \/ call[a].expired)
          /\ Replies(row, a) = {}
          /\ call' = [call EXCEPT ![a].pc = "waiting"]
          /\ UNCHANGED row
    /\ UNCHANGED <<idle, writable, timers, injected>>

AskResumes(a) ==
    /\ call[a].pc = "woken"
    /\ \/ /\ Replies(row, a) # {}
          /\ row' = MarkAsRead(row, {Min(Replies(row, a))})
          /\ Returns(a, {Min(Replies(row, a))})
       \/ /\ Replies(row, a) = {}
          /\ IF call[a].aborted \/ call[a].expired
             THEN Returns(a, {})
             ELSE call' = [call EXCEPT ![a].pc = "waiting"]
          /\ UNCHANGED row
    /\ UNCHANGED <<idle, writable, timers, injected>>

\* Mutated: the timer removes the waiter without resolving its promise.
ExpiresSilently(c) ==
    /\ call[c].pc = "waiting" /\ ~call[c].expired
    /\ call' = [call EXCEPT ![c].expired = TRUE]
    /\ UNCHANGED <<row, idle, writable, timers, injected>>

\* Mutated: the timer leaves the call in a state of its own.
ExpiresApart(c) ==
    /\ call[c].pc = "waiting"
    /\ call' = [call EXCEPT ![c].pc = "expired", ![c].expired = TRUE]
    /\ UNCHANGED <<row, idle, writable, timers, injected>>

\* The waiter's timeout, which for an ask is what remains until its deadline.
Expires(c) ==
    /\ call[c].pc = "waiting"
    /\ call' = [call EXCEPT ![c].pc = "woken", ![c].expired = TRUE]
    /\ UNCHANGED <<row, idle, writable, timers, injected>>

\* The client's socket closes.
Abort(c) ==
    /\ call[c].pc # "returned" /\ ~call[c].aborted
    /\ call' = [call EXCEPT ![c].aborted = TRUE,
                            ![c].pc = IF @ = "waiting" THEN "woken" ELSE @]
    /\ UNCHANGED <<row, idle, writable, timers, injected>>

\* The owner of the mailbox replies to a row, which marks that row read.
ReplyTo ==
    /\ \E m \in Unread(row, Type) : row' = MarkAsRead(row, {m})
    /\ UNCHANGED <<idle, writable, timers, injected, call>>

ResetMessages ==
    /\ \E m \in Msg : row[m].st \in {"unread", "read"}
    /\ row' = [m \in Msg |-> IF row[m].st = "unused" THEN row[m]
                             ELSE [row[m] EXCEPT !.st = "deleted"]]
    /\ UNCHANGED <<idle, writable, timers, injected, call>>

Resumes == (\E c \in Check : CheckResumes(c)) \/ (\E a \in Ask : AskResumes(a))

Next ==
    \/ Send \/ ExitEscalation \/ ReplyTo \/ ResetMessages
    \/ AgentBusy \/ AgentIdle \/ PressEnter \/ TerminalExits
    \/ \E c \in Check : CheckCalled(c)
    \/ \E a \in Ask : AskCalled(a) \/ Reply(a)
    \/ \E c \in Call : Expires(c) \/ Abort(c)
    \/ Resumes

Spec == Init /\ [][Next]_vars

(***************************************************************************)
(* Fairness: timers fire, promise continuations run, and an agent that is  *)
(* working becomes idle again.                                             *)
(***************************************************************************)
FairSpec ==
    /\ Spec
    /\ WF_vars(PressEnter)
    /\ WF_vars(AgentIdle)
    /\ WF_vars(Resumes)
    /\ \A c \in Call : WF_vars(Expires(c))

-----------------------------------------------------------------------------
(***************************************************************************)
(* Properties.                                                             *)
(***************************************************************************)

\* No lost wake-up: "after a message is inserted for a recipient, any blocking
\* orchestration.check --wait calls watching that handle must be woken"
\* (orca-runtime.ts:17793).  No call sleeps over a row it would return.
NoSleepingWaiter ==
    \A c \in Call :
        call[c].pc = "waiting" =>
            /\ c \in Check => Unread(row, call[c].filter) = {}
            /\ c \in Ask => Replies(row, c) = {}

\* A row leaves the mailbox once by each way.  One check at most hands it out, however
\* calls, waiters and time-outs interleave: worker_done handled by two coordinators would be
\* two completions.  And "each row is auto-pushed at most once" (db.ts:334), which holds
\* where a row is stamped as soon as it is typed in: in a terminal that runs Cursor Agent.
TakenOnce ==
    /\ \A c, k \in Check : c # k => call[c].got \cap call[k].got = {}
    /\ Cursor => \A m \in Msg : injected[m] <= 1

\* A call whose client has gone consumes nothing: its rows stay for the next reader.
AbortedTakesNothing ==
    [][\A c \in Check : call[c].aborted => call'[c].got = call[c].got]_vars

\* An ask does not report a time-out over a reply that has arrived: the reply may come
\* between the deadline and the continuation that notices it.
AskNeverDropsReply ==
    [][\A a \in Ask :
        (call[a].pc = "woken" /\ call'[a].pc = "returned" /\ call'[a].got = {})
        => Replies(row, a) = {}]_vars

\* Every waiting call returns, also an ask that distractor messages keep waking.
CallsReturn == \A c \in Call : call[c].pc = "waiting" ~> call[c].pc = "returned"

\* A message that was sent to a live terminal is eventually typed in and submitted,
\* unless somebody reads it, deletes it, or the terminal exits first.
PushReaches ==
    \A m \in Msg :
        (row[m].st = "unread" /\ row[m].thread = NoThread)
        ~> (row[m].delivered \/ row[m].st # "unread" \/ ~writable)

=============================================================================
