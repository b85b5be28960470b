--------------------------- MODULE MailboxProofs ---------------------------
(***************************************************************************)
(* Proofs about the mailbox of a terminal handle, for every set of calls   *)
(* and of message types and every bound on the rows and the timers.        *)
(***************************************************************************)
EXTENDS Mailbox, WellFoundedInduction, TLAPS

\* The calls' own steps.
CheckStep == \E c \in Check : CheckCalled(c) \/ CheckResumes(c)
AskStep == \E a \in Ask : AskCalled(a) \/ AskResumes(a)
WaiterStep == \E c \in Call : Expires(c) \/ Abort(c)

\* The steps that bring a row, and those of the terminal and of the mailbox's owner.
ArrivalStep == Send \/ ExitEscalation \/ \E a \in Ask : Reply(a)
TerminalStep == AgentBusy \/ AgentIdle \/ PressEnter \/ TerminalExits
OwnerStep == ReplyTo \/ ResetMessages

\* Next, by who moves.
LEMMA NextCases ==
    ASSUME Next
    PROVE  ArrivalStep \/ TerminalStep \/ OwnerStep \/ CheckStep \/ AskStep \/ WaiterStep
BY DEF Next, Resumes, ArrivalStep, TerminalStep, OwnerStep, CheckStep, AskStep, WaiterStep

-----------------------------------------------------------------------------
(***************************************************************************)
(* The operators on the table.                                             *)
(***************************************************************************)

\* The oldest reply is one of the replies.
LEMMA MinIsAMember ==
    ASSUME NEW S \in SUBSET Msg, S # {}
    PROVE  Min(S) \in S
<1> DEFINE R == OpToRel(<, Nat)
<1>1. IsWellFoundedOn(R, Nat)
  BY NatLessThanWellFounded
<1>2. \A x, y \in Nat : y < x => <<y, x>> \in R
  BY DEF OpToRel
<1>3. S \subseteq Nat
  BY MailboxAssumption DEF Msg
<1> HIDE DEF R
<1>4. PICK x \in S : \A y \in S : ~(<<y, x>> \in R)
  BY <1>1, <1>3, WFMin
<1>5. \A y \in S : x <= y
  <2> TAKE y \in S
  <2>1. ~(y < x)
    BY <1>2, <1>3, <1>4
  <2> QED BY <1>3, <2>1
<1> QED BY <1>5 DEF Min

\* The updates of the table keep its rows rows.
LEMMA UpdateTypes ==
    ASSUME NEW r \in [Msg -> Row], NEW S
    PROVE  /\ MarkAsRead(r, S) \in [Msg -> Row]
           /\ MarkAsDelivered(r, S) \in [Msg -> Row]
BY DEF MarkAsRead, MarkAsDelivered, Row

\* So does an insertion.
LEMMA InsertTypes ==
    ASSUME TypeOK, NEW m \in Msg, NEW type \in Type, NEW thread \in Ask \cup {NoThread}
    PROVE  InsertMessage(m, type, thread) \in [Msg -> Row]
BY DEF TypeOK, InsertMessage, Row

\* And a push.
LEMMA PushTypes ==
    ASSUME TypeOK, NEW r \in [Msg -> Row], DeliverPendingMessages(r)
    PROVE  row' \in [Msg -> Row] /\ timers' \in Seq(SUBSET Msg) /\ injected' \in [Msg -> Nat]
<1>1. CASE row' = r /\ UNCHANGED <<timers, injected>>
  BY <1>1 DEF TypeOK
<1>2. CASE injected' = [m \in Msg |-> injected[m] + (IF m \in Undelivered(r) THEN 1 ELSE 0)]
           /\ IF Cursor
              THEN row' = MarkAsDelivered(r, Undelivered(r)) /\ UNCHANGED timers
              ELSE row' = r /\ timers' = Append(timers, Undelivered(r))
  <2>1. Undelivered(r) \in SUBSET Msg
    BY DEF Undelivered, Unread
  <2>2. injected' \in [Msg -> Nat]
    BY <1>2 DEF TypeOK
  <2>3. row' \in [Msg -> Row]
    BY <1>2, UpdateTypes
  <2>4. timers \in Seq(SUBSET Msg) /\ Append(timers, Undelivered(r)) \in Seq(SUBSET Msg)
    BY <2>1 DEF TypeOK
  <2>5. timers' = timers \/ timers' = Append(timers, Undelivered(r))
    BY <1>2
  <2> QED BY <2>2, <2>3, <2>4, <2>5
<1> QED BY <1>1, <1>2 DEF DeliverPendingMessages

\* A wake-up changes the waiting calls it concerns, and only where they stand.
LEMMA NotifyTypes ==
    ASSUME TypeOK, NEW type, NotifyMessageArrived(type)
    PROVE  call' \in [Call -> CallState]
<1>1. \A s \in CallState : [s EXCEPT !.pc = "woken"] \in CallState
  BY DEF CallState
<1> QED BY <1>1 DEF TypeOK, NotifyMessageArrived

\* A call that returns with rows of the table.
LEMMA ReturnTypes ==
    ASSUME TypeOK, NEW c \in Call, NEW S \in SUBSET Msg, Returns(c, S)
    PROVE  call' \in [Call -> CallState]
<1>1. \A s \in CallState : [[s EXCEPT !.pc = "returned"] EXCEPT !.got = S] \in CallState
  BY DEF CallState
<1>2. call' = [call EXCEPT ![c] = [[call[c] EXCEPT !.pc = "returned"] EXCEPT !.got = S]]
  BY DEF TypeOK, Returns
<1> QED BY <1>1, <1>2 DEF TypeOK

-----------------------------------------------------------------------------
(***************************************************************************)
(* Types.                                                                  *)
(***************************************************************************)

\* Initially the types are right.
LEMMA InitTypes == Init => TypeOK
<1> SUFFICES ASSUME Init PROVE TypeOK
  OBVIOUS
<1>1. (CHOOSE y \in Other : TRUE) \in Type
  BY MailboxAssumption DEF Type
<1>2. row \in [Msg -> Row]
  BY <1>1 DEF Init, Row
<1>3. call \in [Call -> CallState]
  BY DEF Init, CallState
<1>4. timers \in Seq(SUBSET Msg)
  BY DEF Init
<1>5. writable \in BOOLEAN /\ idle \in BOOLEAN /\ injected \in [Msg -> Nat]
  BY DEF Init
<1> QED BY <1>2, <1>3, <1>4, <1>5 DEF TypeOK

\* An arrival keeps the types.
LEMMA ArrivalTypes ==
    ASSUME TypeOK, ArrivalStep
    PROVE  TypeOK'
<1> USE DEF NextRow
<1>1. CASE Send
  <2>1. PICK m \in NextRow, type \in Type :
           /\ IF idle
              THEN DeliverPendingMessages(InsertMessage(m, type, NoThread))
              ELSE row' = InsertMessage(m, type, NoThread) /\ UNCHANGED <<timers, injected>>
           /\ NotifyMessageArrived(type)
    BY <1>1 DEF Send
  <2>2. InsertMessage(m, type, NoThread) \in [Msg -> Row]
    BY InsertTypes
  <2>3. row' \in [Msg -> Row] /\ timers' \in Seq(SUBSET Msg) /\ injected' \in [Msg -> Nat]
    BY <2>1, <2>2, PushTypes DEF TypeOK
  <2>4. call' \in [Call -> CallState]
    BY <2>1, NotifyTypes
  <2> QED BY <1>1, <2>3, <2>4 DEF TypeOK, Send
<1>2. ASSUME NEW a \in Ask, Reply(a) PROVE TypeOK'
  <2>1. PICK m \in NextRow, type \in Other :
           row' = InsertMessage(m, type, a) /\ NotifyMessageArrived(type)
    BY <1>2 DEF Reply
  <2>2. row' \in [Msg -> Row]
    BY <2>1, InsertTypes DEF Type
  <2>3. call' \in [Call -> CallState]
    BY <2>1, NotifyTypes
  <2> QED BY <1>2, <2>2, <2>3 DEF TypeOK, Reply
<1>3. CASE ExitEscalation
  <2>1. PICK m \in NextRow, type \in Wanted : row' = InsertMessage(m, type, NoThread)
    BY <1>3 DEF ExitEscalation
  <2>2. row' \in [Msg -> Row]
    BY <2>1, InsertTypes DEF Type
  <2> QED BY <1>3, <2>2 DEF TypeOK, ExitEscalation
<1> QED BY <1>1, <1>2, <1>3 DEF ArrivalStep

\* So do the terminal and the owner of the mailbox.
LEMMA TerminalTypes ==
    ASSUME TypeOK, TerminalStep \/ OwnerStep
    PROVE  TypeOK'
<1>1. CASE AgentBusy \/ TerminalExits
  BY <1>1 DEF TypeOK, AgentBusy, TerminalExits
<1>2. CASE AgentIdle
  BY <1>2, PushTypes DEF TypeOK, AgentIdle
<1>3. CASE PressEnter
  <2>1. timers' \in Seq(SUBSET Msg)
    <3>1. timers \in Seq(SUBSET Msg) /\ timers # <<>> /\ timers' = Tail(timers)
      BY <1>3 DEF TypeOK, PressEnter
    <3> QED BY <3>1
  <2>2. row' \in [Msg -> Row]
    <3>1. row \in [Msg -> Row]
      BY DEF TypeOK
    <3>2. row' = row \/ row' = MarkAsDelivered(row, Head(timers))
      BY <1>3 DEF PressEnter
    <3> QED BY <3>1, <3>2, UpdateTypes
  <2> QED BY <1>3, <2>1, <2>2 DEF TypeOK, PressEnter
<1>4. CASE ReplyTo
  BY <1>4, UpdateTypes DEF TypeOK, ReplyTo
<1>5. CASE ResetMessages
  <2>1. row' \in [Msg -> Row]
    BY <1>5 DEF TypeOK, ResetMessages, Row
  <2> QED BY <1>5, <2>1 DEF TypeOK, ResetMessages
<1> QED BY <1>1, <1>2, <1>3, <1>4, <1>5 DEF TerminalStep, OwnerStep

\* And the calls.
LEMMA CallTypes ==
    ASSUME TypeOK, CheckStep \/ AskStep \/ WaiterStep
    PROVE  TypeOK'
<1>1. row \in [Msg -> Row] /\ call \in [Call -> CallState]
  BY DEF TypeOK
<1>2. \A types : Unread(row, types) \in SUBSET Msg
  BY DEF Unread
<1>3. ASSUME NEW c \in Check, CheckCalled(c) \/ CheckResumes(c) PROVE TypeOK'
  <2>1. c \in Call
    BY DEF Call
  <2>2. row' \in [Msg -> Row]
    BY <1>1, <1>3, UpdateTypes DEF CheckCalled, CheckResumes, ReadAndReturn
  <2>3. ASSUME NEW types \in {Wanted, Type},
               call' = [call EXCEPT ![c].pc = "waiting", ![c].filter = types]
        PROVE  call' \in [Call -> CallState]
    <3>1. types \in SUBSET Type
      BY DEF Type
    <3>2. \A s \in CallState : [[s EXCEPT !.pc = "waiting"] EXCEPT !.filter = types] \in CallState
      BY <3>1 DEF CallState
    <3>3. call' = [call EXCEPT ![c] = [[call[c] EXCEPT !.pc = "waiting"] EXCEPT !.filter = types]]
      BY <1>1, <2>1, <2>3
    <3> QED BY <1>1, <3>2, <3>3
  <2>4. \A S \in SUBSET Msg : Returns(c, S) => call' \in [Call -> CallState]
    BY <2>1, ReturnTypes
  <2>5. call' \in [Call -> CallState]
    BY <1>2, <1>3, <2>3, <2>4 DEF CheckCalled, CheckResumes, ReadAndReturn
  <2> QED BY <1>3, <2>2, <2>5 DEF TypeOK, CheckCalled, CheckResumes
<1>4. ASSUME NEW a \in Ask, AskCalled(a) PROVE TypeOK'
  <2>1. call' \in [Call -> CallState]
    BY <1>1, <1>4 DEF AskCalled, CallState, Call
  <2> QED BY <1>4, <2>1 DEF TypeOK, AskCalled
<1>5. ASSUME NEW a \in Ask, AskResumes(a) PROVE TypeOK'
  <2>1. row' \in [Msg -> Row]
    BY <1>1, <1>5, UpdateTypes DEF AskResumes
  <2>2. Replies(row, a) \in SUBSET Msg
    BY DEF Replies
  <2>3. Replies(row, a) # {} => {Min(Replies(row, a))} \in SUBSET Msg
    BY <2>2, MinIsAMember
  <2>4. \A S \in SUBSET Msg : Returns(a, S) => call' \in [Call -> CallState]
    BY ReturnTypes DEF Call
  <2>5. ASSUME call' = [call EXCEPT ![a].pc = "waiting"] PROVE call' \in [Call -> CallState]
    BY <1>1, <2>5 DEF CallState, Call
  <2>6. call' \in [Call -> CallState]
    BY <1>5, <2>3, <2>4, <2>5 DEF AskResumes
  <2> QED BY <1>5, <2>1, <2>6 DEF TypeOK, AskResumes
<1>6. ASSUME NEW c \in Call, Expires(c) \/ Abort(c) PROVE TypeOK'
  <2>1. ASSUME NEW k \in CallState, NEW p \in {"new", "waiting", "woken", "returned"}
        PROVE  /\ [[k EXCEPT !.pc = p] EXCEPT !.expired = TRUE] \in CallState
               /\ [[k EXCEPT !.aborted = TRUE] EXCEPT !.pc = p] \in CallState
    BY Zenon DEF CallState
  <2>2. call[c] \in CallState
    BY <1>1
  <2>3. call[c].pc \in {"new", "waiting", "woken", "returned"}
    BY <2>2 DEF CallState
  <2>4. \A k \in CallState : [call EXCEPT ![c] = k] \in [Call -> CallState]
    BY <1>1
  <2>5. ASSUME Expires(c) PROVE call' \in [Call -> CallState]
    <3>1. call' = [call EXCEPT ![c] = [[@ EXCEPT !.pc = "woken"] EXCEPT !.expired = TRUE]]
      BY <1>1, <2>5, Zenon DEF Expires
    <3> QED BY <2>1, <2>2, <2>4, <3>1
  <2>6. ASSUME Abort(c) PROVE call' \in [Call -> CallState]
    <3>1. PICK p \in {"new", "waiting", "woken", "returned"} :
             call' = [call EXCEPT ![c] = [[@ EXCEPT !.aborted = TRUE] EXCEPT !.pc = p]]
      BY <1>1, <2>3, <2>6, Zenon DEF Abort
    <3> QED BY <2>1, <2>2, <2>4, <3>1
  <2>7. call' \in [Call -> CallState]
    BY <1>6, <2>5, <2>6
  <2> QED BY <1>6, <2>7 DEF TypeOK, Expires, Abort
<1> QED BY <1>3, <1>4, <1>5, <1>6 DEF CheckStep, AskStep, WaiterStep

\* Every step keeps the types.
LEMMA StepTypes ==
    ASSUME TypeOK, [Next]_vars
    PROVE  TypeOK'
<1>1. CASE UNCHANGED vars
  BY <1>1 DEF TypeOK, vars
<1>2. CASE Next
  BY <1>2, NextCases, ArrivalTypes, TerminalTypes, CallTypes
<1> QED BY <1>1, <1>2

\* The variables hold rows, timers and calls of the shapes the code gives them: no pushed
\* batch and no returned result names a row that does not exist.
THEOREM TypeCorrect == Spec => []TypeOK
<1> QED BY InitTypes, StepTypes, PTL DEF Spec

-----------------------------------------------------------------------------
(***************************************************************************)
(* What a step does to the rows.  A row that is in the table is read or    *)
(* deleted, in this order and never back; an unused one is brought by an   *)
(* arrival, one at a time.                                                 *)
(***************************************************************************)
Aged(m) ==
    /\ row'[m].type = row[m].type /\ row'[m].thread = row[m].thread
    /\ \/ row'[m].st = row[m].st
       \/ row[m].st = "unread" /\ row'[m].st \in {"read", "deleted"}
       \/ row[m].st = "read" /\ row'[m].st = "deleted"

Brought(m, type, thread) ==
    /\ row[m].st = "unused" /\ row'[m].st = "unread"
    /\ row'[m].type = type /\ row'[m].thread = thread

\* Marking rows of the table read ages them.
LEMMA MarkAges ==
    ASSUME TypeOK, NEW S, \A m \in S : row[m].st \in {"unread", "read"},
           row' = MarkAsRead(row, S)
    PROVE  \A m \in Msg : Aged(m)
BY DEF TypeOK, Row, MarkAsRead, Aged

\* The rows that a query finds are in the table.
LEMMA QueriesFindRows ==
    /\ \A types : \A m \in Unread(row, types) : m \in Msg /\ row[m].st \in {"unread", "read"}
    /\ \A a : \A m \in Replies(row, a) : m \in Msg /\ row[m].st \in {"unread", "read"}
    /\ \A a \in Ask : Replies(row, a) # {} => Min(Replies(row, a)) \in Replies(row, a)
<1>1. \A a : Replies(row, a) \in SUBSET Msg
  BY DEF Replies
<1>2. \A a \in Ask : Replies(row, a) # {} => Min(Replies(row, a)) \in Replies(row, a)
  BY <1>1, MinIsAMember
<1> QED BY <1>2 DEF Unread, Replies

\* A push on a table r leaves everything but the stamps of r as it is.
LEMMA PushKeepsRows ==
    ASSUME NEW r \in [Msg -> Row], DeliverPendingMessages(r), NEW m \in Msg
    PROVE  /\ row'[m].st = r[m].st
           /\ row'[m].type = r[m].type /\ row'[m].thread = r[m].thread
<1>1. row' = r \/ row' = MarkAsDelivered(r, Undelivered(r))
  BY DEF DeliverPendingMessages
<1> QED BY <1>1 DEF MarkAsDelivered, Row

\* Rows age at every step but an arrival.
LEMMA RowsAge ==
    ASSUME TypeOK, TerminalStep \/ OwnerStep \/ CheckStep \/ AskStep \/ WaiterStep
    PROVE  \A m \in Msg : Aged(m)
<1>1. ASSUME UNCHANGED row PROVE \A m \in Msg : Aged(m)
  BY <1>1 DEF Aged
<1>2. CASE AgentIdle
  BY <1>2, PushKeepsRows DEF TypeOK, AgentIdle, Aged
<1>3. CASE PressEnter
  <2>1. ASSUME NEW S, row' = MarkAsDelivered(row, S) PROVE \A m \in Msg : Aged(m)
    BY <2>1 DEF TypeOK, Row, MarkAsDelivered, Aged
  <2> QED BY <1>1, <1>3, <2>1 DEF PressEnter
<1>4. CASE ResetMessages
  BY <1>4 DEF TypeOK, Row, ResetMessages, Aged
<1>5. CASE ReplyTo
  BY <1>5, MarkAges, QueriesFindRows DEF ReplyTo
<1>6. ASSUME NEW c \in Check, CheckCalled(c) \/ CheckResumes(c) PROVE \A m \in Msg : Aged(m)
  <2>1. UNCHANGED row \/ \E types : row' = MarkAsRead(row, Unread(row, types))
    BY <1>6 DEF CheckCalled, CheckResumes, ReadAndReturn
  <2> QED BY <1>1, <2>1, MarkAges, QueriesFindRows
<1>7. ASSUME NEW a \in Ask, AskCalled(a) \/ AskResumes(a) PROVE \A m \in Msg : Aged(m)
  <2>1. \/ UNCHANGED row
        \/ Replies(row, a) # {} /\ row' = MarkAsRead(row, {Min(Replies(row, a))})
    BY <1>7 DEF AskCalled, AskResumes
  <2>2. CASE Replies(row, a) # {} /\ row' = MarkAsRead(row, {Min(Replies(row, a))})
    <3>1. \A m \in {Min(Replies(row, a))} : row[m].st \in {"unread", "read"}
      BY <2>2, QueriesFindRows
    <3> QED BY <2>2, <3>1, MarkAges
  <2> QED BY <1>1, <2>1, <2>2
<1>8. CASE AgentBusy \/ TerminalExits \/ WaiterStep
  BY <1>1, <1>8 DEF AgentBusy, TerminalExits, WaiterStep, Expires, Abort
<1> QED BY <1>2, <1>3, <1>4, <1>5, <1>6, <1>7, <1>8
        DEF TerminalStep, OwnerStep, CheckStep, AskStep

\* What an insertion puts into the table.
LEMMA InsertBrings ==
    ASSUME TypeOK, NEW m \in NextRow, NEW type \in Type, NEW thread \in Ask \cup {NoThread},
           NEW r, r = InsertMessage(m, type, thread)
    PROVE  /\ m \in Msg /\ row[m].st = "unused"
           /\ r[m].st = "unread" /\ r[m].type = type /\ r[m].thread = thread
           /\ \A k \in Msg \ {m} : r[k] = row[k]
BY DEF TypeOK, NextRow, InsertMessage, Row

\* An arrival brings one row, wakes the calls that wait for its type unless it is an
\* escalation of an exit, and leaves the other rows where they are.
LEMMA ArrivalBrings ==
    ASSUME TypeOK, ArrivalStep
    PROVE  \E m \in Msg, type \in Type, thread \in Ask \cup {NoThread} :
              /\ Brought(m, type, thread)
              /\ \A k \in Msg \ {m} : Aged(k)
              /\ \/ NotifyMessageArrived(type)
                 \/ ExitEscalation /\ thread = NoThread /\ UNCHANGED call
              /\ thread \in Ask => call[thread].pc # "new"
<1>1. CASE Send
  <2>1. PICK m \in NextRow, type \in Type :
           /\ IF idle
              THEN DeliverPendingMessages(InsertMessage(m, type, NoThread))
              ELSE row' = InsertMessage(m, type, NoThread) /\ UNCHANGED <<timers, injected>>
           /\ NotifyMessageArrived(type)
    BY <1>1 DEF Send
  <2> DEFINE r == InsertMessage(m, type, NoThread)
  <2>2. r \in [Msg -> Row]
    BY InsertTypes DEF NextRow
  <2>3. /\ m \in Msg /\ row[m].st = "unused"
        /\ r[m].st = "unread" /\ r[m].type = type /\ r[m].thread = NoThread
        /\ \A k \in Msg \ {m} : r[k] = row[k]
    BY InsertBrings
  <2>4. row' = r \/ DeliverPendingMessages(r)
    BY <2>1
  <2> HIDE DEF r
  <2>5. \A k \in Msg : /\ row'[k].st = r[k].st
                       /\ row'[k].type = r[k].type /\ row'[k].thread = r[k].thread
    BY <2>2, <2>4, PushKeepsRows
  <2>6. Brought(m, type, NoThread) /\ \A k \in Msg \ {m} : Aged(k)
    BY <2>3, <2>5 DEF Brought, Aged
  <2> QED BY <2>1, <2>3, <2>6, MailboxAssumption
<1>2. ASSUME NEW a \in Ask, Reply(a)
      PROVE  \E m \in Msg, type \in Type, thread \in Ask \cup {NoThread} :
                /\ Brought(m, type, thread)
                /\ \A k \in Msg \ {m} : Aged(k)
                /\ NotifyMessageArrived(type)
                /\ thread \in Ask => call[thread].pc # "new"
  <2>1. PICK m \in NextRow, type \in Other :
           row' = InsertMessage(m, type, a) /\ NotifyMessageArrived(type)
    BY <1>2 DEF Reply
  <2>2. type \in Type
    BY DEF Type
  <2>3. m \in Msg /\ Brought(m, type, a) /\ \A k \in Msg \ {m} : Aged(k)
    BY <2>1, <2>2, InsertBrings DEF Brought, Aged
  <2>4. call[a].pc # "new"
    BY <1>2 DEF Reply
  <2> QED BY <2>1, <2>2, <2>3, <2>4
<1>3. CASE ExitEscalation
  <2>1. PICK m \in NextRow, type \in Wanted : row' = InsertMessage(m, type, NoThread)
    BY <1>3 DEF ExitEscalation
  <2>2. type \in Type
    BY DEF Type
  <2>3. m \in Msg /\ Brought(m, type, NoThread) /\ \A k \in Msg \ {m} : Aged(k)
    BY <2>1, <2>2, InsertBrings DEF Brought, Aged
  <2>4. UNCHANGED call
    BY <1>3 DEF ExitEscalation
  <2> QED BY <1>3, <2>2, <2>3, <2>4, MailboxAssumption
<1> QED BY <1>1, <1>2, <1>3 DEF ArrivalStep

-----------------------------------------------------------------------------
(***************************************************************************)
(* What a step does to the calls.                                          *)
(***************************************************************************)

\* A wake-up moves waiting calls to "woken" and changes nothing else.
LEMMA NotifyMoves ==
    ASSUME TypeOK, NEW type, NotifyMessageArrived(type), NEW c \in Call
    PROVE  /\ call'[c].pc = IF call[c].pc = "waiting" /\ type \in call[c].filter
                            THEN "woken" ELSE call[c].pc
           /\ call'[c].filter = call[c].filter /\ call'[c].got = call[c].got
BY DEF TypeOK, NotifyMessageArrived, CallState

\* A call that returns, and the others.
LEMMA ReturnMoves ==
    ASSUME TypeOK, NEW c \in Call, NEW S, Returns(c, S)
    PROVE  /\ call'[c].pc = "returned" /\ call'[c].got = S /\ call'[c].filter = call[c].filter
           /\ \A k \in Call \ {c} : call'[k] = call[k]
BY DEF TypeOK, Returns, CallState

\* A check moves itself: it returns with nothing, takes what a query finds, or goes to wait
\* because the query found nothing.
LEMMA CheckMoves ==
    ASSUME TypeOK, NEW c \in Check, CheckCalled(c) \/ CheckResumes(c)
    PROVE  /\ \A k \in Call \ {c} : call'[k] = call[k]
           /\ call[c].pc \in {"new", "woken"}
           /\ \/ Returns(c, {}) /\ UNCHANGED row
              \/ /\ ~call[c].aborted
                 /\ \E types : ReadAndReturn(c, types)
              \/ /\ Unread(row, call'[c].filter) = {} /\ UNCHANGED row
                 /\ call'[c].pc = "waiting" /\ call'[c].got = call[c].got
<1>1. c \in Call
  BY DEF Call
<1>2. call[c].pc \in {"new", "woken"}
  BY DEF CheckCalled, CheckResumes
<1>3. CASE Returns(c, {}) /\ UNCHANGED row
  BY <1>1, <1>2, <1>3, ReturnMoves
<1>4. CASE ~call[c].aborted /\ \E types : ReadAndReturn(c, types)
  BY <1>1, <1>2, <1>4, ReturnMoves DEF ReadAndReturn
<1>5. ASSUME NEW types, Unread(row, types) = {}, UNCHANGED row,
             call' = [call EXCEPT ![c].pc = "waiting", ![c].filter = types]
      PROVE  /\ \A k \in Call \ {c} : call'[k] = call[k]
             /\ Unread(row, call'[c].filter) = {} /\ UNCHANGED row
             /\ call'[c].pc = "waiting" /\ call'[c].got = call[c].got
  BY <1>1, <1>5 DEF TypeOK, CallState
<1>6. \/ Returns(c, {}) /\ UNCHANGED row
      \/ ~call[c].aborted /\ \E types : ReadAndReturn(c, types)
      \/ \E types : /\ Unread(row, types) = {} /\ UNCHANGED row
                    /\ call' = [call EXCEPT ![c].pc = "waiting", ![c].filter = types]
  BY DEF CheckCalled, CheckResumes
<1> QED BY <1>2, <1>3, <1>4, <1>5, <1>6

\* An ask moves itself: it returns, or it goes to wait when it is new or found no reply.
LEMMA AskMoves ==
    ASSUME TypeOK, NEW a \in Ask, AskCalled(a) \/ AskResumes(a)
    PROVE  /\ \A k \in Call \ {a} : call'[k] = call[k]
           /\ call[a].pc \in {"new", "woken"} /\ call'[a].filter = call[a].filter
           /\ \/ call'[a].pc = "returned"
              \/ call'[a].pc = "waiting" /\ (call[a].pc = "new" \/ Replies(row, a) = {})
           /\ (call[a].pc = "woken" /\ call'[a].got = {}) => Replies(row, a) = {}
<1>1. a \in Call
  BY DEF Call
<1>2. call[a].pc \in {"new", "woken"}
  BY DEF AskCalled, AskResumes
<1>3. ASSUME NEW p, call' = [call EXCEPT ![a].pc = p]
      PROVE  /\ \A k \in Call \ {a} : call'[k] = call[k]
             /\ call'[a].filter = call[a].filter /\ call'[a].pc = p
  BY <1>1, <1>3 DEF TypeOK, CallState
<1>4. CASE AskCalled(a)
  <2>1. call[a].pc = "new"
    BY <1>4 DEF AskCalled
  <2>2. \E p \in {"returned", "waiting"} : call' = [call EXCEPT ![a].pc = p]
    BY <1>4 DEF AskCalled
  <2> QED BY <1>3, <2>1, <2>2
<1>5. CASE AskResumes(a)
  <2>1. call[a].pc = "woken"
    BY <1>5 DEF AskResumes
  <2>2. CASE Replies(row, a) # {} /\ Returns(a, {Min(Replies(row, a))})
    BY <1>1, <2>1, <2>2, ReturnMoves
  <2>3. CASE Replies(row, a) = {} /\ Returns(a, {})
    BY <1>1, <2>1, <2>3, ReturnMoves
  <2>4. CASE Replies(row, a) = {} /\ call' = [call EXCEPT ![a].pc = "waiting"]
    BY <1>3, <2>1, <2>4
  <2> QED BY <1>5, <2>2, <2>3, <2>4 DEF AskResumes
<1> QED BY <1>4, <1>5

\* A time-out or a closed socket takes a call out of its wait, or leaves it where it is.
LEMMA WaiterMoves ==
    ASSUME TypeOK, NEW c \in Call, Expires(c) \/ Abort(c)
    PROVE  /\ \A k \in Call \ {c} : call'[k] = call[k]
           /\ call'[c].filter = call[c].filter /\ call'[c].got = call[c].got
           /\ call[c].pc # "returned"
           /\ \/ call'[c].pc = "woken" /\ call[c].pc = "waiting"
              \/ call'[c].pc = call[c].pc /\ call[c].pc # "waiting"
<1>1. CASE Expires(c)
  BY <1>1 DEF TypeOK, Expires, CallState
<1>2. CASE Abort(c)
  BY <1>2 DEF TypeOK, Abort, CallState
<1> QED BY <1>1, <1>2

\* The terminal and the owner of the mailbox leave the calls alone.
LEMMA CallsStay ==
    ASSUME TerminalStep \/ OwnerStep
    PROVE  UNCHANGED call
BY DEF TerminalStep, OwnerStep, AgentBusy, AgentIdle, PressEnter, TerminalExits, ReplyTo,
       ResetMessages

-----------------------------------------------------------------------------
(***************************************************************************)
(* A row leaves the mailbox once.                                          *)
(***************************************************************************)

\* What a check has handed out stays out of every reader's reach, and only a call that has
\* returned has handed out anything.
Taken ==
    \A c \in Check :
        /\ call[c].pc # "returned" => call[c].got = {}
        /\ \A m \in call[c].got : row[m].st \in {"read", "deleted"}
        /\ \A k \in Check : c # k => call[c].got \cap call[k].got = {}

\* No push has reached the row, and the next one may take it.
Unpushed(m) == row[m].st = "unused" \/ (row[m].st = "unread" /\ ~row[m].delivered)

\* In a terminal that runs Cursor Agent a row is typed in at most once, because one that was
\* typed in is stamped and cannot be taken by a push again.
PushedOnce ==
    Cursor => \A m \in Msg : injected[m] <= 1 /\ (Unpushed(m) => injected[m] = 0)

\* Rows leave and never return to "unread".
LEMMA RowsNeverReturn ==
    ASSUME TypeOK, Next, NEW m \in Msg, row[m].st \in {"read", "deleted"}
    PROVE  row'[m].st \in {"read", "deleted"}
<1>1. CASE ArrivalStep
  <2>1. PICK n \in Msg, type \in Type, thread \in Ask \cup {NoThread} :
           Brought(n, type, thread) /\ \A k \in Msg \ {n} : Aged(k)
    BY <1>1, ArrivalBrings
  <2>2. m # n
    BY <2>1 DEF Brought
  <2> QED BY <2>1, <2>2 DEF Aged
<1>2. CASE ~ArrivalStep
  <2>1. Aged(m)
    BY <1>2, NextCases, RowsAge
  <2> QED BY <2>1 DEF Aged
<1> QED BY <1>1, <1>2

\* One check at a time takes rows, from a query, for a client that is still there, and they
\* leave with it; the other steps change no result but an empty one.
LEMMA GotSteps ==
    ASSUME TypeOK, Next
    PROVE  \/ \A c \in Check :
                 /\ call'[c].got = call[c].got \/ (call'[c].got = {} /\ call[c].pc # "returned")
                 /\ call'[c].pc # "returned" => call[c].pc # "returned" /\ call'[c].got = call[c].got
           \/ \E c \in Check : \E types :
                 /\ call[c].pc # "returned" /\ ~call[c].aborted
                 /\ call'[c].pc = "returned" /\ call'[c].got = Unread(row, types)
                 /\ row' = MarkAsRead(row, Unread(row, types))
                 /\ \A k \in Check \ {c} : call'[k] = call[k]
<1> DEFINE Idle == \A c \in Check :
                 /\ call'[c].got = call[c].got \/ (call'[c].got = {} /\ call[c].pc # "returned")
                 /\ call'[c].pc # "returned" => call[c].pc # "returned" /\ call'[c].got = call[c].got
<1>0. Check \subseteq Call /\ Ask \subseteq Call /\ Check \cap Ask = {}
  BY MailboxAssumption DEF Call
<1>1. CASE TerminalStep \/ OwnerStep
  BY <1>1, CallsStay
<1>2. CASE ArrivalStep
  <2>1. UNCHANGED call \/ \E type : NotifyMessageArrived(type)
    BY <1>2, ArrivalBrings
  <2>2. ASSUME NEW type, NotifyMessageArrived(type) PROVE Idle
    <3>1. \A c \in Check : /\ call'[c].got = call[c].got
                           /\ call'[c].pc # "returned" => call[c].pc # "returned"
      BY <1>0, <2>2, NotifyMoves
    <3> QED BY <3>1
  <2> QED BY <2>1, <2>2
<1>3. ASSUME NEW c \in Check, CheckCalled(c) \/ CheckResumes(c)
      PROVE  \/ Idle
             \/ \E types :
                 /\ call[c].pc # "returned" /\ ~call[c].aborted
                 /\ call'[c].pc = "returned" /\ call'[c].got = Unread(row, types)
                 /\ row' = MarkAsRead(row, Unread(row, types))
                 /\ \A k \in Check \ {c} : call'[k] = call[k]
  <2>1. /\ \A k \in Check \ {c} : call'[k] = call[k]
        /\ call[c].pc \in {"new", "woken"}
    BY <1>0, <1>3, CheckMoves
  <2>2. CASE Returns(c, {})
    <3>1. call'[c].pc = "returned" /\ call'[c].got = {}
      BY <1>0, <2>2, ReturnMoves
    <3>2. Idle
      BY <2>1, <3>1
    <3> QED BY <3>2
  <2>3. ASSUME NEW types, ~call[c].aborted, ReadAndReturn(c, types)
        PROVE  /\ call[c].pc # "returned" /\ ~call[c].aborted
               /\ call'[c].pc = "returned" /\ call'[c].got = Unread(row, types)
               /\ row' = MarkAsRead(row, Unread(row, types))
               /\ \A k \in Check \ {c} : call'[k] = call[k]
    BY <1>0, <2>1, <2>3, ReturnMoves DEF ReadAndReturn
  <2>4. CASE call'[c].pc = "waiting" /\ call'[c].got = call[c].got
    <3>1. Idle
      BY <2>1, <2>4
    <3> QED BY <3>1
  <2> HIDE DEF Idle
  <2> QED BY <1>3, <2>2, <2>3, <2>4, CheckMoves
<1>4. ASSUME NEW a \in Ask, AskCalled(a) \/ AskResumes(a) PROVE Idle
  <2>1. \A c \in Check : call'[c] = call[c]
    BY <1>0, <1>4, AskMoves
  <2> QED BY <2>1
<1>5. ASSUME NEW c \in Call, Expires(c) \/ Abort(c) PROVE Idle
  <2>1. /\ \A k \in Call \ {c} : call'[k] = call[k]
        /\ call'[c].got = call[c].got /\ call[c].pc # "returned"
    BY <1>5, WaiterMoves
  <2> QED BY <1>0, <2>1
<1> HIDE DEF Idle
<1>6. CASE CheckStep
  BY <1>3, <1>6 DEF CheckStep, Idle
<1>7. CASE AskStep \/ WaiterStep
  BY <1>4, <1>5, <1>7 DEF AskStep, WaiterStep, Idle
<1> QED BY <1>1, <1>2, <1>6, <1>7, NextCases

\* What was taken stays taken, and by one check.
LEMMA TakenStep ==
    ASSUME TypeOK, Taken, Next
    PROVE  Taken'
<1>1. \A c \in Check : call[c].got \subseteq Msg
  BY DEF TypeOK, CallState, Call
<1>2. \A m \in Msg : row[m].st \in {"read", "deleted"} => row'[m].st \in {"read", "deleted"}
  BY RowsNeverReturn
<1>3. CASE \A c \in Check :
              /\ call'[c].got = call[c].got \/ (call'[c].got = {} /\ call[c].pc # "returned")
              /\ call'[c].pc # "returned" => call[c].pc # "returned" /\ call'[c].got = call[c].got
  BY <1>1, <1>2, <1>3 DEF Taken
<1>4. ASSUME NEW c \in Check, NEW types,
             call'[c].pc = "returned", call'[c].got = Unread(row, types),
             row' = MarkAsRead(row, Unread(row, types)),
             \A k \in Check \ {c} : call'[k] = call[k]
      PROVE  Taken'
  <2>1. \A m \in Unread(row, types) : m \in Msg /\ row[m].st = "unread"
    BY DEF Unread
  <2>2. \A m \in Unread(row, types) : row'[m].st = "read"
    BY <1>4, <2>1 DEF TypeOK, Row, MarkAsRead
  <2>3. \A k \in Check : k # c => Unread(row, types) \cap call[k].got = {}
    BY <2>1 DEF Taken
  <2> QED BY <1>1, <1>2, <1>4, <2>2, <2>3 DEF Taken
<1> QED BY <1>3, <1>4, GotSteps

\* A push of the table r, whose rows that a push may take were never typed in.
LEMMA PushOnce ==
    ASSUME TypeOK, Cursor, NEW r \in [Msg -> Row], DeliverPendingMessages(r),
           \A m \in Msg : /\ injected[m] <= 1
                          /\ r[m].st = "unused" => injected[m] = 0
                          /\ (r[m].st = "unread" /\ ~r[m].delivered) => injected[m] = 0
    PROVE  PushedOnce'
<1>1. injected \in [Msg -> Nat]
  BY DEF TypeOK
<1>2. \A m \in Msg : m \in Undelivered(r) <=> r[m].st = "unread" /\ ~r[m].delivered
  BY DEF Undelivered, Unread, Row
<1>3. CASE row' = r /\ UNCHANGED injected
  BY <1>3 DEF PushedOnce, Unpushed
<1>4. CASE /\ injected' = [m \in Msg |-> injected[m] + (IF m \in Undelivered(r) THEN 1 ELSE 0)]
           /\ row' = MarkAsDelivered(r, Undelivered(r))
  <2> SUFFICES ASSUME NEW m \in Msg
               PROVE  injected'[m] <= 1 /\ (Unpushed(m)' => injected'[m] = 0)
    BY DEF PushedOnce
  <2>1. CASE m \in Undelivered(r)
    <3>1. injected'[m] = 1
      BY <1>1, <1>2, <1>4, <2>1
    <3>2. row'[m].delivered /\ row'[m].st = "unread"
      BY <1>2, <1>4, <2>1 DEF MarkAsDelivered, Row
    <3> QED BY <3>1, <3>2 DEF Unpushed
  <2>2. CASE m \notin Undelivered(r)
    <3>1. injected'[m] = injected[m]
      BY <1>1, <1>4, <2>2
    <3>2. row'[m] = r[m]
      BY <1>4, <2>2 DEF MarkAsDelivered
    <3> QED BY <3>1, <3>2 DEF Unpushed
  <2> QED BY <2>1, <2>2
<1> QED BY <1>3, <1>4 DEF DeliverPendingMessages

\* Every step keeps PushedOnce.
LEMMA PushedOnceStep ==
    ASSUME TypeOK, PushedOnce, Next
    PROVE  PushedOnce'
<1> SUFFICES ASSUME Cursor PROVE PushedOnce'
  BY DEF PushedOnce
<1>1. \A m \in Msg : injected[m] <= 1 /\ (Unpushed(m) => injected[m] = 0)
  BY DEF PushedOnce
<1>2. ASSUME UNCHANGED injected, \A m \in Msg : Unpushed(m)' => Unpushed(m)
      PROVE  PushedOnce'
  BY <1>1, <1>2 DEF PushedOnce
<1>3. ASSUME NEW m \in NextRow, NEW type \in Type, NEW thread \in Ask \cup {NoThread}
      PROVE  LET r == InsertMessage(m, type, thread)
             IN  /\ r \in [Msg -> Row]
                 /\ \A k \in Msg : /\ r[k].st = "unused" => injected[k] = 0
                                   /\ (r[k].st = "unread" /\ ~r[k].delivered) => injected[k] = 0
  <2> DEFINE r == InsertMessage(m, type, thread)
  <2>1. r \in [Msg -> Row]
    BY InsertTypes DEF NextRow
  <2>2. m \in Msg /\ row[m].st = "unused" /\ \A k \in Msg \ {m} : r[k] = row[k]
    BY InsertBrings
  <2>3. injected[m] = 0
    BY <1>1, <2>2 DEF Unpushed
  <2> HIDE DEF r
  <2>4. \A k \in Msg : /\ r[k].st = "unused" => injected[k] = 0
                       /\ (r[k].st = "unread" /\ ~r[k].delivered) => injected[k] = 0
    BY <1>1, <2>2, <2>3 DEF Unpushed
  <2> QED BY <2>1, <2>4 DEF r
<1>4. ASSUME NEW m \in NextRow, NEW type \in Type, NEW thread \in Ask \cup {NoThread},
             row' = InsertMessage(m, type, thread), UNCHANGED injected
      PROVE  PushedOnce'
  <2>1. \A k \in Msg : Unpushed(k)' => injected[k] = 0
    BY <1>3, <1>4 DEF Unpushed
  <2> QED BY <1>1, <1>4, <2>1 DEF PushedOnce
<1>5. CASE Send
  <2>1. PICK m \in NextRow, type \in Type :
           IF idle THEN DeliverPendingMessages(InsertMessage(m, type, NoThread))
                   ELSE row' = InsertMessage(m, type, NoThread) /\ UNCHANGED <<timers, injected>>
    BY <1>5 DEF Send
  <2>2. CASE DeliverPendingMessages(InsertMessage(m, type, NoThread))
    BY <1>1, <1>3, <2>2, PushOnce
  <2> QED BY <1>4, <2>1, <2>2
<1>6. CASE ExitEscalation \/ \E a \in Ask : Reply(a)
  BY <1>4, <1>6 DEF ExitEscalation, Reply, Type
<1>7. CASE AgentIdle
  <2>1. row \in [Msg -> Row] /\ DeliverPendingMessages(row)
    BY <1>7 DEF TypeOK, AgentIdle
  <2> QED BY <1>1, <2>1, PushOnce DEF Unpushed
<1>8. ASSUME \A m \in Msg : Aged(m) /\ (row[m].delivered => row'[m].delivered), UNCHANGED injected
      PROVE  PushedOnce'
  BY <1>2, <1>8 DEF Aged, Unpushed
<1>9. ASSUME NEW S, row' = MarkAsRead(row, S)
      PROVE  \A m \in Msg : row[m].delivered => row'[m].delivered
  BY <1>9 DEF TypeOK, Row, MarkAsRead
<1>10. CASE PressEnter
  <2>1. ASSUME NEW S, row' = MarkAsDelivered(row, S)
        PROVE  \A m \in Msg : row[m].delivered => row'[m].delivered
    BY <2>1 DEF TypeOK, Row, MarkAsDelivered
  <2>2. UNCHANGED injected /\ \A m \in Msg : row[m].delivered => row'[m].delivered
    BY <1>10, <2>1 DEF PressEnter
  <2> QED BY <1>8, <1>10, <2>2, RowsAge DEF TerminalStep
<1>11. CASE OwnerStep
  <2>1. \A m \in Msg : row[m].delivered => row'[m].delivered
    BY <1>9, <1>11 DEF TypeOK, Row, OwnerStep, ReplyTo, ResetMessages
  <2>2. UNCHANGED injected
    BY <1>11 DEF OwnerStep, ReplyTo, ResetMessages
  <2> QED BY <1>8, <1>11, <2>1, <2>2, RowsAge
<1>12. CASE CheckStep \/ AskStep \/ WaiterStep
  <2>1. UNCHANGED row \/ \E S : row' = MarkAsRead(row, S)
    BY <1>12 DEF CheckStep, AskStep, WaiterStep, CheckCalled, CheckResumes, ReadAndReturn,
                 AskCalled, AskResumes, Expires, Abort
  <2>2. UNCHANGED injected
    BY <1>12 DEF CheckStep, AskStep, WaiterStep, CheckCalled, CheckResumes,
                 AskCalled, AskResumes, Expires, Abort
  <2> QED BY <1>8, <1>9, <1>12, <2>1, <2>2, RowsAge
<1>13. CASE AgentBusy \/ TerminalExits
  BY <1>2, <1>13 DEF AgentBusy, TerminalExits, Unpushed
<1> QED BY <1>5, <1>6, <1>7, <1>10, <1>11, <1>12, <1>13, NextCases DEF ArrivalStep, TerminalStep

\* No row is handed out by two checks, whatever calls, waiters, time-outs and pushes do in
\* between, and in a terminal that runs Cursor Agent none is typed in twice.
THEOREM RowsLeaveOnce == Spec => []TakenOnce
<1>1. Init => Taken /\ PushedOnce
  BY DEF Init, Taken, PushedOnce, Call
<1>2. TypeOK /\ Taken /\ PushedOnce /\ [Next]_vars => Taken' /\ PushedOnce'
  <2> SUFFICES ASSUME TypeOK, Taken, PushedOnce, [Next]_vars PROVE Taken' /\ PushedOnce'
    OBVIOUS
  <2>1. CASE UNCHANGED vars
    BY <2>1 DEF vars, Taken, PushedOnce, Unpushed
  <2> QED BY <2>1, TakenStep, PushedOnceStep
<1>3. Taken /\ PushedOnce => TakenOnce
  BY DEF Taken, PushedOnce, TakenOnce
<1> QED BY <1>1, <1>2, <1>3, TypeCorrect, PTL DEF Spec

-----------------------------------------------------------------------------
(***************************************************************************)
(* No lost wake-up.                                                        *)
(***************************************************************************)

\* An ask waits for every type, its question has no reply before it is sent, and it does not
\* wait over a reply.
AsksAwake ==
    \A a \in Ask : /\ call[a].filter = Type
                   /\ call[a].pc \in {"new", "waiting"} => Replies(row, a) = {}

\* A check does not wait over a row it would return.
ChecksAwake ==
    \A c \in Check : call[c].pc = "waiting" => Unread(row, call[c].filter) = {}

\* Where rows only age, queries find no more than before.
LEMMA QueriesShrink ==
    ASSUME \A m \in Msg : Aged(m)
    PROVE  /\ \A types : Unread(row, types)' \subseteq Unread(row, types)
           /\ \A a : Replies(row, a)' \subseteq Replies(row, a)
BY DEF Aged, Unread, Replies

\* The row an arrival brings is all that queries can newly find.
LEMMA QueriesGrow ==
    ASSUME NEW m \in Msg, NEW type, NEW thread, Brought(m, type, thread),
           \A k \in Msg \ {m} : Aged(k)
    PROVE  /\ \A types : type \notin types => Unread(row, types)' \subseteq Unread(row, types)
           /\ \A a : thread # a => Replies(row, a)' \subseteq Replies(row, a)
BY DEF Brought, Aged, Unread, Replies

\* The calls after a step that brings no row: who waits was waiting already, or has just
\* looked, or is an ask that has just been called.
LEMMA WaitStarts ==
    ASSUME TypeOK, TerminalStep \/ OwnerStep \/ CheckStep \/ AskStep \/ WaiterStep, NEW k \in Call
    PROVE  /\ k \in Ask => call'[k].filter = call[k].filter
           /\ call'[k].pc = "new" => call[k].pc = "new"
           /\ call'[k].pc = "waiting" =>
                \/ call[k].pc = "waiting" /\ call'[k].filter = call[k].filter
                \/ k \in Check /\ Unread(row, call'[k].filter) = {}
                \/ k \in Ask /\ (call[k].pc = "new" \/ Replies(row, k) = {})
<1> DEFINE Kept(c) ==
           /\ c \in Ask => call'[c].filter = call[c].filter
           /\ call'[c].pc = "new" => call[c].pc = "new"
           /\ call'[c].pc = "waiting" =>
                \/ call[c].pc = "waiting" /\ call'[c].filter = call[c].filter
                \/ c \in Check /\ Unread(row, call'[c].filter) = {}
                \/ c \in Ask /\ (call[c].pc = "new" \/ Replies(row, c) = {})
<1>0. Check \subseteq Call /\ Ask \subseteq Call /\ Check \cap Ask = {}
  BY MailboxAssumption DEF Call
<1>1. call'[k] = call[k] => Kept(k)
  BY <1>0 DEF Call
<1>2. ASSUME TerminalStep \/ OwnerStep PROVE Kept(k)
  BY <1>1, <1>2, CallsStay
<1>3. ASSUME NEW c \in Check, CheckCalled(c) \/ CheckResumes(c) PROVE Kept(k)
  <2>1. k # c => call'[k] = call[k]
    BY <1>3, CheckMoves
  <2>2. \A S : Returns(c, S) => call'[c].pc = "returned"
    BY <1>0, ReturnMoves
  <2>3. call'[c].pc = "returned" \/ (call'[c].pc = "waiting" /\ Unread(row, call'[c].filter) = {})
    BY <1>3, <2>2, CheckMoves DEF ReadAndReturn
  <2>4. k = c => Kept(k)
    BY <1>0, <2>3
  <2> QED BY <1>1, <2>1, <2>4
<1>4. ASSUME NEW a \in Ask, AskCalled(a) \/ AskResumes(a) PROVE Kept(k)
  <2>1. k # a => call'[k] = call[k]
    BY <1>4, AskMoves
  <2>2. k = a => Kept(k)
    BY <1>4, AskMoves
  <2> QED BY <1>1, <2>1, <2>2
<1>5. ASSUME NEW c \in Call, Expires(c) \/ Abort(c) PROVE Kept(k)
  <2>1. k # c => call'[k] = call[k]
    BY <1>5, WaiterMoves
  <2>2. k = c => Kept(k)
    BY <1>5, WaiterMoves
  <2> QED BY <1>1, <2>1, <2>2
<1> HIDE DEF Kept
<1>6. Kept(k)
  BY <1>2, <1>3, <1>4, <1>5 DEF CheckStep, AskStep, WaiterStep
<1> QED BY <1>6 DEF Kept

\* Every step keeps asks awake.
LEMMA AsksAwakeStep ==
    ASSUME TypeOK, AsksAwake, Next
    PROVE  AsksAwake'
<1> SUFFICES ASSUME NEW a \in Ask
             PROVE  /\ call'[a].filter = Type
                    /\ call'[a].pc \in {"new", "waiting"} => Replies(row, a)' = {}
  BY DEF AsksAwake
<1>0. a \in Call /\ a \notin Check
  BY MailboxAssumption DEF Call
<1>1. CASE ArrivalStep
  <2>1. PICK m \in Msg, type \in Type, thread \in Ask \cup {NoThread} :
           /\ Brought(m, type, thread)
           /\ \A k \in Msg \ {m} : Aged(k)
           /\ NotifyMessageArrived(type) \/ (thread = NoThread /\ UNCHANGED call)
           /\ thread \in Ask => call[thread].pc # "new"
    BY <1>1, ArrivalBrings
  <2>2. CASE UNCHANGED call /\ thread = NoThread
    <3>1. Replies(row, a)' \subseteq Replies(row, a)
      BY <2>1, <2>2, QueriesGrow, MailboxAssumption
    <3> QED BY <2>2, <3>1 DEF AsksAwake
  <2>3. CASE NotifyMessageArrived(type)
    <3>1. /\ call'[a].pc = IF call[a].pc = "waiting" /\ type \in call[a].filter
                           THEN "woken" ELSE call[a].pc
          /\ call'[a].filter = call[a].filter
      BY <1>0, <2>3, NotifyMoves
    <3>2. call[a].filter = Type
      BY DEF AsksAwake
    <3>3. call'[a].pc # "waiting" /\ (call'[a].pc = "new" => call[a].pc = "new")
      BY <3>1, <3>2
    <3>4. call[a].pc = "new" => Replies(row, a)' \subseteq Replies(row, a)
      BY <2>1, QueriesGrow
    <3> QED BY <3>1, <3>2, <3>3, <3>4 DEF AsksAwake
  <2> QED BY <2>1, <2>2, <2>3
<1>2. CASE TerminalStep \/ OwnerStep \/ CheckStep \/ AskStep \/ WaiterStep
  <2>1. Replies(row, a)' \subseteq Replies(row, a)
    BY <1>2, RowsAge, QueriesShrink
  <2>2. /\ call'[a].filter = call[a].filter
        /\ call'[a].pc = "new" => call[a].pc = "new"
        /\ call'[a].pc = "waiting" =>
              call[a].pc = "waiting" \/ call[a].pc = "new" \/ Replies(row, a) = {}
    BY <1>0, <1>2, WaitStarts
  <2> QED BY <2>1, <2>2 DEF AsksAwake
<1> QED BY <1>1, <1>2, NextCases

\* Every step but an exit's escalation keeps checks awake.
LEMMA ChecksAwakeStep ==
    ASSUME TypeOK, ChecksAwake, ~ExitEscalations, Next
    PROVE  ChecksAwake'
<1> SUFFICES ASSUME NEW c \in Check, call'[c].pc = "waiting"
             PROVE  Unread(row, call[c].filter)' = {}
  BY DEF ChecksAwake
<1>0. c \in Call /\ c \notin Ask
  BY MailboxAssumption DEF Call
<1>1. CASE ArrivalStep
  <2>1. PICK m \in Msg, type \in Type, thread \in Ask \cup {NoThread} :
           /\ Brought(m, type, thread)
           /\ \A k \in Msg \ {m} : Aged(k)
           /\ NotifyMessageArrived(type)
    BY <1>1, ArrivalBrings DEF ExitEscalation
  <2>2. call[c].pc = "waiting" /\ type \notin call[c].filter /\ call'[c].filter = call[c].filter
    BY <1>0, <2>1, NotifyMoves
  <2>3. \A types : type \notin types => Unread(row, types)' \subseteq Unread(row, types)
    BY <2>1, QueriesGrow
  <2>4. Unread(row, call[c].filter) = {}
    BY <2>2 DEF ChecksAwake
  <2> QED BY <2>2, <2>3, <2>4 DEF Unread
<1>2. CASE TerminalStep \/ OwnerStep \/ CheckStep \/ AskStep \/ WaiterStep
  <2>1. \A types : Unread(row, types)' \subseteq Unread(row, types)
    BY <1>2, RowsAge, QueriesShrink
  <2>2. Unread(row, call'[c].filter) = {}
    BY <1>0, <1>2, WaitStarts DEF ChecksAwake
  <2> QED BY <2>1, <2>2 DEF Unread
<1> QED BY <1>1, <1>2, NextCases

\* Initially nobody waits and no row is in the table.
LEMMA AwakeInit == Init => AsksAwake /\ ChecksAwake
BY DEF Init, AsksAwake, ChecksAwake, Call, Replies

\* An ask never sleeps over a reply to its question, whatever types arrive and whoever exits.
THEOREM AsksNeverOversleep == Spec => []AsksAwake
<1>1. TypeOK /\ AsksAwake /\ [Next]_vars => AsksAwake'
  <2> SUFFICES ASSUME TypeOK, AsksAwake, [Next]_vars PROVE AsksAwake'
    OBVIOUS
  <2>1. CASE UNCHANGED vars
    BY <2>1 DEF vars, AsksAwake, Replies
  <2> QED BY <2>1, AsksAwakeStep
<1> QED BY <1>1, AwakeInit, TypeCorrect, PTL DEF Spec

\* No lost wake-up: as long as no terminal exits, no call sleeps over a row it would return.
\* (The escalation of an exit is written without waking anybody.)
THEOREM NoLostWakeUp ==
    ASSUME ~ExitEscalations
    PROVE  Spec => []NoSleepingWaiter
<1>1. TypeOK /\ ChecksAwake /\ [Next]_vars => ChecksAwake'
  <2> SUFFICES ASSUME TypeOK, ChecksAwake, [Next]_vars PROVE ChecksAwake'
    OBVIOUS
  <2>1. CASE UNCHANGED vars
    BY <2>1 DEF vars, ChecksAwake, Unread
  <2> QED BY <2>1, ChecksAwakeStep
<1>2. AsksAwake /\ ChecksAwake => NoSleepingWaiter
  BY DEF AsksAwake, ChecksAwake, NoSleepingWaiter
<1> QED BY <1>1, <1>2, AwakeInit, AsksNeverOversleep, TypeCorrect, PTL DEF Spec

-----------------------------------------------------------------------------
(***************************************************************************)
(* What a call's return may never do.                                      *)
(***************************************************************************)

\* A check whose client has gone takes no rows.
THEOREM TheDeadTakeNothing == Spec => AbortedTakesNothing
<1> DEFINE A == \A c \in Check : call[c].aborted => call'[c].got = call[c].got
<1>1. TypeOK /\ Taken /\ [Next]_vars => A
  <2> SUFFICES ASSUME TypeOK, Taken, [Next]_vars PROVE A
    OBVIOUS
  <2>1. CASE UNCHANGED vars
    BY <2>1 DEF vars
  <2>2. \A c \in Check : call[c].pc # "returned" => call[c].got = {}
    BY DEF Taken
  <2>3. CASE Next
    <3>1. \A c \in Check : \/ call'[c].got = call[c].got
                           \/ call'[c].got = {} /\ call[c].pc # "returned"
                           \/ ~call[c].aborted
      BY <2>3, GotSteps
    <3> QED BY <2>2, <3>1
  <2> QED BY <2>1, <2>3
<1>2. Init => Taken
  BY DEF Init, Taken, Call
<1>3. TypeOK /\ Taken /\ [Next]_vars => Taken'
  <2> SUFFICES ASSUME TypeOK, Taken, [Next]_vars PROVE Taken'
    OBVIOUS
  <2>1. CASE UNCHANGED vars
    BY <2>1 DEF vars, Taken
  <2> QED BY <2>1, TakenStep
<1>4. Spec => []Taken
  BY <1>2, <1>3, TypeCorrect, PTL DEF Spec
<1>5. Spec => [][A]_vars
  BY <1>1, <1>4, TypeCorrect, PTL DEF Spec
<1> QED BY <1>5 DEF AbortedTakesNothing

\* An ask returns empty-handed only if there is no reply at that moment, however late it is.
THEOREM LateRepliesCount == Spec => AskNeverDropsReply
<1> DEFINE A == \A a \in Ask :
        (call[a].pc = "woken" /\ call'[a].pc = "returned" /\ call'[a].got = {})
        => Replies(row, a) = {}
<1>1. TypeOK /\ [Next]_vars => A
  <2> SUFFICES ASSUME TypeOK, [Next]_vars, NEW a \in Ask,
                      call[a].pc = "woken", call'[a].pc = "returned", call'[a].got = {}
               PROVE  Replies(row, a) = {}
    OBVIOUS
  <2>0. a \in Call /\ a \notin Check /\ call' # call
    BY MailboxAssumption DEF Call
  <2>1. Next
    BY <2>0 DEF vars
  <2>2. CASE ArrivalStep
    <3>1. \E type : NotifyMessageArrived(type)
      BY <2>0, <2>2, ArrivalBrings
    <3> QED BY <2>0, <3>1, NotifyMoves
  <2>3. CASE TerminalStep \/ OwnerStep
    BY <2>0, <2>3, CallsStay
  <2>4. CASE CheckStep
    BY <2>0, <2>4, CheckMoves DEF CheckStep
  <2>5. CASE AskStep
    <3>1. PICK k \in Ask : AskCalled(k) \/ AskResumes(k)
      BY <2>5 DEF AskStep
    <3>2. k = a
      BY <2>0, <3>1, AskMoves
    <3> QED BY <3>1, <3>2, AskMoves
  <2>6. CASE WaiterStep
    BY <2>0, <2>6, WaiterMoves DEF WaiterStep
  <2> QED BY <2>1, <2>2, <2>3, <2>4, <2>5, <2>6, NextCases
<1>2. Spec => [][A]_vars
  BY <1>1, TypeCorrect, PTL DEF Spec
<1> QED BY <1>2 DEF AskNeverDropsReply

=============================================================================
