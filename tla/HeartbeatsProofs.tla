-------------------------- MODULE HeartbeatsProofs --------------------------
(***************************************************************************)
(* Proofs about the detector of hung workers, for every length of the day, *)
(* every threshold and every number of dispatches and messages.            *)
(***************************************************************************)
EXTENDS Heartbeats, SequenceTheorems, TLAPS

-----------------------------------------------------------------------------
(***************************************************************************)
(* Stamps.                                                                 *)
(***************************************************************************)

\* A time is its day and its time of day.
LEMMA DayAndTime ==
    ASSUME NEW t \in Nat
    PROVE  /\ t \div DayLength \in Nat
           /\ t % DayLength \in 0..DayLength - 1
           /\ t = (DayLength * (t \div DayLength)) + (t % DayLength)
BY ClockAssumption

\* An earlier time is not on a later day.
LEMMA DaysMonotone ==
    ASSUME NEW t \in Nat, NEW u \in Nat, t <= u
    PROVE  t \div DayLength <= u \div DayLength
<1> DEFINE d == t \div DayLength
           e == u \div DayLength
<1>1. d \in Nat /\ e \in Nat /\ DayLength \in Nat \ {0}
  BY DayAndTime, ClockAssumption
<1>2. DayLength * d <= t /\ u < DayLength * e + DayLength
  BY DayAndTime, <1>1
<1>3. ASSUME d > e PROVE FALSE
  <2>1. PICK k \in Nat : d = (e + 1) + k
    <3>1. d - (e + 1) \in Nat /\ d = (e + 1) + (d - (e + 1))
      BY <1>1, <1>3
    <3> QED BY <3>1
  <2>2. DayLength * d = DayLength * e + DayLength + DayLength * k
    BY <1>1, <2>1
  <2>3. DayLength * k \in Nat /\ DayLength * e \in Nat
    BY <1>1, <2>1
  <2> QED BY <1>1, <1>2, <2>2, <2>3
<1> QED BY <1>1, <1>3

\* The space sorts before the T: what datetime('now') wrote at a time is before the
\* threshold of that time and of every later one.
LEMMA OlderIsBefore ==
    ASSUME NEW t \in Nat, NEW u \in Nat, t <= u
    PROVE  Before(DatetimeNow(t), ToISOString(u))
<1>1. t \div DayLength <= u \div DayLength
  BY DaysMonotone
<1>2. t \div DayLength \in Nat /\ u \div DayLength \in Nat
  BY DayAndTime
<1> QED BY <1>1, <1>2 DEF Before, DatetimeNow, ToISOString

\* Stamps are stamps.
LEMMA StampType ==
    ASSUME NEW t \in Nat
    PROVE  DatetimeNow(t) \in Stamp
BY DayAndTime DEF DatetimeNow, Stamp

-----------------------------------------------------------------------------
(***************************************************************************)
(* The invariant: every stamp of a dispatch, in its row or on its way, was *)
(* written no later than its worker's last sign of life.                   *)
(***************************************************************************)

Sign(s, last) == \E t \in Nat : t <= last /\ s = DatetimeNow(t)

Message == [ctx : Ctx, created_at : Stamp]

SignsKept ==
    /\ \A c \in Ctx : sent[c] <= now
    /\ \A c \in Ctx : Sign(row[c].at, sent[c])
    /\ \A c \in Ctx : \A s \in row[c].beats : Sign(s, sent[c])
    /\ \A i \in 1..Len(inbox) : Sign(inbox[i].created_at, sent[inbox[i].ctx])

Inv == TypeOK /\ SignsKept

LEMMA SignLater ==
    ASSUME NEW s, NEW a \in Nat, NEW b \in Nat, a <= b, Sign(s, a)
    PROVE  Sign(s, b)
BY DEF Sign

LEMMA SignNow ==
    ASSUME NEW a \in Nat
    PROVE  Sign(DatetimeNow(a), a)
BY DEF Sign

\* The invariant holds initially.
LEMMA InitInv == Init => Inv
<1> SUFFICES ASSUME Init PROVE Inv
  OBVIOUS
<1>1. now \in Time /\ 0 \in Time /\ Time \subseteq Nat
  BY ClockAssumption DEF Init, Time
<1>2. DatetimeNow(0) \in Stamp
  BY StampType
<1>3. (CHOOSE t \in Task : TRUE) \in Task
  BY ClockAssumption
<1>4. TypeOK
  <2>1. row \in [Ctx -> Row]
    BY <1>2, <1>3 DEF Init, Row
  <2>2. inbox \in Seq([ctx : Ctx, created_at : Stamp])
    BY DEF Init
  <2> QED BY <1>1, <2>1, <2>2 DEF Init, TypeOK
<1>5. \A c \in Ctx : sent[c] <= now
  BY <1>1 DEF Init, Time
<1>6. Sign(DatetimeNow(0), 0)
  BY SignNow
<1>7. \A c \in Ctx : Sign(row[c].at, sent[c]) /\ row[c].beats = {}
  BY <1>6 DEF Init
<1>8. 1..Len(inbox) = {}
  BY DEF Init
<1>9. SignsKept
  BY <1>5, <1>7, <1>8 DEF SignsKept
<1> QED BY <1>4, <1>9 DEF Inv

LEMMA TickInv == Inv /\ Tick => Inv'
<1> SUFFICES ASSUME Inv, Tick PROVE Inv'
  OBVIOUS
<1>1. now' \in Time /\ now \in Nat /\ now' = now + 1
  BY ClockAssumption DEF Inv, TypeOK, Tick, Time
<1>2. TypeOK'
  BY <1>1 DEF Inv, TypeOK, Tick
<1>3. \A c \in Ctx : sent[c] <= now'
  BY <1>1 DEF Inv, TypeOK, SignsKept, Time
<1>4. SignsKept'
  BY <1>3 DEF Inv, SignsKept, Tick, Sign, DatetimeNow
<1> QED BY <1>2, <1>4 DEF Inv

\* Only the dispatch that gives a sign of life moves its last sign, and forward.
LEMMA SentForward ==
    ASSUME Inv, NEW c \in Ctx, sent' = [sent EXCEPT ![c] = now], now' = now
    PROVE  /\ sent' \in [Ctx -> Time]
           /\ \A k \in Ctx : sent'[k] <= now'
           /\ \A k \in Ctx, s \in Stamp : Sign(s, sent[k]) => Sign(s, sent'[k])
<1>1. now \in Nat /\ now \in Time /\ sent \in [Ctx -> Time] /\ Time \subseteq Nat
  BY ClockAssumption DEF Inv, TypeOK, Time
<1>2. \A k \in Ctx : sent[k] \in Nat /\ sent'[k] \in Nat /\ sent[k] <= sent'[k]
  <2> SUFFICES ASSUME NEW k \in Ctx
               PROVE  sent[k] \in Nat /\ sent'[k] \in Nat /\ sent[k] <= sent'[k]
    OBVIOUS
  <2>1. sent[k] \in Nat /\ sent[k] <= now
    BY <1>1 DEF Inv, SignsKept
  <2>2. sent'[k] = now \/ sent'[k] = sent[k]
    BY <1>1
  <2> QED BY <1>1, <2>1, <2>2
<1>3. \A k \in Ctx : sent'[k] <= now'
  BY <1>1 DEF Inv, SignsKept
<1>4. \A k \in Ctx, s \in Stamp : Sign(s, sent[k]) => Sign(s, sent'[k])
  BY <1>2, SignLater
<1> QED BY <1>1, <1>3, <1>4

LEMMA DispatchInv == ASSUME NEW c \in Ctx PROVE Inv /\ Dispatch(c) => Inv'
<1> SUFFICES ASSUME Inv, Dispatch(c) PROVE Inv'
  OBVIOUS
<1>1. PICK t \in Task : row' = [row EXCEPT ![c] =
            [st |-> "dispatched", task |-> t, at |-> DatetimeNow(now), beats |-> {}]]
  BY DEF Dispatch
<1>2. now \in Nat /\ row \in [Ctx -> Row] /\ inbox \in Seq(Message)
  BY ClockAssumption DEF Inv, TypeOK, Time, Message
<1>3. DatetimeNow(now) \in Stamp /\ Sign(DatetimeNow(now), now)
  BY <1>2, StampType, SignNow
<1>4. /\ sent' \in [Ctx -> Time]
      /\ \A k \in Ctx : sent'[k] <= now'
      /\ \A k \in Ctx, s \in Stamp : Sign(s, sent[k]) => Sign(s, sent'[k])
  BY SentForward DEF Dispatch
<1>5. [st |-> "dispatched", task |-> t, at |-> DatetimeNow(now), beats |-> {}] \in Row
  BY <1>3 DEF Row
<1>6. TypeOK'
  BY <1>1, <1>2, <1>4, <1>5 DEF Inv, TypeOK, Dispatch
<1>7. \A k \in Ctx : Sign(row'[k].at, sent'[k])
  <2> SUFFICES ASSUME NEW k \in Ctx PROVE Sign(row'[k].at, sent'[k])
    OBVIOUS
  <2>1. CASE k = c
    <3>1. sent'[k] = now /\ row'[k].at = DatetimeNow(now)
      BY <1>1, <1>2, <2>1 DEF Dispatch, Inv, TypeOK
    <3> QED BY <3>1, <1>3
  <2>2. CASE k # c
    <3>1. row'[k] = row[k] /\ row[k].at \in Stamp
      BY <1>1, <1>2, <2>2 DEF Row
    <3> QED BY <3>1, <1>4 DEF Inv, SignsKept
  <2> QED BY <2>1, <2>2
<1>8. \A k \in Ctx : \A s \in row'[k].beats : Sign(s, sent'[k])
  <2> SUFFICES ASSUME NEW k \in Ctx, NEW s \in row'[k].beats PROVE Sign(s, sent'[k])
    OBVIOUS
  <2>1. k # c /\ row'[k] = row[k]
    BY <1>1, <1>2
  <2>2. s \in row[k].beats /\ s \in Stamp
    BY <1>2, <2>1 DEF Row
  <2> QED BY <2>2, <1>4 DEF Inv, SignsKept
<1>9. \A i \in 1..Len(inbox) : Sign(inbox[i].created_at, sent'[inbox[i].ctx])
  <2> SUFFICES ASSUME NEW i \in 1..Len(inbox)
               PROVE  Sign(inbox[i].created_at, sent'[inbox[i].ctx])
    OBVIOUS
  <2>1. inbox[i] \in Message
    BY <1>2
  <2>2. inbox[i].ctx \in Ctx /\ inbox[i].created_at \in Stamp
    BY <2>1 DEF Message
  <2> QED BY <1>4, <2>2 DEF Inv, SignsKept
<1> QED BY <1>4, <1>6, <1>7, <1>8, <1>9 DEF Inv, SignsKept, Dispatch

LEMMA SendInv == ASSUME NEW c \in Ctx PROVE Inv /\ SendHeartbeat(c) => Inv'
<1> SUFFICES ASSUME Inv, SendHeartbeat(c) PROVE Inv'
  OBVIOUS
<1> DEFINE m == [ctx |-> c, created_at |-> DatetimeNow(now)]
<1>1. now \in Nat /\ row \in [Ctx -> Row] /\ inbox \in Seq(Message) /\ sent \in [Ctx -> Time]
  BY ClockAssumption DEF Inv, TypeOK, Time, Message
<1>2. DatetimeNow(now) \in Stamp /\ Sign(DatetimeNow(now), now)
  BY <1>1, StampType, SignNow
<1>3. /\ sent' \in [Ctx -> Time]
      /\ \A k \in Ctx : sent'[k] <= now'
      /\ \A k \in Ctx, s \in Stamp : Sign(s, sent[k]) => Sign(s, sent'[k])
  BY SentForward DEF SendHeartbeat
<1>4. m \in Message /\ inbox' = Append(inbox, m)
  BY <1>2 DEF SendHeartbeat, Message
<1>5. inbox' \in Seq(Message)
  BY <1>1, <1>4
<1>6. TypeOK'
  BY <1>3, <1>5 DEF Inv, TypeOK, SendHeartbeat, Message
<1>7. \A k \in Ctx : Sign(row[k].at, sent'[k])
  BY <1>1, <1>3 DEF Inv, SignsKept, Row
<1>8. \A k \in Ctx : \A s \in row[k].beats : Sign(s, sent'[k])
  BY <1>1, <1>3 DEF Inv, SignsKept, Row
<1>9. \A i \in 1..Len(inbox') : Sign(inbox'[i].created_at, sent'[inbox'[i].ctx])
  <2> SUFFICES ASSUME NEW i \in 1..Len(inbox') PROVE Sign(inbox'[i].created_at, sent'[inbox'[i].ctx])
    OBVIOUS
  <2>1. CASE i = Len(inbox) + 1
    <3>1. inbox'[i] = m /\ sent'[c] = now
      BY <1>1, <1>4, <2>1 DEF SendHeartbeat
    <3> QED BY <3>1, <1>2
  <2>2. CASE i # Len(inbox) + 1
    <3>1. i \in 1..Len(inbox) /\ inbox'[i] = inbox[i] /\ inbox[i] \in Message
      BY <1>1, <1>4, <2>2
    <3> QED BY <3>1, <1>3 DEF Inv, SignsKept, Message
  <2> QED BY <2>1, <2>2
<1> QED BY <1>3, <1>6, <1>7, <1>8, <1>9 DEF Inv, SignsKept, SendHeartbeat

LEMMA ReadInv == Inv /\ ReadHeartbeat => Inv'
<1> SUFFICES ASSUME Inv, ReadHeartbeat PROVE Inv'
  OBVIOUS
<1> DEFINE m == Head(inbox)
<1>1. row \in [Ctx -> Row] /\ inbox \in Seq(Message) /\ inbox # <<>>
  BY DEF Inv, TypeOK, Message, ReadHeartbeat
<1>2. m = inbox[1] /\ m \in Message /\ 1 \in 1..Len(inbox)
  BY <1>1
<1>3. Sign(m.created_at, sent[m.ctx]) /\ m.ctx \in Ctx /\ m.created_at \in Stamp
  BY <1>2 DEF Inv, SignsKept, Message
<1>4. /\ inbox' \in Seq(Message)
      /\ \A i \in 1..Len(inbox') : i + 1 \in 1..Len(inbox) /\ inbox'[i] = inbox[i + 1]
  BY <1>1 DEF ReadHeartbeat
<1>5. row' \in [Ctx -> Row] /\ \A k \in Ctx : row'[k].at = row[k].at
  BY <1>1, <1>3 DEF ReadHeartbeat, RecordHeartbeat, Row
<1>6. \A k \in Ctx : \A s \in row'[k].beats : s \in row[k].beats \/ (k = m.ctx /\ s = m.created_at)
  BY <1>1, <1>3 DEF ReadHeartbeat, RecordHeartbeat, Row
<1>7. TypeOK'
  BY <1>4, <1>5 DEF Inv, TypeOK, ReadHeartbeat, Message
<1>8. \A i \in 1..Len(inbox') : Sign(inbox'[i].created_at, sent[inbox'[i].ctx])
  BY <1>4 DEF Inv, SignsKept
<1>9. \A k \in Ctx : \A s \in row'[k].beats : Sign(s, sent[k])
  BY <1>3, <1>6 DEF Inv, SignsKept
<1> QED BY <1>5, <1>7, <1>8, <1>9 DEF Inv, SignsKept, ReadHeartbeat

LEMMA CloseInv == ASSUME NEW c \in Ctx PROVE Inv /\ Close(c) => Inv'
<1> SUFFICES ASSUME Inv, Close(c) PROVE Inv'
  OBVIOUS
<1>1. row \in [Ctx -> Row]
  BY DEF Inv, TypeOK
<1>2. /\ row' \in [Ctx -> Row]
      /\ \A k \in Ctx : row'[k].at = row[k].at /\ row'[k].beats = row[k].beats
  BY <1>1 DEF Close, Row
<1>3. TypeOK'
  BY <1>2 DEF Inv, TypeOK, Close
<1>4. SignsKept'
  BY <1>2 DEF Inv, SignsKept, Close
<1> QED BY <1>3, <1>4 DEF Inv

\* The invariant is inductive.
THEOREM Invariance == Spec => []Inv
<1>1. ASSUME Inv, [Next]_vars PROVE Inv'
  <2>1. CASE UNCHANGED vars
    BY <1>1, <2>1 DEF Inv, TypeOK, SignsKept, vars
  <2>2. CASE Next
    BY <1>1, <2>2, TickInv, ReadInv, DispatchInv, SendInv, CloseInv DEF Next
  <2> QED BY <1>1, <2>1, <2>2
<1> QED BY <1>1, InitInv, PTL DEF Spec

\* An open dispatch whose worker has been silent for longer than the threshold is
\* in the answer of getStaleDispatches (db.ts:684-717), for every length of the day,
\* across midnight, and however late the heartbeats are read.
THEOREM HungWarned == Spec => []HungIsWarned
<1>1. ASSUME Inv PROVE HungIsWarned
  <2> SUFFICES ASSUME NEW c \in Ctx, row[c].st = "dispatched", now - sent[c] > Hung
               PROVE  c \in StaleNow
    BY DEF HungIsWarned
  <2> DEFINE u == now - Hung
  <2>1. u \in Nat /\ sent[c] \in Nat /\ sent[c] <= u
    BY <1>1, ClockAssumption DEF Inv, TypeOK, Time
  <2>2. \A s : Sign(s, sent[c]) => Before(s, ToISOString(u))
    <3> SUFFICES ASSUME NEW s, Sign(s, sent[c]) PROVE Before(s, ToISOString(u))
      OBVIOUS
    <3>1. PICK t \in Nat : t <= sent[c] /\ s = DatetimeNow(t)
      BY DEF Sign
    <3>2. t <= u
      BY <2>1, <3>1
    <3> QED BY <2>1, <3>1, <3>2, OlderIsBefore
  <2>3. Sign(row[c].at, sent[c]) /\ \A s \in row[c].beats : Sign(s, sent[c])
    BY <1>1 DEF Inv, SignsKept
  <2> QED BY <2>2, <2>3 DEF StaleNow, GetStaleDispatches
<1> QED BY <1>1, Invariance, PTL

=============================================================================
