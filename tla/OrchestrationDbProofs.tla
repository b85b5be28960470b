----------------------- MODULE OrchestrationDbProofs -----------------------
(***************************************************************************)
(* Lemmas about the tables of the orchestration store and its methods, for *)
(* every set of tasks and terminals and every bound on the tables.  They   *)
(* say what a method writes and what it preserves on any tables d; the     *)
(* proofs about the store and about the coordinator cite them.             *)
(***************************************************************************)
EXTENDS OrchestrationDb, FiniteSetTheorems, WellFoundedInduction, TLAPS

-----------------------------------------------------------------------------
(***************************************************************************)
(* The queries MAX(failure_count) and ORDER BY rowid DESC LIMIT 1 have an  *)
(* answer: bounded sets of numbers have a greatest element.                *)
(***************************************************************************)

\* A nonempty set of naturals has a least element.
LEMMA LeastNat ==
    ASSUME NEW S \in SUBSET Nat, S # {}
    PROVE  \E x \in S : \A y \in S : x <= y
<1> DEFINE R == OpToRel(<, Nat)
<1>1. IsWellFoundedOn(R, Nat)
  BY NatLessThanWellFounded
<1>2. \A x, y \in Nat : y < x => <<y, x>> \in R
  BY DEF OpToRel
<1> HIDE DEF R
<1>3. PICK x \in S : \A y \in S : ~(<<y, x>> \in R)
  BY <1>1, WFMin
<1>4. \A y \in S : x <= y
  <2> TAKE y \in S
  <2>1. x \in Nat /\ y \in Nat
    OBVIOUS
  <2>2. ~(y < x)
    BY <1>2, <1>3, <2>1
  <2> QED BY <2>1, <2>2
<1> QED BY <1>4

\* A nonempty bounded set of naturals contains its maximum.
LEMMA MaxOfBounded ==
    ASSUME NEW S \in SUBSET Nat, S # {}, NEW n \in Nat, \A x \in S : x <= n
    PROVE  Max(S) \in S /\ \A y \in S : y <= Max(S)
<1> DEFINE T == {n - x : x \in S}
<1>1. T \in SUBSET Nat
  <2>1. \A x \in S : x \in Nat /\ n - x \in Nat
    OBVIOUS
  <2> QED BY <2>1
<1>2. T # {}
  OBVIOUS
<1> HIDE DEF T
<1>3. PICK z \in T : \A w \in T : z <= w
  BY <1>1, <1>2, LeastNat
<1>4. PICK x \in S : z = n - x
  BY DEF T
<1>5. \A y \in S : x >= y
  <2> TAKE y \in S
  <2>1. n - y \in T
    BY DEF T
  <2> QED BY <1>3, <1>4, <2>1
<1> QED BY <1>5 DEF Max

\* Finitely many naturals have a bound.
LEMMA ValuesBounded ==
    ASSUME NEW n \in Nat, NEW f \in [1..n -> Nat]
    PROVE  \E b \in Nat : \A c \in 1..n : f[c] <= b
<1> DEFINE Bad == {m \in 0..n : \A b \in Nat : \E c \in 1..m : f[c] > b}
<1>1. SUFFICES ASSUME n \in Bad PROVE FALSE
  <2> SUFFICES ASSUME \A b \in Nat : ~ \A c \in 1..n : f[c] <= b
               PROVE  n \in Bad
    OBVIOUS
  <2>1. ASSUME NEW b \in Nat PROVE \E c \in 1..n : f[c] > b
    <3>1. PICK c \in 1..n : ~(f[c] <= b)
      OBVIOUS
    <3>2. f[c] \in Nat
      OBVIOUS
    <3> QED BY <3>1, <3>2
  <2> QED BY <2>1
<1>2. PICK m \in Bad : \A k \in Bad : m <= k
  <2> Bad \in SUBSET Nat
    OBVIOUS
  <2> HIDE DEF Bad
  <2> QED BY <1>1, LeastNat
<1>3. m \in 1..n
  <2>1. m # 0
    <3>1. ASSUME m = 0 PROVE FALSE
      <4>1. PICK c \in 1..0 : f[c] > 0
        BY <3>1
      <4> QED BY <4>1
    <3> QED BY <3>1
  <2> QED BY <2>1
<1>4. PICK b \in Nat : \A c \in 1..m - 1 : ~(f[c] > b)
  <2>1. m - 1 \in 0..n
    BY <1>3
  <2>2. m - 1 \notin Bad
    <3> HIDE DEF Bad
    <3> QED BY <1>2, <1>3
  <2> QED BY <2>1, <2>2
<1>5. f[m] \in Nat /\ f[m] + b \in Nat
  BY <1>3
<1>6. PICK c \in 1..m : f[c] > f[m] + b
  BY <1>5
<1>7. CASE c = m
  BY <1>5, <1>6, <1>7
<1>8. CASE c \in 1..m - 1
  <2>1. f[c] \in Nat
    BY <1>3, <1>8
  <2> QED BY <1>4, <1>5, <1>6, <1>8, <2>1
<1> QED BY <1>3, <1>7, <1>8

-----------------------------------------------------------------------------
(***************************************************************************)
(* The invariant, on any tables d.                                         *)
(***************************************************************************)
Lock(d) == \A c, k \in ActiveCtx(d) : d.cwho[c] = d.cwho[k] => c = k
Refer(d) == \A c \in Ctx : HasCtx(d, c) => HasTask(d, d.ctask[c])
Accounts(d) ==
    \A c \in Ctx :
        /\ d.cstat[c] = "failed" => d.cfail[c] \in 1..2
        /\ d.cstat[c] = "circuit_broken" => d.cfail[c] >= 3

Good(d) == d \in Tables /\ Lock(d) /\ Refer(d) /\ Accounts(d)

\* e has the dispatch rows of d.
SameCtxs(d, e) ==
    /\ e.cstat = d.cstat
    /\ e.ctask = d.ctask
    /\ e.cwho = d.cwho
    /\ e.cfail = d.cfail

\* Tables that keep the dispatch rows and lose no task stay good.
LEMMA SameCtxsGood ==
    ASSUME NEW d, Good(d), NEW e \in Tables, SameCtxs(d, e),
           \A t \in Task : HasTask(d, t) => HasTask(e, t)
    PROVE  Good(e)
<1>1. \A c \in Ctx : d.ctask[c] \in Task
  BY DEF Good, Tables
<1>2. Lock(e)
  BY DEF Good, Lock, SameCtxs, ActiveCtx
<1>3. Refer(e)
  BY <1>1 DEF Good, Refer, SameCtxs, HasCtx
<1>4. Accounts(e)
  BY DEF Good, Accounts, SameCtxs
<1> QED BY <1>2, <1>3, <1>4 DEF Good

LEMMA SetTaskGood ==
    ASSUME NEW d, Good(d), NEW t \in Task, NEW s \in TaskStatus
    PROVE  Good(SetTask(d, t, s)) /\ SameCtxs(d, SetTask(d, t, s))
<1>1. SetTask(d, t, s) \in Tables /\ SameCtxs(d, SetTask(d, t, s))
  BY DEF Good, SetTask, Tables, SameCtxs
<1>2. \A u \in Task : HasTask(d, u) => HasTask(SetTask(d, t, s), u)
  BY DEF Good, SetTask, Tables, HasTask
<1> QED BY <1>1, <1>2, SameCtxsGood

LEMMA CreateTaskGood ==
    ASSUME NEW d, Good(d), NEW t \in Task, NEW D \in SUBSET Task
    PROVE  Good(CreateTask(d, t, D)) /\ SameCtxs(d, CreateTask(d, t, D))
<1>1. CreateTask(d, t, D) \in Tables /\ SameCtxs(d, CreateTask(d, t, D))
  BY DEF Good, CreateTask, Tables, SameCtxs, TaskStatus
<1>2. \A u \in Task : HasTask(d, u) => HasTask(CreateTask(d, t, D), u)
  BY DEF Good, CreateTask, Tables, HasTask, TaskStatus
<1> QED BY <1>1, <1>2, SameCtxsGood

LEMMA PromoteGood ==
    ASSUME NEW d, Good(d), NEW P \in SUBSET Task
    PROVE  Good(Promote(d, P)) /\ SameCtxs(d, Promote(d, P))
<1>1. Promote(d, P) \in Tables /\ SameCtxs(d, Promote(d, P))
  BY DEF Good, Promote, Tables, SameCtxs, TaskStatus
<1>2. \A u \in Task : HasTask(d, u) => HasTask(Promote(d, P), u)
  BY DEF Good, Promote, Tables, HasTask, TaskStatus
<1> QED BY <1>1, <1>2, SameCtxsGood

LEMMA InsertGateGood ==
    ASSUME NEW d, Good(d), NEW t \in Task, NEW g \in Gate
    PROVE  Good(InsertGate(d, t, g)) /\ SameCtxs(d, InsertGate(d, t, g))
<1>1. InsertGate(d, t, g) \in Tables /\ SameCtxs(d, InsertGate(d, t, g))
  BY DEF Good, InsertGate, Tables, SameCtxs, GateStatus
<1>2. \A u \in Task : HasTask(d, u) => HasTask(InsertGate(d, t, g), u)
  BY DEF Good, InsertGate, Tables, HasTask
<1> QED BY <1>1, <1>2, SameCtxsGood

LEMMA CloseGateGood ==
    ASSUME NEW d, Good(d), NEW g \in Gate, NEW s \in GateStatus
    PROVE  Good(CloseGate(d, g, s)) /\ SameCtxs(d, CloseGate(d, g, s))
<1>1. CloseGate(d, g, s) \in Tables /\ SameCtxs(d, CloseGate(d, g, s))
  BY DEF Good, CloseGate, Tables, SameCtxs
<1>2. \A u \in Task : HasTask(d, u) => HasTask(CloseGate(d, g, s), u)
  BY DEF Good, CloseGate, Tables, HasTask
<1> QED BY <1>1, <1>2, SameCtxsGood

\* The greatest number of an active row of t is such a row.
LEMMA MaxActiveCtx ==
    ASSUME NEW d, NEW t \in Task, ActiveCtxOf(d, t) # {}
    PROVE  Max(ActiveCtxOf(d, t)) \in ActiveCtxOf(d, t)
<1>1. ActiveCtxOf(d, t) \in SUBSET Nat /\ \A c \in ActiveCtxOf(d, t) : c <= MaxCtx
  BY BoundAssumption DEF ActiveCtxOf, ActiveCtx, CtxOf, Ctx
<1> QED BY <1>1, BoundAssumption, MaxOfBounded

\* The failures carried over to the next dispatch of a task are a natural number.
LEMMA PriorFailuresNat ==
    ASSUME NEW d \in Tables, NEW t \in Task
    PROVE  PriorFailures(d, t) \in Nat
<1> DEFINE S == {0} \cup {d.cfail[c] : c \in CtxOf(d, t)}
<1>1. d.cfail \in [1..MaxCtx -> Nat]
  BY DEF Tables, Ctx
<1>2. PICK b \in Nat : \A c \in 1..MaxCtx : d.cfail[c] <= b
  BY <1>1, BoundAssumption, ValuesBounded
<1>3. S \in SUBSET Nat /\ S # {} /\ \A x \in S : x <= b
  <2>1. \A c \in CtxOf(d, t) : d.cfail[c] \in Nat /\ d.cfail[c] <= b
    BY <1>1, <1>2 DEF CtxOf, Ctx
  <2> QED BY <1>2, <2>1
<1>4. Max(S) \in S
  <2> HIDE DEF S
  <2> QED BY <1>2, <1>3, MaxOfBounded
<1> QED BY <1>3, <1>4 DEF PriorFailures

\* What happened to the dispatch rows from d to e: none reopened, moved or forgot a
\* failure.
Stands(d, e) ==
    \A c \in Ctx :
        HasCtx(d, c) =>
            /\ e.ctask[c] = d.ctask[c]
            /\ e.cwho[c] = d.cwho[c]
            /\ e.cfail[c] >= d.cfail[c]
            /\ e.cstat[c] \in ActiveStatus => d.cstat[c] \in ActiveStatus

LEMMA SameCtxsStands ==
    ASSUME NEW d \in Tables, NEW e, SameCtxs(d, e)
    PROVE  Stands(d, e)
<1>1. \A c \in Ctx : d.cfail[c] \in Nat
  BY DEF Tables
<1> QED BY <1>1 DEF Stands, SameCtxs

\* Closing or deleting rows keeps the tables good.
LEMMA FewerActiveGood ==
    ASSUME NEW d, Good(d), NEW e \in Tables,
           e.tstat = d.tstat, e.ctask = d.ctask, e.cwho = d.cwho,
           ActiveCtx(e) \subseteq ActiveCtx(d),
           \A c \in Ctx : HasCtx(e, c) => HasCtx(d, c),
           Accounts(e)
    PROVE  Good(e)
<1>1. Lock(e)
  BY DEF Good, Lock
<1>2. Refer(e)
  BY DEF Good, Refer, HasTask
<1> QED BY <1>1, <1>2 DEF Good

LEMMA CompleteActiveGood ==
    ASSUME NEW d, Good(d), NEW t \in Task
    PROVE  /\ Good(CompleteActiveDispatchForTask(d, t))
           /\ Stands(d, CompleteActiveDispatchForTask(d, t))
<1> DEFINE e == CompleteActiveDispatchForTask(d, t)
           m == Max(ActiveCtxOf(d, t))
<1>1. CASE ActiveCtxOf(d, t) = {}
  <2>1. e = d
    BY <1>1 DEF CompleteActiveDispatchForTask
  <2> QED BY <2>1, SameCtxsStands DEF Good, SameCtxs
<1>2. CASE ActiveCtxOf(d, t) # {}
  <2>1. m \in Ctx /\ d.cstat[m] \in ActiveStatus /\ HasCtx(d, m)
    <3>1. m \in ActiveCtxOf(d, t)
      BY <1>2, MaxActiveCtx
    <3> HIDE DEF m
    <3> QED BY <3>1 DEF ActiveCtxOf, ActiveCtx, CtxOf
  <2>2. e = [d EXCEPT !.cstat[m] = "completed"]
    BY <1>2 DEF CompleteActiveDispatchForTask
  <2> HIDE DEF m, e
  <2>3. /\ e \in Tables
        /\ e.tstat = d.tstat /\ e.ctask = d.ctask /\ e.cwho = d.cwho /\ e.cfail = d.cfail
        /\ e.cstat = [d.cstat EXCEPT ![m] = "completed"]
    BY <2>1, <2>2 DEF Good, Tables, DispatchStatus
  <2>4. d.cstat \in [Ctx -> DispatchStatus \cup NoRow] /\ d.cfail \in [Ctx -> Nat]
    BY DEF Good, Tables
  <2>5. \A c \in Ctx : e.cstat[c] = IF c = m THEN "completed" ELSE d.cstat[c]
    BY <2>3, <2>4
  <2>6. ActiveCtx(e) \subseteq ActiveCtx(d)
    BY <2>5 DEF ActiveCtx, ActiveStatus
  <2>7. \A c \in Ctx : HasCtx(e, c) => HasCtx(d, c)
    BY <2>1, <2>5 DEF HasCtx
  <2>8. Accounts(e)
    BY <2>3, <2>5 DEF Good, Accounts
  <2>9. Stands(d, e)
    BY <2>3, <2>4, <2>5 DEF Stands, ActiveStatus
  <2>10. Good(e)
    BY <2>3, <2>6, <2>7, <2>8, FewerActiveGood
  <2> QED BY <2>9, <2>10 DEF e
<1> QED BY <1>1, <1>2

LEMMA FailCtxGood ==
    ASSUME NEW d, Good(d), NEW x \in Ctx, HasCtx(d, x)
    PROVE  Good(FailCtx(d, x)) /\ Stands(d, FailCtx(d, x))
<1> DEFINE e == FailCtx(d, x)
           s == IF d.cfail[x] + 1 >= 3 THEN "circuit_broken" ELSE "failed"
<1>1. d.cstat \in [Ctx -> DispatchStatus \cup NoRow] /\ d.cfail \in [Ctx -> Nat]
  BY DEF Good, Tables
<1>2. s \in DispatchStatus /\ d.cfail[x] + 1 \in Nat /\ s \notin ActiveStatus
  BY <1>1 DEF DispatchStatus, ActiveStatus
<1>3. e = [d EXCEPT !.cstat[x] = s, !.cfail[x] = d.cfail[x] + 1]
  BY DEF FailCtx
<1> HIDE DEF e
<1>4. /\ e.tstat = d.tstat /\ e.ctask = d.ctask /\ e.cwho = d.cwho
      /\ e.cstat = [d.cstat EXCEPT ![x] = s]
      /\ e.cfail = [d.cfail EXCEPT ![x] = d.cfail[x] + 1]
  <2> HIDE DEF s
  <2> QED BY <1>3 DEF Good, Tables
<1>5. e \in Tables
  <2> HIDE DEF s
  <2> QED BY <1>2, <1>3 DEF Good, Tables
<1>6. \A c \in Ctx : /\ e.cstat[c] = IF c = x THEN s ELSE d.cstat[c]
                     /\ e.cfail[c] = IF c = x THEN d.cfail[x] + 1 ELSE d.cfail[c]
  <2> HIDE DEF s
  <2> QED BY <1>1, <1>4
<1>7. ActiveCtx(e) \subseteq ActiveCtx(d)
  BY <1>2, <1>6 DEF ActiveCtx
<1>8. \A c \in Ctx : HasCtx(e, c) => HasCtx(d, c)
  BY <1>6 DEF HasCtx
<1>9. Accounts(e)
  <2>1. \A c \in Ctx : c # x =>
            /\ e.cstat[c] = "failed" => e.cfail[c] \in 1..2
            /\ e.cstat[c] = "circuit_broken" => e.cfail[c] >= 3
    BY <1>6 DEF Good, Accounts
  <2>2. /\ e.cstat[x] = "failed" => e.cfail[x] \in 1..2
        /\ e.cstat[x] = "circuit_broken" => e.cfail[x] >= 3
    BY <1>1, <1>6
  <2> QED BY <2>1, <2>2 DEF Accounts
<1>10. Stands(d, e)
  BY <1>1, <1>2, <1>4, <1>6 DEF Stands
<1>11. Good(e)
  BY <1>4, <1>5, <1>7, <1>8, <1>9, FewerActiveGood
<1> QED BY <1>10, <1>11 DEF e

LEMMA InsertCtxGood ==
    ASSUME NEW d, Good(d), NEW t \in Task, NEW h \in Handle, NEW x \in UnusedCtx(d),
           CanDispatch(d, t, h)
    PROVE  Good(InsertCtx(d, t, h, x)) /\ Stands(d, InsertCtx(d, t, h, x))
<1> DEFINE e == InsertCtx(d, t, h, x)
           n == PriorFailures(d, t)
<1>1. x \in Ctx /\ d.cstat[x] = "unused" /\ ~HasCtx(d, x)
  BY DEF UnusedCtx, HasCtx, DispatchStatus
<1>2. /\ d.cstat \in [Ctx -> DispatchStatus \cup NoRow] /\ d.cfail \in [Ctx -> Nat]
      /\ d.ctask \in [Ctx -> Task] /\ d.cwho \in [Ctx -> Handle]
  BY DEF Good, Tables
<1>3. n \in Nat
  BY PriorFailuresNat DEF Good
<1>4. e = [d EXCEPT !.cstat[x] = "dispatched", !.ctask[x] = t, !.cwho[x] = h, !.cfail[x] = n]
  BY DEF InsertCtx
<1> HIDE DEF e, n
<1>5. /\ e.tstat = d.tstat
      /\ e.cstat = [d.cstat EXCEPT ![x] = "dispatched"]
      /\ e.ctask = [d.ctask EXCEPT ![x] = t]
      /\ e.cwho = [d.cwho EXCEPT ![x] = h]
      /\ e.cfail = [d.cfail EXCEPT ![x] = n]
  BY <1>4 DEF Good, Tables
<1>6. e \in Tables
  BY <1>1, <1>3, <1>4 DEF Good, Tables, DispatchStatus
<1>7. \A c \in Ctx : /\ e.cstat[c] = IF c = x THEN "dispatched" ELSE d.cstat[c]
                     /\ e.ctask[c] = IF c = x THEN t ELSE d.ctask[c]
                     /\ e.cwho[c] = IF c = x THEN h ELSE d.cwho[c]
                     /\ e.cfail[c] = IF c = x THEN n ELSE d.cfail[c]
  BY <1>2, <1>5
<1>8. Lock(e)
  <2> SUFFICES ASSUME NEW c \in ActiveCtx(e), NEW k \in ActiveCtx(e), e.cwho[c] = e.cwho[k]
               PROVE  c = k
    BY DEF Lock
  <2>1. \A a \in ActiveCtx(d) : d.cwho[a] # h
    BY DEF CanDispatch, ActiveCtxAt
  <2>2. \A a \in ActiveCtx(e) : a = x \/ (a \in ActiveCtx(d) /\ e.cwho[a] = d.cwho[a])
    BY <1>7 DEF ActiveCtx
  <2>3. e.cwho[x] = h
    BY <1>1, <1>7
  <2> QED BY <2>1, <2>2, <2>3 DEF Good, Lock
<1>9. Refer(e)
  BY <1>5, <1>7 DEF Good, Refer, HasCtx, HasTask, CanDispatch, TaskStatus
<1>10. Accounts(e)
  BY <1>7 DEF Good, Accounts
<1>11. Stands(d, e)
  BY <1>1, <1>2, <1>7 DEF Stands
<1> QED BY <1>6, <1>8, <1>9, <1>10, <1>11 DEF Good, e

(***************************************************************************)
(* Resets: gates first, then dispatches, then tasks.                       *)
(***************************************************************************)
LEMMA DeleteGatesGood ==
    ASSUME NEW d, Good(d)
    PROVE  Good(DeleteGates(d)) /\ SameCtxs(d, DeleteGates(d))
<1>1. DeleteGates(d) \in Tables /\ SameCtxs(d, DeleteGates(d))
  BY DEF Good, DeleteGates, DeleteRows, Tables, SameCtxs, NoRow
<1>2. \A u \in Task : HasTask(d, u) => HasTask(DeleteGates(d), u)
  BY DEF Good, DeleteGates, Tables, HasTask
<1> QED BY <1>1, <1>2, SameCtxsGood

LEMMA DeleteCtxsGood ==
    ASSUME NEW d, Good(d)
    PROVE  /\ Good(DeleteCtxs(d)) /\ Stands(d, DeleteCtxs(d))
           /\ \A c \in Ctx : ~HasCtx(DeleteCtxs(d), c)
<1> DEFINE e == DeleteCtxs(d)
<1>1. /\ e \in Tables /\ e.tstat = d.tstat
      /\ e.ctask = d.ctask /\ e.cwho = d.cwho /\ e.cfail = d.cfail
      /\ \A c \in Ctx : e.cstat[c] \in NoRow
  BY DEF Good, DeleteCtxs, DeleteRows, Tables, NoRow
<1>2. d.cfail \in [Ctx -> Nat]
  BY DEF Good, Tables
<1> HIDE DEF e
<1>3. \A c \in Ctx : ~HasCtx(e, c) /\ e.cstat[c] \notin ActiveStatus
  BY <1>1 DEF HasCtx, NoRow, DispatchStatus, ActiveStatus
<1>4. ActiveCtx(e) \subseteq ActiveCtx(d) /\ Accounts(e)
  BY <1>1, <1>3 DEF ActiveCtx, Accounts, NoRow
<1>5. Stands(d, e)
  BY <1>1, <1>2, <1>3 DEF Stands
<1>6. Good(e)
  BY <1>1, <1>3, <1>4, FewerActiveGood
<1> QED BY <1>3, <1>5, <1>6 DEF e

LEMMA DeleteTasksGood ==
    ASSUME NEW d, Good(d), \A c \in Ctx : ~HasCtx(d, c)
    PROVE  Good(DeleteTasks(d)) /\ SameCtxs(d, DeleteTasks(d))
<1>1. DeleteTasks(d) \in Tables /\ SameCtxs(d, DeleteTasks(d))
  BY DEF Good, DeleteTasks, DeleteRows, Tables, SameCtxs, NoRow
<1>2. \A c \in Ctx : ~HasCtx(DeleteTasks(d), c)
  BY <1>1 DEF HasCtx, SameCtxs
<1>3. Lock(DeleteTasks(d)) /\ Accounts(DeleteTasks(d))
  BY <1>1 DEF Good, Lock, Accounts, ActiveCtx, SameCtxs
<1> QED BY <1>1, <1>2, <1>3 DEF Good, Refer

LEMMA StandsThenSame ==
    ASSUME NEW d, NEW e, NEW f, Stands(d, e), SameCtxs(e, f)
    PROVE  Stands(d, f)
BY DEF Stands, SameCtxs

LEMMA SameThenStands ==
    ASSUME NEW d, NEW e, NEW f, SameCtxs(d, e), Stands(e, f)
    PROVE  Stands(d, f)
BY DEF Stands, SameCtxs, HasCtx

LEMMA SetAndPromoteGood ==
    ASSUME NEW d, Good(d), NEW t \in Task, NEW s \in TaskStatus, NEW P \in SUBSET Task
    PROVE  /\ Good(Promote(SetTask(d, t, s), P))
           /\ SameCtxs(d, Promote(SetTask(d, t, s), P))
<1>1. Good(SetTask(d, t, s)) /\ SameCtxs(d, SetTask(d, t, s))
  BY SetTaskGood
<1>2. /\ Good(Promote(SetTask(d, t, s), P))
      /\ SameCtxs(SetTask(d, t, s), Promote(SetTask(d, t, s), P))
  BY <1>1, PromoteGood
<1> QED BY <1>1, <1>2 DEF SameCtxs

LEMMA PromotableTasks ==
    ASSUME NEW d, NEW t
    PROVE  Promotable(d, t) \in SUBSET Task
BY DEF Promotable, TasksIn

-----------------------------------------------------------------------------
(***************************************************************************)
(* What the methods write, column by column.                               *)
(***************************************************************************)
SameGates(d, e) == e.gstat = d.gstat /\ e.gtask = d.gtask

LEMMA SetTaskWrites ==
    ASSUME NEW d \in Tables, NEW t \in Task, NEW s \in TaskStatus
    PROVE  LET e == SetTask(d, t, s)
           IN  /\ e \in Tables /\ SameCtxs(d, e) /\ SameGates(d, e) /\ e.deps = d.deps
               /\ \A u \in Task : e.tstat[u] = IF u = t /\ HasTask(d, t) THEN s ELSE d.tstat[u]
BY DEF SetTask, Tables, SameCtxs, SameGates

LEMMA CreateTaskWrites ==
    ASSUME NEW d \in Tables, NEW t \in Task, NEW D \in SUBSET Task
    PROVE  LET e == CreateTask(d, t, D)
           IN  /\ e \in Tables /\ SameCtxs(d, e) /\ SameGates(d, e)
               /\ \A u \in Task :
                    /\ e.tstat[u] = IF u # t THEN d.tstat[u]
                                    ELSE IF D = {} THEN "ready" ELSE "pending"
                    /\ e.deps[u] = IF u = t THEN D ELSE d.deps[u]
BY DEF CreateTask, Tables, SameCtxs, SameGates, TaskStatus

LEMMA PromoteWrites ==
    ASSUME NEW d \in Tables, NEW P \in SUBSET Task
    PROVE  LET e == Promote(d, P)
           IN  /\ e \in Tables /\ SameCtxs(d, e) /\ SameGates(d, e) /\ e.deps = d.deps
               /\ \A u \in Task : e.tstat[u] = IF u \in P THEN "ready" ELSE d.tstat[u]
BY DEF Promote, Tables, SameCtxs, SameGates, TaskStatus

\* CompleteActiveDispatchForTask writes the greatest active row of t, if there is one.
LEMMA CompleteActiveWrites ==
    ASSUME NEW d \in Tables, NEW t \in Task
    PROVE  LET e == CompleteActiveDispatchForTask(d, t)
           IN  /\ e \in Tables /\ SameGates(d, e) /\ e.deps = d.deps /\ e.tstat = d.tstat
               /\ e.ctask = d.ctask /\ e.cwho = d.cwho /\ e.cfail = d.cfail
               /\ \A c \in Ctx : e.cstat[c] = IF c \in ActiveCtxOf(d, t) /\ c = Max(ActiveCtxOf(d, t))
                                              THEN "completed" ELSE d.cstat[c]
<1> DEFINE e == CompleteActiveDispatchForTask(d, t)
           m == Max(ActiveCtxOf(d, t))
<1>1. CASE ActiveCtxOf(d, t) = {}
  BY <1>1 DEF CompleteActiveDispatchForTask, SameGates
<1>2. CASE ActiveCtxOf(d, t) # {}
  <2>1. m \in ActiveCtxOf(d, t)
    BY <1>2, MaxActiveCtx
  <2>2. m \in Ctx
    <3> HIDE DEF m
    <3> QED BY <2>1 DEF ActiveCtxOf, CtxOf
  <2>3. e = [d EXCEPT !.cstat[m] = "completed"]
    BY <1>2 DEF CompleteActiveDispatchForTask
  <2> HIDE DEF e, m
  <2>4. /\ e \in Tables /\ SameGates(d, e) /\ e.deps = d.deps /\ e.tstat = d.tstat
        /\ e.ctask = d.ctask /\ e.cwho = d.cwho /\ e.cfail = d.cfail
        /\ e.cstat = [d.cstat EXCEPT ![m] = "completed"]
    BY <2>2, <2>3 DEF Tables, DispatchStatus, SameGates
  <2>5. d.cstat \in [Ctx -> DispatchStatus \cup NoRow]
    BY DEF Tables
  <2>6. \A c \in Ctx : e.cstat[c] = IF c \in ActiveCtxOf(d, t) /\ c = m
                                    THEN "completed" ELSE d.cstat[c]
    BY <2>1, <2>2, <2>4, <2>5
  <2> QED BY <2>4, <2>6 DEF e, m
<1> QED BY <1>1, <1>2

\* The tasks that completing t makes ready.
Freed(d, t) == Promotable(SetTask(d, t, "completed"), t)

LEMMA FreedWait ==
    ASSUME NEW d \in Tables, NEW t \in Task
    PROVE  /\ Freed(d, t) \in SUBSET TasksIn(d, "pending")
           /\ t \notin Freed(d, t)
           /\ \A u \in Freed(d, t) : \A v \in d.deps[u] :
                d.tstat[v] = "completed" \/ (v = t /\ HasTask(d, t))
<1> DEFINE w == SetTask(d, t, "completed")
<1>1. /\ w.deps = d.deps
      /\ \A u \in Task : w.tstat[u] = IF u = t /\ HasTask(d, t) THEN "completed" ELSE d.tstat[u]
  BY SetTaskWrites DEF TaskStatus
<1>2. \A u \in Freed(d, t) : /\ u \in Task /\ w.tstat[u] = "pending" /\ t \in d.deps[u]
                             /\ \A v \in d.deps[u] : w.tstat[v] = "completed"
  BY <1>1 DEF Freed, Promotable, TasksIn
<1>3. d.deps \in [Task -> SUBSET Task]
  BY DEF Tables
<1> HIDE DEF w
<1>4. \A u \in Freed(d, t) : u # t
  BY <1>1, <1>2, <1>3
<1>5. \A u \in Freed(d, t) : d.tstat[u] = "pending"
  BY <1>1, <1>2
<1>6. \A u \in Freed(d, t) : \A v \in d.deps[u] :
        d.tstat[v] = "completed" \/ (v = t /\ HasTask(d, t))
  BY <1>1, <1>2, <1>3
<1> QED BY <1>2, <1>4, <1>5, <1>6 DEF TasksIn

LEMMA UpdateTaskStatusWrites ==
    ASSUME NEW d \in Tables, NEW t \in Task, NEW s \in TaskStatus
    PROVE  LET e == UpdateTaskStatus(d, t, s)
           IN  /\ e \in Tables /\ SameGates(d, e) /\ e.deps = d.deps
               /\ e.ctask = d.ctask /\ e.cwho = d.cwho /\ e.cfail = d.cfail
               /\ \A u \in Task :
                    e.tstat[u] = IF u = t /\ HasTask(d, t) THEN s
                                 ELSE IF s = "completed" /\ u \in Freed(d, t) THEN "ready"
                                 ELSE d.tstat[u]
               /\ \A c \in Ctx :
                    e.cstat[c] = IF /\ s = "completed" /\ c \in ActiveCtxOf(d, t)
                                    /\ c = Max(ActiveCtxOf(d, t))
                                 THEN "completed" ELSE d.cstat[c]
<1> DEFINE e == UpdateTaskStatus(d, t, s)
           w == SetTask(d, t, s)
           p == Promote(w, Freed(d, t))
<1>1. /\ w \in Tables /\ SameCtxs(d, w) /\ SameGates(d, w) /\ w.deps = d.deps
      /\ \A u \in Task : w.tstat[u] = IF u = t /\ HasTask(d, t) THEN s ELSE d.tstat[u]
  BY SetTaskWrites
<1>2. CASE s # "completed"
  <2>1. e = w
    BY <1>2 DEF UpdateTaskStatus
  <2> HIDE DEF e, w
  <2> QED BY <1>1, <1>2, <2>1 DEF SameCtxs, e
<1>3. CASE s = "completed"
  <2>1. e = CompleteActiveDispatchForTask(p, t)
    BY <1>3 DEF UpdateTaskStatus, Freed
  <2>2. Freed(d, t) \in SUBSET Task /\ t \notin Freed(d, t)
    BY FreedWait DEF TasksIn
  <2> HIDE DEF e, w
  <2>3. /\ p \in Tables /\ SameCtxs(w, p) /\ SameGates(w, p) /\ p.deps = w.deps
        /\ \A u \in Task : p.tstat[u] = IF u \in Freed(d, t) THEN "ready" ELSE w.tstat[u]
    BY <1>1, <2>2, PromoteWrites
  <2> HIDE DEF p
  <2>4. ActiveCtxOf(p, t) = ActiveCtxOf(d, t)
    BY <1>1, <2>3 DEF ActiveCtxOf, ActiveCtx, CtxOf, HasCtx, SameCtxs
  <2>5. /\ e \in Tables /\ SameGates(p, e) /\ e.deps = p.deps /\ e.tstat = p.tstat
        /\ e.ctask = p.ctask /\ e.cwho = p.cwho /\ e.cfail = p.cfail
        /\ \A c \in Ctx : e.cstat[c] = IF c \in ActiveCtxOf(p, t) /\ c = Max(ActiveCtxOf(p, t))
                                       THEN "completed" ELSE p.cstat[c]
    BY <2>1, <2>3, CompleteActiveWrites
  <2>6. \A u \in Task : e.tstat[u] = IF u = t /\ HasTask(d, t) THEN s
                                     ELSE IF u \in Freed(d, t) THEN "ready" ELSE d.tstat[u]
    BY <1>1, <2>2, <2>3, <2>5
  <2>7. /\ SameGates(d, e) /\ e.deps = d.deps
        /\ e.ctask = d.ctask /\ e.cwho = d.cwho /\ e.cfail = d.cfail
    BY <1>1, <2>3, <2>5 DEF SameGates, SameCtxs
  <2>8. \A c \in Ctx : e.cstat[c] = IF c \in ActiveCtxOf(d, t) /\ c = Max(ActiveCtxOf(d, t))
                                    THEN "completed" ELSE d.cstat[c]
    BY <1>1, <2>3, <2>4, <2>5 DEF SameCtxs
  <2> QED BY <1>3, <2>5, <2>6, <2>7, <2>8 DEF e
<1> QED BY <1>2, <1>3

LEMMA FailDispatchWrites ==
    ASSUME NEW d \in Tables, NEW x \in Ctx
    PROVE  LET e == FailDispatch(d, x)
               broken == d.cfail[x] + 1 >= 3
           IN  /\ e \in Tables /\ SameGates(d, e) /\ e.deps = d.deps
               /\ e.ctask = d.ctask /\ e.cwho = d.cwho
               /\ \A c \in Ctx :
                    /\ e.cstat[c] = IF c # x THEN d.cstat[c]
                                    ELSE IF broken THEN "circuit_broken" ELSE "failed"
                    /\ e.cfail[c] = IF c # x THEN d.cfail[c] ELSE d.cfail[x] + 1
               /\ \A u \in Task :
                    e.tstat[u] = IF u # d.ctask[x] \/ ~HasTask(d, u) THEN d.tstat[u]
                                 ELSE IF broken THEN "failed" ELSE "ready"
<1> DEFINE f == FailCtx(d, x)
           t == d.ctask[x]
           q == IF d.cfail[x] + 1 >= 3 THEN "circuit_broken" ELSE "failed"
           s == IF d.cfail[x] + 1 >= 3 THEN "failed" ELSE "ready"
           e == SetTask(f, t, s)
<1>1. /\ d.cstat \in [Ctx -> DispatchStatus \cup NoRow]
      /\ d.cfail \in [Ctx -> Nat] /\ t \in Task
  BY DEF Tables
<1>2. d.cfail[x] + 1 \in Nat /\ q \in DispatchStatus /\ s \in TaskStatus
  BY <1>1 DEF DispatchStatus, TaskStatus
<1>3. f = [d EXCEPT !.cstat[x] = q, !.cfail[x] = d.cfail[x] + 1]
  BY DEF FailCtx
<1>a. e = FailDispatch(d, x)
  BY DEF FailDispatch
<1> HIDE DEF f, q, s, t
<1>4. /\ f \in Tables /\ SameGates(d, f) /\ f.deps = d.deps /\ f.tstat = d.tstat
      /\ f.ctask = d.ctask /\ f.cwho = d.cwho
      /\ f.cstat = [d.cstat EXCEPT ![x] = q]
      /\ f.cfail = [d.cfail EXCEPT ![x] = d.cfail[x] + 1]
  BY <1>2, <1>3 DEF Tables, SameGates
<1>5. /\ e \in Tables /\ SameCtxs(f, e) /\ SameGates(f, e) /\ e.deps = f.deps
      /\ \A u \in Task : e.tstat[u] = IF u = t /\ HasTask(f, t) THEN s ELSE f.tstat[u]
  BY <1>1, <1>2, <1>4, SetTaskWrites
<1> HIDE DEF e
<1>6. \A c \in Ctx : /\ e.cstat[c] = IF c # x THEN d.cstat[c] ELSE q
                     /\ e.cfail[c] = IF c # x THEN d.cfail[c] ELSE d.cfail[x] + 1
  BY <1>1, <1>4, <1>5 DEF SameCtxs
<1>7. \A u \in Task : e.tstat[u] = IF u # t \/ ~HasTask(d, u) THEN d.tstat[u] ELSE s
  BY <1>4, <1>5 DEF HasTask
<1>8. /\ SameGates(d, e) /\ e.deps = d.deps /\ e.ctask = d.ctask /\ e.cwho = d.cwho
  BY <1>4, <1>5 DEF SameGates, SameCtxs
<1> QED BY <1>5, <1>6, <1>7, <1>8, <1>a DEF q, s, t

LEMMA CreateDispatchContextWrites ==
    ASSUME NEW d \in Tables, NEW t \in Task, NEW h \in Handle, NEW x \in Ctx,
           CanDispatch(d, t, h)
    PROVE  LET e == CreateDispatchContext(d, t, h, x)
           IN  /\ e \in Tables /\ SameGates(d, e) /\ e.deps = d.deps
               /\ \A c \in Ctx :
                    /\ e.cstat[c] = IF c = x THEN "dispatched" ELSE d.cstat[c]
                    /\ e.ctask[c] = IF c = x THEN t ELSE d.ctask[c]
                    /\ e.cwho[c] = IF c = x THEN h ELSE d.cwho[c]
                    /\ e.cfail[c] = IF c = x THEN PriorFailures(d, t) ELSE d.cfail[c]
               /\ \A u \in Task : e.tstat[u] = IF u = t THEN "dispatched" ELSE d.tstat[u]
<1> DEFINE i == InsertCtx(d, t, h, x)
           n == PriorFailures(d, t)
           e == SetTask(i, t, "dispatched")
<1>1. /\ d.cstat \in [Ctx -> DispatchStatus \cup NoRow] /\ d.cfail \in [Ctx -> Nat]
      /\ d.ctask \in [Ctx -> Task] /\ d.cwho \in [Ctx -> Handle]
  BY DEF Tables
<1>2. n \in Nat
  BY PriorFailuresNat
<1>3. i = [d EXCEPT !.cstat[x] = "dispatched", !.ctask[x] = t, !.cwho[x] = h, !.cfail[x] = n]
  BY DEF InsertCtx
<1>a. e = CreateDispatchContext(d, t, h, x)
  BY DEF CreateDispatchContext
<1> HIDE DEF i, n
<1>4. /\ i \in Tables /\ SameGates(d, i) /\ i.deps = d.deps /\ i.tstat = d.tstat
      /\ i.cstat = [d.cstat EXCEPT ![x] = "dispatched"]
      /\ i.ctask = [d.ctask EXCEPT ![x] = t]
      /\ i.cwho = [d.cwho EXCEPT ![x] = h]
      /\ i.cfail = [d.cfail EXCEPT ![x] = n]
  <2>1. /\ i.cstat = [d.cstat EXCEPT ![x] = "dispatched"] /\ i.ctask = [d.ctask EXCEPT ![x] = t]
        /\ i.cwho = [d.cwho EXCEPT ![x] = h] /\ i.cfail = [d.cfail EXCEPT ![x] = n]
        /\ SameGates(d, i) /\ i.deps = d.deps /\ i.tstat = d.tstat
    BY <1>3 DEF Tables, SameGates
  <2>2. /\ [d.cstat EXCEPT ![x] = "dispatched"] \in [Ctx -> DispatchStatus \cup NoRow]
        /\ [d.ctask EXCEPT ![x] = t] \in [Ctx -> Task]
        /\ [d.cwho EXCEPT ![x] = h] \in [Ctx -> Handle]
        /\ [d.cfail EXCEPT ![x] = n] \in [Ctx -> Nat]
    BY <1>1, <1>2 DEF DispatchStatus
  <2>3. i \in Tables
    BY <1>3, <2>2 DEF Tables
  <2> QED BY <2>1, <2>3
<1>5. /\ e \in Tables /\ SameCtxs(i, e) /\ SameGates(i, e) /\ e.deps = i.deps
      /\ \A u \in Task : e.tstat[u] = IF u = t /\ HasTask(i, t) THEN "dispatched" ELSE i.tstat[u]
  BY <1>4, SetTaskWrites DEF TaskStatus
<1>6. HasTask(i, t)
  BY <1>4 DEF HasTask, CanDispatch, TaskStatus
<1> HIDE DEF e
<1>7. \A c \in Ctx : /\ e.cstat[c] = IF c = x THEN "dispatched" ELSE d.cstat[c]
                     /\ e.ctask[c] = IF c = x THEN t ELSE d.ctask[c]
                     /\ e.cwho[c] = IF c = x THEN h ELSE d.cwho[c]
                     /\ e.cfail[c] = IF c = x THEN n ELSE d.cfail[c]
  BY <1>1, <1>4, <1>5 DEF SameCtxs
<1>8. SameGates(d, e) /\ e.deps = d.deps
  BY <1>4, <1>5 DEF SameGates
<1>9. \A u \in Task : e.tstat[u] = IF u = t THEN "dispatched" ELSE d.tstat[u]
  BY <1>4, <1>5, <1>6
<1> QED BY <1>5, <1>7, <1>8, <1>9, <1>a DEF n

LEMMA CreateGateWrites ==
    ASSUME NEW d \in Tables, NEW t \in Task, NEW g \in Gate
    PROVE  LET e == CreateGate(d, t, g)
           IN  /\ e \in Tables /\ e.deps = d.deps
               /\ e.ctask = d.ctask /\ e.cwho = d.cwho /\ e.cfail = d.cfail
               /\ \A k \in Gate :
                    /\ e.gstat[k] = IF k = g THEN "pending" ELSE d.gstat[k]
                    /\ e.gtask[k] = IF k = g THEN t ELSE d.gtask[k]
               /\ \A u \in Task :
                    e.tstat[u] = IF u = t /\ HasTask(d, t) THEN "blocked" ELSE d.tstat[u]
               /\ \A c \in Ctx :
                    e.cstat[c] = IF c \in ActiveCtxOf(d, t) /\ c = Max(ActiveCtxOf(d, t))
                                 THEN "completed" ELSE d.cstat[c]
<1> DEFINE i == InsertGate(d, t, g)
           a == CompleteActiveDispatchForTask(i, t)
           e == SetTask(a, t, "blocked")
<1>1. /\ i \in Tables /\ SameCtxs(d, i) /\ i.deps = d.deps /\ i.tstat = d.tstat
      /\ \A k \in Gate : /\ i.gstat[k] = IF k = g THEN "pending" ELSE d.gstat[k]
                         /\ i.gtask[k] = IF k = g THEN t ELSE d.gtask[k]
  BY DEF InsertGate, Tables, SameCtxs, GateStatus
<1>a. e = CreateGate(d, t, g)
  BY DEF CreateGate
<1> HIDE DEF i
<1>2. ActiveCtxOf(i, t) = ActiveCtxOf(d, t)
  BY <1>1 DEF ActiveCtxOf, ActiveCtx, CtxOf, HasCtx, SameCtxs
<1>3. /\ a \in Tables /\ SameGates(i, a) /\ a.deps = i.deps /\ a.tstat = i.tstat
      /\ a.ctask = i.ctask /\ a.cwho = i.cwho /\ a.cfail = i.cfail
      /\ \A c \in Ctx : a.cstat[c] = IF c \in ActiveCtxOf(i, t) /\ c = Max(ActiveCtxOf(i, t))
                                     THEN "completed" ELSE i.cstat[c]
  BY <1>1, CompleteActiveWrites
<1> HIDE DEF a
<1>4. /\ e \in Tables /\ SameCtxs(a, e) /\ SameGates(a, e) /\ e.deps = a.deps
      /\ \A u \in Task : e.tstat[u] = IF u = t /\ HasTask(a, t) THEN "blocked" ELSE a.tstat[u]
  BY <1>3, SetTaskWrites DEF TaskStatus
<1> HIDE DEF e
<1>5. /\ e.deps = d.deps /\ e.ctask = d.ctask /\ e.cwho = d.cwho /\ e.cfail = d.cfail
      /\ \A k \in Gate : /\ e.gstat[k] = IF k = g THEN "pending" ELSE d.gstat[k]
                         /\ e.gtask[k] = IF k = g THEN t ELSE d.gtask[k]
  BY <1>1, <1>3, <1>4 DEF SameGates, SameCtxs
<1>6. \A u \in Task : e.tstat[u] = IF u = t /\ HasTask(d, t) THEN "blocked" ELSE d.tstat[u]
  BY <1>1, <1>3, <1>4 DEF HasTask
<1>7. \A c \in Ctx : e.cstat[c] = IF c \in ActiveCtxOf(d, t) /\ c = Max(ActiveCtxOf(d, t))
                                  THEN "completed" ELSE d.cstat[c]
  BY <1>1, <1>2, <1>3, <1>4 DEF SameCtxs
<1> QED BY <1>4, <1>5, <1>6, <1>7, <1>a

LEMMA ResolveGateWrites ==
    ASSUME NEW d \in Tables, NEW g \in Gate
    PROVE  LET e == ResolveGate(d, g)
           IN  /\ e \in Tables /\ SameCtxs(d, e) /\ e.deps = d.deps /\ e.gtask = d.gtask
               /\ \A k \in Gate : e.gstat[k] = IF k = g THEN "resolved" ELSE d.gstat[k]
               /\ \A u \in Task :
                    e.tstat[u] = IF u = d.gtask[g] /\ HasTask(d, u) THEN "ready" ELSE d.tstat[u]
<1> DEFINE z == CloseGate(d, g, "resolved")
           e == SetTask(z, d.gtask[g], "ready")
<1>1. /\ z \in Tables /\ SameCtxs(d, z) /\ z.deps = d.deps /\ z.tstat = d.tstat
      /\ z.gtask = d.gtask /\ d.gtask[g] \in Task
      /\ \A k \in Gate : z.gstat[k] = IF k = g THEN "resolved" ELSE d.gstat[k]
  BY DEF CloseGate, Tables, SameCtxs, GateStatus
<1>a. e = ResolveGate(d, g)
  BY DEF ResolveGate
<1> HIDE DEF z
<1>2. /\ e \in Tables /\ SameCtxs(z, e) /\ SameGates(z, e) /\ e.deps = z.deps
      /\ \A u \in Task : e.tstat[u] = IF u = d.gtask[g] /\ HasTask(z, d.gtask[g])
                                      THEN "ready" ELSE z.tstat[u]
  BY <1>1, SetTaskWrites DEF TaskStatus
<1> HIDE DEF e
<1> QED BY <1>1, <1>2, <1>a DEF SameCtxs, SameGates, HasTask

LEMMA ResetTasksWrites ==
    ASSUME NEW d \in Tables
    PROVE  LET e == ResetTasks(d)
           IN  /\ e \in Tables /\ e.deps = d.deps /\ e.gtask = d.gtask
               /\ e.ctask = d.ctask /\ e.cwho = d.cwho /\ e.cfail = d.cfail
               /\ \A u \in Task :
                    e.tstat[u] = IF d.tstat[u] = "unused" THEN "unused" ELSE "deleted"
               /\ \A c \in Ctx :
                    e.cstat[c] = IF d.cstat[c] = "unused" THEN "unused" ELSE "deleted"
               /\ \A g \in Gate :
                    e.gstat[g] = IF d.gstat[g] = "unused" THEN "unused" ELSE "deleted"
<1> DEFINE g == DeleteGates(d)
           c == DeleteCtxs(g)
           e == DeleteTasks(c)
<1>1. /\ g \in Tables /\ g.tstat = d.tstat /\ SameCtxs(d, g) /\ g.deps = d.deps
      /\ g.gtask = d.gtask
      /\ \A k \in Gate : g.gstat[k] = IF d.gstat[k] = "unused" THEN "unused" ELSE "deleted"
  BY DEF DeleteGates, DeleteRows, Tables, NoRow, SameCtxs
<1>a. e = ResetTasks(d)
  BY DEF ResetTasks
<1> HIDE DEF g
<1>2. /\ c \in Tables /\ c.tstat = g.tstat /\ SameGates(g, c) /\ c.deps = g.deps
      /\ c.ctask = g.ctask /\ c.cwho = g.cwho /\ c.cfail = g.cfail
      /\ \A k \in Ctx : c.cstat[k] = IF g.cstat[k] = "unused" THEN "unused" ELSE "deleted"
  BY <1>1 DEF DeleteCtxs, DeleteRows, Tables, NoRow, SameGates
<1> HIDE DEF c
<1>3. /\ e \in Tables /\ SameCtxs(c, e) /\ SameGates(c, e) /\ e.deps = c.deps
      /\ \A u \in Task : e.tstat[u] = IF c.tstat[u] = "unused" THEN "unused" ELSE "deleted"
  BY <1>2 DEF DeleteTasks, DeleteRows, Tables, NoRow, SameCtxs, SameGates
<1> HIDE DEF e
<1> QED BY <1>1, <1>2, <1>3, <1>a DEF SameCtxs, SameGates

-----------------------------------------------------------------------------
(***************************************************************************)
(* The methods keep the tables good and the history of dispatches.         *)
(***************************************************************************)
Step(d, e) == Good(e) /\ Stands(d, e)

LEMMA SameCtxsStep ==
    ASSUME NEW d, Good(d), NEW e, Good(e), SameCtxs(d, e)
    PROVE  Step(d, e)
BY SameCtxsStands DEF Step, Good

LEMMA UpdateTaskStatusStep ==
    ASSUME NEW d, Good(d), NEW t \in Task, NEW s \in TaskStatus
    PROVE  Step(d, UpdateTaskStatus(d, t, s))
<1> DEFINE e == UpdateTaskStatus(d, t, s)
<1>1. CASE s = "completed"
  <2> DEFINE w == SetTask(d, t, "completed")
             p == Promote(w, Promotable(w, t))
  <2>1. Good(p) /\ SameCtxs(d, p)
    BY PromotableTasks, SetAndPromoteGood DEF TaskStatus
  <2>2. e = CompleteActiveDispatchForTask(p, t)
    BY <1>1 DEF UpdateTaskStatus
  <2> HIDE DEF p, e
  <2>3. Good(e) /\ Stands(p, e)
    BY <2>1, <2>2, CompleteActiveGood
  <2> QED BY <2>1, <2>3, SameThenStands DEF Step, e
<1>2. CASE s # "completed"
  <2>1. e = SetTask(d, t, s)
    BY <1>2 DEF UpdateTaskStatus
  <2> QED BY <2>1, SetTaskGood, SameCtxsStep
<1> QED BY <1>1, <1>2

LEMMA CreateDispatchContextStep ==
    ASSUME NEW d, Good(d), NEW t \in Task, NEW h \in Handle, NEW x \in UnusedCtx(d),
           CanDispatch(d, t, h)
    PROVE  Step(d, CreateDispatchContext(d, t, h, x))
<1> DEFINE i == InsertCtx(d, t, h, x)
           e == SetTask(i, t, "dispatched")
<1>1. Good(i) /\ Stands(d, i)
  BY InsertCtxGood
<1>2. Good(e) /\ SameCtxs(i, e)
  <2> HIDE DEF i
  <2> QED BY <1>1, SetTaskGood DEF TaskStatus
<1>3. Stands(d, e)
  <2> HIDE DEF i, e
  <2> QED BY <1>1, <1>2, StandsThenSame
<1> QED BY <1>2, <1>3 DEF CreateDispatchContext, Step

LEMMA FailDispatchStep ==
    ASSUME NEW d, Good(d), NEW x \in Ctx, HasCtx(d, x)
    PROVE  Step(d, FailDispatch(d, x))
<1> DEFINE f == FailCtx(d, x)
           s == IF d.cfail[x] + 1 >= 3 THEN "failed" ELSE "ready"
           e == SetTask(f, d.ctask[x], s)
<1>1. Good(f) /\ Stands(d, f)
  BY FailCtxGood
<1>2. d.ctask[x] \in Task /\ s \in TaskStatus
  BY DEF Good, Tables, TaskStatus
<1>3. Good(e) /\ SameCtxs(f, e)
  <2> HIDE DEF f, s
  <2> QED BY <1>1, <1>2, SetTaskGood
<1>4. Stands(d, e)
  <2> HIDE DEF f, e
  <2> QED BY <1>1, <1>3, StandsThenSame
<1> QED BY <1>3, <1>4 DEF FailDispatch, Step

LEMMA CreateGateStep ==
    ASSUME NEW d, Good(d), NEW t \in Task, NEW g \in Gate
    PROVE  Step(d, CreateGate(d, t, g))
<1> DEFINE i == InsertGate(d, t, g)
           a == CompleteActiveDispatchForTask(i, t)
           e == SetTask(a, t, "blocked")
<1>1. Good(i) /\ SameCtxs(d, i)
  BY InsertGateGood
<1> HIDE DEF i
<1>2. Good(a) /\ Stands(i, a)
  BY <1>1, CompleteActiveGood
<1> HIDE DEF a
<1>3. Stands(d, a)
  BY <1>1, <1>2, SameThenStands
<1>4. Good(e) /\ SameCtxs(a, e)
  BY <1>2, SetTaskGood DEF TaskStatus
<1> HIDE DEF e
<1>5. Stands(d, e)
  BY <1>3, <1>4, StandsThenSame
<1> QED BY <1>4, <1>5 DEF CreateGate, Step, e, a, i

LEMMA ResolveGateStep ==
    ASSUME NEW d, Good(d), NEW g \in Gate
    PROVE  Step(d, ResolveGate(d, g))
<1> DEFINE z == CloseGate(d, g, "resolved")
           e == SetTask(z, d.gtask[g], "ready")
<1>1. Good(z) /\ SameCtxs(d, z) /\ d.gtask[g] \in Task
  BY CloseGateGood DEF GateStatus, Good, Tables
<1> HIDE DEF z
<1>2. Good(e) /\ SameCtxs(z, e)
  BY <1>1, SetTaskGood DEF TaskStatus
<1> HIDE DEF e
<1>3. SameCtxs(d, e)
  BY <1>1, <1>2 DEF SameCtxs
<1>4. Step(d, e)
  BY <1>2, <1>3, SameCtxsStep
<1> QED BY <1>4 DEF ResolveGate, e, z

LEMMA ResetTasksStep ==
    ASSUME NEW d, Good(d)
    PROVE  Step(d, ResetTasks(d))
<1> DEFINE g == DeleteGates(d)
           c == DeleteCtxs(g)
           e == DeleteTasks(c)
<1>1. Good(g) /\ SameCtxs(d, g)
  BY DeleteGatesGood
<1> HIDE DEF g
<1>2. Good(c) /\ Stands(g, c) /\ \A x \in Ctx : ~HasCtx(c, x)
  BY <1>1, DeleteCtxsGood
<1> HIDE DEF c
<1>3. Stands(d, c)
  BY <1>1, <1>2, SameThenStands
<1>4. Good(e) /\ SameCtxs(c, e)
  BY <1>2, DeleteTasksGood
<1> HIDE DEF e
<1>5. Stands(d, e)
  BY <1>3, <1>4, StandsThenSame
<1> QED BY <1>4, <1>5 DEF ResetTasks, Step, e, c, g

\* The methods, each with the arguments some caller may give; S holds the statuses that
\* callers of updateTaskStatus write.
Creates(d, e) ==
    \E t \in TasksIn(d, "unused") : \E D \in SUBSET (Task \ TasksIn(d, "unused")) :
        e = CreateTask(d, t, D)

Writes(d, e, S) == \E t \in Task, s \in S \cap TaskStatus : e = UpdateTaskStatus(d, t, s)

Inserts(d, e) ==
    \E t \in Task, h \in Handle, c \in UnusedCtx(d) :
        /\ \A k \in UnusedCtx(d) : c <= k
        /\ CanDispatch(d, t, h)
        /\ e = CreateDispatchContext(d, t, h, c)

Fails(d, e) == \E c \in Ctx : HasCtx(d, c) /\ e = FailDispatch(d, c)

OpensGate(d, e) ==
    \E t \in Task \ TasksIn(d, "unused"), g \in UnusedGate(d) :
        /\ \A k \in UnusedGate(d) : g <= k
        /\ e = CreateGate(d, t, g)

Resolves(d, e) == \E g \in Gate : HasGate(d, g) /\ e = ResolveGate(d, g)

TimesOut(d, e) == \E g \in Gate : HasGate(d, g) /\ e = CloseGate(d, g, "timeout")

Updates(d, e, S) ==
    \/ Creates(d, e) \/ Writes(d, e, S) \/ Fails(d, e) \/ OpensGate(d, e)
    \/ Resolves(d, e) \/ TimesOut(d, e) \/ e = ResetTasks(d)

Method(d, e, S) == Inserts(d, e) \/ Updates(d, e, S)

LEMMA MethodStep ==
    ASSUME NEW d, Good(d), NEW S, NEW e, Method(d, e, S)
    PROVE  Step(d, e)
<1>1. CASE Creates(d, e)
  <2>1. PICK t \in Task, D \in SUBSET Task : e = CreateTask(d, t, D)
    BY <1>1 DEF Creates, TasksIn
  <2> QED BY <2>1, CreateTaskGood, SameCtxsStep
<1>2. CASE Writes(d, e, S)
  BY <1>2, UpdateTaskStatusStep DEF Writes
<1>3. CASE Inserts(d, e)
  BY <1>3, CreateDispatchContextStep DEF Inserts
<1>4. CASE Fails(d, e)
  BY <1>4, FailDispatchStep DEF Fails
<1>5. CASE OpensGate(d, e)
  BY <1>5, CreateGateStep DEF OpensGate, UnusedGate
<1>6. CASE Resolves(d, e)
  BY <1>6, ResolveGateStep DEF Resolves
<1>7. CASE TimesOut(d, e)
  BY <1>7, CloseGateGood, SameCtxsStep DEF TimesOut, GateStatus
<1>8. CASE e = ResetTasks(d)
  BY <1>8, ResetTasksStep
<1> QED BY <1>1, <1>2, <1>3, <1>4, <1>5, <1>6, <1>7, <1>8 DEF Method, Updates

-----------------------------------------------------------------------------
(***************************************************************************)
(* A task marked dispatched has an active latest dispatch row.  Rows are   *)
(* used in rowid order, so the row a dispatch inserts is the latest of its *)
(* task.                                                                   *)
(***************************************************************************)
InOrder(d) == \A c, k \in Ctx : d.cstat[c] = "unused" /\ c <= k => d.cstat[k] = "unused"

WorkedOn(d, u) ==
    d.tstat[u] = "dispatched" => \E c \in ActiveCtxOf(d, u) : IsLatestCtx(d, u, c)

Tracked(d) == d \in Tables /\ InOrder(d) /\ \A u \in Task : WorkedOn(d, u)

\* e has the rows of d, as far as task u and the order of rows can tell.
KeepsRowsOf(d, e, u) ==
    \A c \in Ctx :
        /\ HasCtx(e, c) /\ e.ctask[c] = u <=> HasCtx(d, c) /\ d.ctask[c] = u
        /\ HasCtx(d, c) /\ d.ctask[c] = u => e.cstat[c] = d.cstat[c]

LEMMA KeepsWorkedOn ==
    ASSUME NEW d, NEW e, NEW u \in Task, WorkedOn(d, u),
           e.tstat[u] = "dispatched" => d.tstat[u] = "dispatched" /\ KeepsRowsOf(d, e, u)
    PROVE  WorkedOn(e, u)
<1> SUFFICES ASSUME e.tstat[u] = "dispatched"
             PROVE  \E c \in ActiveCtxOf(e, u) : IsLatestCtx(e, u, c)
  BY DEF WorkedOn
<1>1. PICK c \in ActiveCtxOf(d, u) : IsLatestCtx(d, u, c)
  BY DEF WorkedOn
<1>2. CtxOf(e, u) = CtxOf(d, u)
  BY DEF KeepsRowsOf, CtxOf
<1>3. c \in ActiveCtxOf(e, u)
  BY <1>1, <1>2 DEF KeepsRowsOf, ActiveCtxOf, ActiveCtx, CtxOf
<1> QED BY <1>1, <1>2, <1>3 DEF IsLatestCtx

\* A method that leaves the dispatch rows alone and marks no task dispatched.
LEMMA SameCtxsTracked ==
    ASSUME NEW d, Tracked(d), NEW e \in Tables, SameCtxs(d, e),
           \A u \in Task : e.tstat[u] = "dispatched" => d.tstat[u] = "dispatched"
    PROVE  Tracked(e)
<1>1. InOrder(e)
  BY DEF Tracked, InOrder, SameCtxs
<1>2. \A u \in Task : KeepsRowsOf(d, e, u)
  BY DEF KeepsRowsOf, SameCtxs, HasCtx
<1>3. \A u \in Task : WorkedOn(e, u)
  BY <1>2, KeepsWorkedOn DEF Tracked
<1> QED BY <1>1, <1>3 DEF Tracked

\* What changes one row x of task t, and takes t out of `dispatched'.
LEMMA CloseRowTracked ==
    ASSUME NEW d, Tracked(d), NEW e \in Tables, NEW x \in Ctx,
           HasCtx(d, x), HasCtx(e, x),
           e.ctask = d.ctask,
           \A c \in Ctx \ {x} : e.cstat[c] = d.cstat[c],
           \A u \in Task : e.tstat[u] = "dispatched" =>
                              u # d.ctask[x] /\ d.tstat[u] = "dispatched"
    PROVE  Tracked(e)
<1>1. InOrder(e)
  <2>1. d.cstat[x] # "unused" /\ e.cstat[x] # "unused"
    BY DEF HasCtx, DispatchStatus
  <2> QED BY <2>1 DEF Tracked, InOrder
<1>2. \A u \in Task : u # d.ctask[x] => KeepsRowsOf(d, e, u)
  BY DEF KeepsRowsOf, HasCtx
<1>3. \A u \in Task : WorkedOn(e, u)
  BY <1>2, KeepsWorkedOn DEF Tracked
<1> QED BY <1>1, <1>3 DEF Tracked

LEMMA SetTaskTracked ==
    ASSUME NEW d, Tracked(d), NEW t \in Task, NEW s \in TaskStatus \ {"dispatched"}
    PROVE  Tracked(SetTask(d, t, s)) /\ SetTask(d, t, s).tstat[t] # "dispatched"
<1>1. SetTask(d, t, s).tstat[t] = IF HasTask(d, t) THEN s ELSE d.tstat[t]
  BY SetTaskWrites DEF Tracked
<1>2. SetTask(d, t, s).tstat[t] # "dispatched"
  BY <1>1 DEF HasTask, TaskStatus
<1>3. \A u \in Task : SetTask(d, t, s).tstat[u] = "dispatched" => d.tstat[u] = "dispatched"
  BY <1>2, SetTaskWrites DEF Tracked
<1> QED BY <1>2, <1>3, SetTaskWrites, SameCtxsTracked DEF Tracked

\* CompleteActiveDispatchForTask writes one row of t, or nothing.
LEMMA CompleteActiveRow ==
    ASSUME NEW d \in Tables, NEW t \in Task
    PROVE  LET e == CompleteActiveDispatchForTask(d, t)
           IN  \/ e = d
               \/ \E m \in Ctx :
                    /\ HasCtx(d, m) /\ d.ctask[m] = t /\ HasCtx(e, m)
                    /\ e \in Tables /\ e.tstat = d.tstat /\ e.ctask = d.ctask
                    /\ \A c \in Ctx \ {m} : e.cstat[c] = d.cstat[c]
<1> DEFINE e == CompleteActiveDispatchForTask(d, t)
           m == Max(ActiveCtxOf(d, t))
<1>1. CASE ActiveCtxOf(d, t) = {}
  BY <1>1 DEF CompleteActiveDispatchForTask
<1>2. CASE ActiveCtxOf(d, t) # {}
  <2>1. m \in Ctx /\ HasCtx(d, m) /\ d.ctask[m] = t
    <3>1. m \in ActiveCtxOf(d, t)
      BY <1>2, MaxActiveCtx
    <3> HIDE DEF m
    <3> QED BY <3>1 DEF ActiveCtxOf, CtxOf
  <2>2. e = [d EXCEPT !.cstat[m] = "completed"]
    BY <1>2 DEF CompleteActiveDispatchForTask
  <2> HIDE DEF e, m
  <2>3. /\ e \in Tables /\ e.tstat = d.tstat /\ e.ctask = d.ctask
        /\ e.cstat = [d.cstat EXCEPT ![m] = "completed"]
    BY <2>1, <2>2 DEF Tables, DispatchStatus
  <2>4. d.cstat \in [Ctx -> DispatchStatus \cup NoRow]
    BY DEF Tables
  <2>5. HasCtx(e, m) /\ \A c \in Ctx \ {m} : e.cstat[c] = d.cstat[c]
    BY <2>1, <2>3, <2>4 DEF HasCtx, DispatchStatus
  <2> QED BY <2>1, <2>3, <2>5 DEF e
<1> QED BY <1>1, <1>2

\* updateTaskStatus and createGate complete the active row of a task that they mark
\* not dispatched, the one before and the other after.
LEMMA CompleteActiveTracked ==
    ASSUME NEW d, Tracked(d), NEW t \in Task, d.tstat[t] # "dispatched"
    PROVE  Tracked(CompleteActiveDispatchForTask(d, t))
<1> DEFINE e == CompleteActiveDispatchForTask(d, t)
<1>1. d \in Tables
  BY DEF Tracked
<1>2. CASE e = d
  BY <1>2
<1>3. CASE \E m \in Ctx :
             /\ HasCtx(d, m) /\ d.ctask[m] = t /\ HasCtx(e, m)
             /\ e \in Tables /\ e.tstat = d.tstat /\ e.ctask = d.ctask
             /\ \A c \in Ctx \ {m} : e.cstat[c] = d.cstat[c]
  <2> HIDE DEF e
  <2>1. PICK m \in Ctx :
             /\ HasCtx(d, m) /\ d.ctask[m] = t /\ HasCtx(e, m)
             /\ e \in Tables /\ e.tstat = d.tstat /\ e.ctask = d.ctask
             /\ \A c \in Ctx \ {m} : e.cstat[c] = d.cstat[c]
    BY <1>3
  <2>2. \A u \in Task : e.tstat[u] = "dispatched" =>
                           u # d.ctask[m] /\ d.tstat[u] = "dispatched"
    BY <2>1
  <2>3. Tracked(e)
    BY <2>1, <2>2, CloseRowTracked
  <2> QED BY <2>3 DEF e
<1> QED BY <1>1, <1>2, <1>3, CompleteActiveRow

LEMMA BlockAfterCompleteTracked ==
    ASSUME NEW d, Tracked(d), NEW t \in Task
    PROVE  Tracked(SetTask(CompleteActiveDispatchForTask(d, t), t, "blocked"))
<1> DEFINE a == CompleteActiveDispatchForTask(d, t)
           e == SetTask(a, t, "blocked")
<1>1. d \in Tables
  BY DEF Tracked
<1>2. CASE a = d
  BY <1>2, SetTaskTracked DEF TaskStatus
<1>3. CASE \E m \in Ctx :
             /\ HasCtx(d, m) /\ d.ctask[m] = t /\ HasCtx(a, m)
             /\ a \in Tables /\ a.tstat = d.tstat /\ a.ctask = d.ctask
             /\ \A c \in Ctx \ {m} : a.cstat[c] = d.cstat[c]
  <2> HIDE DEF a
  <2>1. PICK m \in Ctx :
             /\ HasCtx(d, m) /\ d.ctask[m] = t /\ HasCtx(a, m)
             /\ a \in Tables /\ a.tstat = d.tstat /\ a.ctask = d.ctask
             /\ \A c \in Ctx \ {m} : a.cstat[c] = d.cstat[c]
    BY <1>3
  <2>2. /\ e \in Tables /\ SameCtxs(a, e)
        /\ \A u \in Task \ {t} : e.tstat[u] = a.tstat[u]
        /\ e.tstat[t] = IF HasTask(a, t) THEN "blocked" ELSE a.tstat[t]
    <3>1. "blocked" \in TaskStatus
      BY DEF TaskStatus
    <3>2. /\ e \in Tables /\ SameCtxs(a, e)
          /\ \A u \in Task : e.tstat[u] = IF u = t /\ HasTask(a, t) THEN "blocked" ELSE a.tstat[u]
      BY <2>1, <3>1, SetTaskWrites
    <3> HIDE DEF e
    <3> QED BY <3>2
  <2>3. e.tstat[t] # "dispatched"
    BY <2>2 DEF HasTask, TaskStatus
  <2> HIDE DEF e
  <2>4. \A u \in Task : e.tstat[u] = "dispatched" =>
                           u # d.ctask[m] /\ d.tstat[u] = "dispatched"
    BY <2>1, <2>2, <2>3
  <2>5. /\ e.ctask = d.ctask /\ HasCtx(e, m)
        /\ \A c \in Ctx \ {m} : e.cstat[c] = d.cstat[c]
    BY <2>1, <2>2 DEF SameCtxs, HasCtx
  <2>6. Tracked(e)
    BY <2>1, <2>2, <2>4, <2>5, CloseRowTracked
  <2> QED BY <2>6 DEF e, a
<1> QED BY <1>1, <1>2, <1>3, CompleteActiveRow

LEMMA FailDispatchTracked ==
    ASSUME NEW d, Tracked(d), NEW x \in Ctx, HasCtx(d, x)
    PROVE  Tracked(FailDispatch(d, x))
<1> DEFINE e == FailDispatch(d, x)
<1>1. d \in Tables /\ d.ctask[x] \in Task
  BY DEF Tracked, Tables
<1>2. /\ e \in Tables /\ e.ctask = d.ctask
      /\ \A c \in Ctx : e.cstat[c] = IF c # x THEN d.cstat[c]
                          ELSE IF d.cfail[x] + 1 >= 3 THEN "circuit_broken" ELSE "failed"
      /\ \A u \in Task : e.tstat[u] = IF u # d.ctask[x] \/ ~HasTask(d, u) THEN d.tstat[u]
                          ELSE IF d.cfail[x] + 1 >= 3 THEN "failed" ELSE "ready"
  BY <1>1, FailDispatchWrites
<1> HIDE DEF e
<1>3. HasCtx(e, x) /\ \A c \in Ctx \ {x} : e.cstat[c] = d.cstat[c]
  BY <1>2 DEF HasCtx, DispatchStatus
<1>4. \A u \in Task : e.tstat[u] = "dispatched" => u # d.ctask[x] /\ d.tstat[u] = "dispatched"
  BY <1>2 DEF HasTask, TaskStatus
<1> QED BY <1>2, <1>3, <1>4, CloseRowTracked DEF e

\* The row inserted is the latest of the task that becomes dispatched.
LEMMA CreateDispatchContextTracked ==
    ASSUME NEW d, Tracked(d), NEW t \in Task, NEW h \in Handle, NEW x \in UnusedCtx(d),
           \A k \in UnusedCtx(d) : x <= k, CanDispatch(d, t, h)
    PROVE  Tracked(CreateDispatchContext(d, t, h, x))
<1> DEFINE e == CreateDispatchContext(d, t, h, x)
<1>1. x \in Ctx /\ d.cstat[x] = "unused" /\ ~HasCtx(d, x)
  BY DEF UnusedCtx, HasCtx, DispatchStatus
<1>2. d \in Tables
  BY DEF Tracked
<1>3. /\ e \in Tables
      /\ \A c \in Ctx :
            /\ e.cstat[c] = IF c = x THEN "dispatched" ELSE d.cstat[c]
            /\ e.ctask[c] = IF c = x THEN t ELSE d.ctask[c]
      /\ \A u \in Task : e.tstat[u] = IF u = t THEN "dispatched" ELSE d.tstat[u]
  BY <1>1, <1>2, CreateDispatchContextWrites
<1> HIDE DEF e
<1>4. InOrder(e)
  <2> SUFFICES ASSUME NEW c \in Ctx, NEW k \in Ctx, e.cstat[c] = "unused", c <= k
               PROVE  e.cstat[k] = "unused"
    BY DEF InOrder
  <2>1. c # x /\ d.cstat[c] = "unused"
    BY <1>3
  <2>2. x <= c
    BY <2>1 DEF UnusedCtx
  <2>3. k # x
    BY <2>1, <2>2, <1>1, BoundAssumption DEF Ctx
  <2>4. d.cstat[k] = "unused"
    BY <2>1 DEF Tracked, InOrder
  <2> QED BY <1>3, <2>3, <2>4
<1>5. WorkedOn(e, t)
  <2>1. x \in ActiveCtxOf(e, t)
    BY <1>1, <1>3 DEF ActiveCtxOf, ActiveCtx, CtxOf, HasCtx, ActiveStatus, DispatchStatus
  <2>2. \A k \in CtxOf(e, t) : k <= x
    <3> SUFFICES ASSUME NEW k \in CtxOf(e, t), ~(k <= x) PROVE FALSE
      OBVIOUS
    <3>1. k \in Ctx /\ k # x /\ x <= k /\ HasCtx(e, k)
      BY <1>1, BoundAssumption DEF CtxOf, Ctx
    <3>2. d.cstat[k] = "unused"
      BY <1>1, <3>1 DEF Tracked, InOrder
    <3> QED BY <1>3, <3>1, <3>2 DEF HasCtx, DispatchStatus
  <2>3. IsLatestCtx(e, t, x)
    BY <2>1, <2>2 DEF IsLatestCtx, ActiveCtxOf
  <2> QED BY <2>1, <2>3 DEF WorkedOn
<1>6. \A u \in Task \ {t} : WorkedOn(e, u)
  <2> TAKE u \in Task \ {t}
  <2>1. KeepsRowsOf(d, e, u)
    BY <1>1, <1>3 DEF KeepsRowsOf, HasCtx
  <2>2. e.tstat[u] = d.tstat[u]
    BY <1>3
  <2> QED BY <2>1, <2>2, KeepsWorkedOn DEF Tracked
<1>7. Tracked(e)
  BY <1>3, <1>4, <1>5, <1>6 DEF Tracked
<1> QED BY <1>7 DEF e

LEMMA UpdateTaskStatusTracked ==
    ASSUME NEW d, Tracked(d), NEW t \in Task, NEW s \in TaskStatus \ {"dispatched"}
    PROVE  Tracked(UpdateTaskStatus(d, t, s))
<1> DEFINE w == SetTask(d, t, s)
           p == Promote(w, Promotable(w, t))
<1>1. Tracked(w) /\ w.tstat[t] # "dispatched"
  BY SetTaskTracked
<1>2. CASE s # "completed"
  BY <1>1, <1>2 DEF UpdateTaskStatus
<1>3. CASE s = "completed"
  <2> HIDE DEF w
  <2>1. Promotable(w, t) \in SUBSET Task
    BY PromotableTasks
  <2>2. /\ p \in Tables /\ SameCtxs(w, p)
        /\ \A u \in Task : p.tstat[u] = IF u \in Promotable(w, t) THEN "ready" ELSE w.tstat[u]
    BY <1>1 DEF Tracked, Promote, Tables, SameCtxs, TaskStatus
  <2> HIDE DEF p
  <2>3. \A u \in Task : p.tstat[u] = "dispatched" => w.tstat[u] = "dispatched"
    BY <2>2
  <2>4. Tracked(p) /\ p.tstat[t] # "dispatched"
    BY <1>1, <2>2, <2>3, SameCtxsTracked
  <2>5. Tracked(CompleteActiveDispatchForTask(p, t))
    BY <2>4, CompleteActiveTracked
  <2> QED BY <1>3, <2>5 DEF UpdateTaskStatus, p, w
<1> QED BY <1>2, <1>3

LEMMA CreateTaskTracked ==
    ASSUME NEW d, Tracked(d), NEW t \in Task, NEW D \in SUBSET Task
    PROVE  Tracked(CreateTask(d, t, D))
<1>1. CreateTask(d, t, D) \in Tables /\ SameCtxs(d, CreateTask(d, t, D))
  BY DEF Tracked, CreateTask, Tables, SameCtxs, TaskStatus
<1>2. \A u \in Task : CreateTask(d, t, D).tstat[u] = "dispatched" => d.tstat[u] = "dispatched"
  BY DEF Tracked, CreateTask, Tables
<1> QED BY <1>1, <1>2, SameCtxsTracked

LEMMA InsertGateTracked ==
    ASSUME NEW d, Tracked(d), NEW t \in Task, NEW g \in Gate
    PROVE  Tracked(InsertGate(d, t, g))
<1>1. /\ InsertGate(d, t, g) \in Tables /\ SameCtxs(d, InsertGate(d, t, g))
      /\ InsertGate(d, t, g).tstat = d.tstat
  BY DEF Tracked, InsertGate, Tables, SameCtxs, GateStatus
<1> QED BY <1>1, SameCtxsTracked

LEMMA CloseGateTracked ==
    ASSUME NEW d, Tracked(d), NEW g \in Gate, NEW s \in GateStatus
    PROVE  Tracked(CloseGate(d, g, s)) /\ CloseGate(d, g, s).gtask = d.gtask
<1>1. /\ CloseGate(d, g, s) \in Tables /\ SameCtxs(d, CloseGate(d, g, s))
      /\ CloseGate(d, g, s).tstat = d.tstat /\ CloseGate(d, g, s).gtask = d.gtask
  BY DEF Tracked, CloseGate, Tables, SameCtxs
<1> QED BY <1>1, SameCtxsTracked

LEMMA ResetTasksTracked ==
    ASSUME NEW d, Tracked(d)
    PROVE  Tracked(ResetTasks(d))
<1> DEFINE g == DeleteGates(d)
           c == DeleteCtxs(g)
           e == DeleteTasks(c)
<1>1. g \in Tables /\ g.tstat = d.tstat /\ g.cstat = d.cstat
  BY DEF Tracked, DeleteGates, DeleteRows, Tables, NoRow
<1> HIDE DEF g
<1>2. /\ c \in Tables /\ c.tstat = d.tstat
      /\ \A k \in Ctx : c.cstat[k] = IF d.cstat[k] = "unused" THEN "unused" ELSE "deleted"
  BY <1>1 DEF DeleteCtxs, DeleteRows, Tables, NoRow
<1> HIDE DEF c
<1>3. /\ e \in Tables /\ e.cstat = c.cstat
      /\ \A u \in Task : e.tstat[u] \in NoRow
  BY <1>2 DEF DeleteTasks, DeleteRows, Tables, NoRow
<1> HIDE DEF e
<1>4. InOrder(e)
  BY <1>2, <1>3 DEF Tracked, InOrder
<1>5. \A u \in Task : WorkedOn(e, u)
  BY <1>3 DEF WorkedOn, NoRow
<1>6. Tracked(e)
  BY <1>3, <1>4, <1>5 DEF Tracked
<1> QED BY <1>6 DEF ResetTasks, e, c, g

LEMMA MethodTracked ==
    ASSUME NEW d, Tracked(d), NEW S, "dispatched" \notin S, NEW e, Method(d, e, S)
    PROVE  Tracked(e)
<1>0. d \in Tables
  BY DEF Tracked
<1>1. CASE Creates(d, e)
  <2>1. PICK t \in Task, D \in SUBSET Task : e = CreateTask(d, t, D)
    BY <1>1 DEF Creates, TasksIn
  <2> QED BY <2>1, CreateTaskTracked
<1>2. CASE Writes(d, e, S)
  BY <1>2, UpdateTaskStatusTracked DEF Writes
<1>3. CASE Inserts(d, e)
  BY <1>3, CreateDispatchContextTracked DEF Inserts
<1>4. CASE Fails(d, e)
  BY <1>4, FailDispatchTracked DEF Fails
<1>5. CASE OpensGate(d, e)
  <2>1. PICK t \in Task, g \in Gate : e = CreateGate(d, t, g)
    BY <1>5 DEF OpensGate, UnusedGate
  <2>2. Tracked(InsertGate(d, t, g))
    BY InsertGateTracked
  <2> QED BY <2>1, <2>2, BlockAfterCompleteTracked DEF CreateGate
<1>6. CASE Resolves(d, e)
  <2>1. PICK g \in Gate : e = SetTask(CloseGate(d, g, "resolved"), d.gtask[g], "ready")
    BY <1>6 DEF Resolves, ResolveGate
  <2>2. Tracked(CloseGate(d, g, "resolved")) /\ d.gtask[g] \in Task
    BY <1>0, CloseGateTracked DEF Tables, GateStatus
  <2> QED BY <2>1, <2>2, SetTaskTracked DEF TaskStatus
<1>7. CASE TimesOut(d, e)
  BY <1>7, CloseGateTracked DEF TimesOut, GateStatus
<1>8. CASE e = ResetTasks(d)
  BY <1>8, ResetTasksTracked
<1> QED BY <1>1, <1>2, <1>3, <1>4, <1>5, <1>6, <1>7, <1>8 DEF Method, Updates

-----------------------------------------------------------------------------
(***************************************************************************)
(* The latest dispatch of a task, the active one, and the next free row.   *)
(***************************************************************************)
LEMMA LatestIsMax ==
    ASSUME NEW d, NEW t \in Task, CtxOf(d, t) # {}
    PROVE  IsLatestCtx(d, t, Max(CtxOf(d, t)))
<1>1. CtxOf(d, t) \in SUBSET Nat /\ \A c \in CtxOf(d, t) : c <= MaxCtx
  BY BoundAssumption DEF CtxOf, Ctx
<1> QED BY <1>1, BoundAssumption, MaxOfBounded DEF IsLatestCtx

LEMMA LatestUnique ==
    ASSUME NEW d, NEW t \in Task, NEW c, NEW k, IsLatestCtx(d, t, c), IsLatestCtx(d, t, k)
    PROVE  c = k
<1>1. c \in Nat /\ k \in Nat /\ c <= k /\ k <= c
  BY BoundAssumption DEF IsLatestCtx, CtxOf, Ctx
<1> QED BY <1>1

\* An active latest row is the one that completeActiveDispatchForTask finds.
LEMMA LatestActiveIsMax ==
    ASSUME NEW d, NEW t \in Task, NEW x, IsLatestCtx(d, t, x), x \in ActiveCtx(d)
    PROVE  x \in ActiveCtxOf(d, t) /\ Max(ActiveCtxOf(d, t)) = x
<1>1. x \in ActiveCtxOf(d, t) /\ x \in Nat
  BY BoundAssumption DEF IsLatestCtx, ActiveCtxOf, CtxOf, Ctx
<1>2. ActiveCtxOf(d, t) \in SUBSET Nat /\ \A c \in ActiveCtxOf(d, t) : c <= x
  BY BoundAssumption DEF IsLatestCtx, ActiveCtxOf, CtxOf, Ctx
<1>3. Max(ActiveCtxOf(d, t)) \in ActiveCtxOf(d, t) /\ x <= Max(ActiveCtxOf(d, t))
  BY <1>1, <1>2, MaxOfBounded
<1> QED BY <1>1, <1>2, <1>3

\* The failures carried over are those of some row of the task, and of no row more.
LEMMA PriorFailuresGreatest ==
    ASSUME NEW d \in Tables, NEW t \in Task
    PROVE  /\ PriorFailures(d, t) \in Nat
           /\ PriorFailures(d, t) = 0 \/ \E c \in CtxOf(d, t) : PriorFailures(d, t) = d.cfail[c]
           /\ \A c \in CtxOf(d, t) : d.cfail[c] <= PriorFailures(d, t)
<1> DEFINE S == {0} \cup {d.cfail[c] : c \in CtxOf(d, t)}
<1>1. d.cfail \in [1..MaxCtx -> Nat]
  BY DEF Tables, Ctx
<1>2. PICK b \in Nat : \A c \in 1..MaxCtx : d.cfail[c] <= b
  BY <1>1, BoundAssumption, ValuesBounded
<1>3. S \in SUBSET Nat /\ S # {} /\ \A x \in S : x <= b
  <2>1. \A c \in CtxOf(d, t) : d.cfail[c] \in Nat /\ d.cfail[c] <= b
    BY <1>1, <1>2 DEF CtxOf, Ctx
  <2> QED BY <1>2, <2>1
<1>4. Max(S) \in S /\ \A x \in S : x <= Max(S)
  <2> HIDE DEF S
  <2> QED BY <1>2, <1>3, MaxOfBounded
<1>5. PriorFailures(d, t) = Max(S)
  BY DEF PriorFailures
<1> QED BY <1>3, <1>4, <1>5

LEMMA MinIsLeast ==
    ASSUME NEW S \in SUBSET Nat, S # {}
    PROVE  Min(S) \in S /\ \A y \in S : Min(S) <= y
BY LeastNat DEF Min

LEMMA NextRowFree ==
    ASSUME NEW d
    PROVE  /\ UnusedCtx(d) # {} => /\ Min(UnusedCtx(d)) \in UnusedCtx(d)
                                   /\ \A k \in UnusedCtx(d) : Min(UnusedCtx(d)) <= k
           /\ UnusedGate(d) # {} => /\ Min(UnusedGate(d)) \in UnusedGate(d)
                                    /\ \A k \in UnusedGate(d) : Min(UnusedGate(d)) <= k
<1>1. UnusedCtx(d) \in SUBSET Nat /\ UnusedGate(d) \in SUBSET Nat
  BY BoundAssumption DEF UnusedCtx, UnusedGate, Ctx, Gate
<1> QED BY <1>1, MinIsLeast

-----------------------------------------------------------------------------
(***************************************************************************)
(* What outlives every method: an id that was used stays used, and a       *)
(* dispatch row keeps its task and its terminal.                           *)
(***************************************************************************)
Known(d) == \A c \in Ctx : d.cstat[c] # "unused" => d.tstat[d.ctask[c]] # "unused"

Ages(d, e) ==
    /\ Known(e)
    /\ \A t \in Task : d.tstat[t] # "unused" => e.tstat[t] # "unused"
    /\ \A c \in Ctx : d.cstat[c] # "unused" =>
         e.cstat[c] # "unused" /\ e.ctask[c] = d.ctask[c] /\ e.cwho[c] = d.cwho[c]

\* A method that inserts no dispatch row, and unmakes no row.
LEMMA SameIdsAges ==
    ASSUME NEW d \in Tables, Known(d), NEW e, e.ctask = d.ctask, e.cwho = d.cwho,
           \A t \in Task : d.tstat[t] # "unused" => e.tstat[t] # "unused",
           \A c \in Ctx : e.cstat[c] = "unused" <=> d.cstat[c] = "unused"
    PROVE  Ages(d, e)
<1>1. d.ctask \in [Ctx -> Task]
  BY DEF Tables
<1> QED BY <1>1 DEF Known, Ages

LEMMA MethodAges ==
    ASSUME NEW d \in Tables, Known(d), NEW S, NEW e, Method(d, e, S)
    PROVE  Ages(d, e)
<1>0. /\ d.ctask \in [Ctx -> Task] /\ d.gtask \in [Gate -> Task]
      /\ "unused" \notin TaskStatus /\ "unused" \notin DispatchStatus
  BY DEF Tables, TaskStatus, DispatchStatus
<1>1. CASE Creates(d, e)
  <2>1. PICK t \in Task, D \in SUBSET Task : e = CreateTask(d, t, D)
    BY <1>1 DEF Creates, TasksIn
  <2> QED BY <1>0, <2>1, CreateTaskWrites DEF Known, Ages, SameCtxs
<1>2. CASE Writes(d, e, S)
  <2>1. PICK t \in Task, s \in TaskStatus : e = UpdateTaskStatus(d, t, s)
    BY <1>2 DEF Writes
  <2>2. /\ e.ctask = d.ctask /\ e.cwho = d.cwho
        /\ \A u \in Task : d.tstat[u] # "unused" => e.tstat[u] # "unused"
        /\ \A c \in Ctx : e.cstat[c] = "unused" <=> d.cstat[c] = "unused"
    <3>1. \A c \in ActiveCtxOf(d, t) : d.cstat[c] # "unused"
      BY DEF ActiveCtxOf, ActiveCtx, ActiveStatus
    <3>2. /\ e.ctask = d.ctask /\ e.cwho = d.cwho
          /\ \A u \in Task : d.tstat[u] # "unused" => e.tstat[u] # "unused"
      BY <1>0, <2>1, UpdateTaskStatusWrites
    <3>3. \A c \in Ctx :
            e.cstat[c] = d.cstat[c] \/ (e.cstat[c] = "completed" /\ c \in ActiveCtxOf(d, t))
      BY <2>1, UpdateTaskStatusWrites
    <3> QED BY <3>1, <3>2, <3>3
  <2> QED BY <2>2, SameIdsAges
<1>3. CASE Inserts(d, e)
  <2>1. PICK t \in Task, h \in Handle, x \in UnusedCtx(d) :
           CanDispatch(d, t, h) /\ e = CreateDispatchContext(d, t, h, x)
    BY <1>3 DEF Inserts
  <2>2. x \in Ctx /\ d.cstat[x] = "unused"
    BY DEF UnusedCtx
  <2>3. /\ \A c \in Ctx : /\ e.cstat[c] = IF c = x THEN "dispatched" ELSE d.cstat[c]
                          /\ e.ctask[c] = IF c = x THEN t ELSE d.ctask[c]
                          /\ e.cwho[c] = IF c = x THEN h ELSE d.cwho[c]
        /\ \A u \in Task : e.tstat[u] = IF u = t THEN "dispatched" ELSE d.tstat[u]
    BY <1>0, <2>1, <2>2, CreateDispatchContextWrites
  <2>4. \A u \in Task : d.tstat[u] # "unused" => e.tstat[u] # "unused"
    BY <2>3
  <2>5. Known(e)
    <3>1. \A c \in Ctx : d.ctask[c] \in Task
      BY <1>0 DEF Tables
    <3> QED BY <1>0, <2>3, <2>4, <3>1 DEF Known
  <2> QED BY <2>2, <2>3, <2>4, <2>5 DEF Ages
<1>4. CASE Fails(d, e)
  <2>1. PICK x \in Ctx : HasCtx(d, x) /\ e = FailDispatch(d, x)
    BY <1>4 DEF Fails
  <2>2. /\ e.ctask = d.ctask /\ e.cwho = d.cwho
        /\ \A u \in Task : d.tstat[u] # "unused" => e.tstat[u] # "unused"
        /\ \A c \in Ctx : e.cstat[c] = "unused" <=> d.cstat[c] = "unused"
    <3>1. /\ e.ctask = d.ctask /\ e.cwho = d.cwho
          /\ \A c \in Ctx : c # x => e.cstat[c] = d.cstat[c]
          /\ e.cstat[x] \in {"circuit_broken", "failed"}
          /\ \A u \in Task : e.tstat[u] \in {d.tstat[u], "failed", "ready"}
      BY <2>1, FailDispatchWrites
    <3> QED BY <1>0, <2>1, <3>1 DEF HasCtx
  <2> QED BY <2>2, SameIdsAges
<1>5. CASE OpensGate(d, e)
  <2>1. PICK t \in Task, g \in Gate : e = CreateGate(d, t, g)
    BY <1>5 DEF OpensGate, UnusedGate
  <2>2. /\ e.ctask = d.ctask /\ e.cwho = d.cwho
        /\ \A u \in Task : d.tstat[u] # "unused" => e.tstat[u] # "unused"
        /\ \A c \in Ctx : e.cstat[c] = "unused" <=> d.cstat[c] = "unused"
    <3>1. \A c \in ActiveCtxOf(d, t) : d.cstat[c] # "unused"
      BY DEF ActiveCtxOf, ActiveCtx, ActiveStatus
    <3>2. /\ e.ctask = d.ctask /\ e.cwho = d.cwho
          /\ \A u \in Task : d.tstat[u] # "unused" => e.tstat[u] # "unused"
      BY <1>0, <2>1, CreateGateWrites
    <3>3. \A c \in Ctx :
            e.cstat[c] = d.cstat[c] \/ (e.cstat[c] = "completed" /\ c \in ActiveCtxOf(d, t))
      BY <2>1, CreateGateWrites
    <3> QED BY <3>1, <3>2, <3>3
  <2> QED BY <2>2, SameIdsAges
<1>6. CASE Resolves(d, e)
  <2>1. PICK g \in Gate : e = ResolveGate(d, g)
    BY <1>6 DEF Resolves
  <2> QED BY <1>0, <2>1, ResolveGateWrites DEF Known, Ages, SameCtxs
<1>7. CASE TimesOut(d, e)
  <2>1. SameCtxs(d, e) /\ e.tstat = d.tstat
    BY <1>7 DEF TimesOut, CloseGate, Tables, SameCtxs
  <2> QED BY <2>1 DEF Known, Ages, SameCtxs
<1>8. CASE e = ResetTasks(d)
  BY <1>0, <1>8, ResetTasksWrites DEF Known, Ages
<1> QED BY <1>1, <1>2, <1>3, <1>4, <1>5, <1>6, <1>7, <1>8 DEF Method, Updates

\* createDispatchContext alone marks a task dispatched, and one task at a time.
LEMMA UpdatesDispatchNothing ==
    ASSUME NEW d \in Tables, NEW S, "dispatched" \notin S, NEW e, Updates(d, e, S)
    PROVE  TasksIn(e, "dispatched") \subseteq TasksIn(d, "dispatched")
<1>1. CASE Creates(d, e)
  <2>1. PICK t \in Task, D \in SUBSET Task : e = CreateTask(d, t, D)
    BY <1>1 DEF Creates, TasksIn
  <2> QED BY <2>1, CreateTaskWrites DEF TasksIn
<1>2. CASE Writes(d, e, S)
  <2>1. PICK t \in Task, s \in TaskStatus \ {"dispatched"} : e = UpdateTaskStatus(d, t, s)
    BY <1>2 DEF Writes
  <2> QED BY <2>1, UpdateTaskStatusWrites DEF TasksIn
<1>4. CASE Fails(d, e)
  <2>1. PICK x \in Ctx : e = FailDispatch(d, x)
    BY <1>4 DEF Fails
  <2> QED BY <2>1, FailDispatchWrites DEF TasksIn
<1>5. CASE OpensGate(d, e)
  <2>1. PICK t \in Task, g \in Gate : e = CreateGate(d, t, g)
    BY <1>5 DEF OpensGate, UnusedGate
  <2> QED BY <2>1, CreateGateWrites DEF TasksIn
<1>6. CASE Resolves(d, e)
  <2>1. PICK g \in Gate : e = ResolveGate(d, g)
    BY <1>6 DEF Resolves
  <2> QED BY <2>1, ResolveGateWrites DEF TasksIn
<1>7. CASE TimesOut(d, e)
  BY <1>7 DEF TimesOut, CloseGate, Tables, TasksIn
<1>8. CASE e = ResetTasks(d)
  BY <1>8, ResetTasksWrites DEF TasksIn
<1> QED BY <1>1, <1>2, <1>4, <1>5, <1>6, <1>7, <1>8 DEF Updates

LEMMA InsertDispatchesOne ==
    ASSUME NEW d \in Tables, NEW e, Inserts(d, e)
    PROVE  \E t \in Task : /\ d.tstat[t] = "ready"
                           /\ TasksIn(e, "dispatched") = TasksIn(d, "dispatched") \cup {t}
<1>1. PICK t \in Task, h \in Handle, x \in Ctx :
         CanDispatch(d, t, h) /\ e = CreateDispatchContext(d, t, h, x)
  BY DEF Inserts, UnusedCtx
<1>2. \A u \in Task : e.tstat[u] = IF u = t THEN "dispatched" ELSE d.tstat[u]
  BY <1>1, CreateDispatchContextWrites
<1>3. d.tstat[t] = "ready"
  BY <1>1 DEF CanDispatch
<1>4. TasksIn(e, "dispatched") = TasksIn(d, "dispatched") \cup {t}
  BY <1>2 DEF TasksIn
<1> QED BY <1>3, <1>4

-----------------------------------------------------------------------------
(***************************************************************************)
(* A blocked task has a pending gate, as long as gates do not time out:    *)
(* its resolution makes the task ready.                                    *)
(***************************************************************************)
Held(d) ==
    \A t \in Task : d.tstat[t] = "blocked" =>
        \E g \in Gate : d.gstat[g] = "pending" /\ d.gtask[g] = t

\* The methods that the coordinator and the RPC layer call: all of Method but timeoutGate.
Edits(d, e, S) ==
    \/ Creates(d, e) \/ Writes(d, e, S) \/ Fails(d, e) \/ Resolves(d, e)
    \/ e = ResetTasks(d)

InUse(d, e, S) == Inserts(d, e) \/ OpensGate(d, e) \/ Edits(d, e, S)

LEMMA SameGatesHeld ==
    ASSUME NEW d, Held(d), NEW e, SameGates(d, e),
           \A t \in Task : e.tstat[t] = "blocked" => d.tstat[t] = "blocked"
    PROVE  Held(e)
BY DEF Held, SameGates

LEMMA MethodHeld ==
    ASSUME NEW d \in Tables, Held(d), NEW S, "blocked" \notin S, NEW e, InUse(d, e, S)
    PROVE  Held(e)
<1>1. CASE Creates(d, e)
  <2>1. PICK t \in Task, D \in SUBSET Task : e = CreateTask(d, t, D)
    BY <1>1 DEF Creates, TasksIn
  <2>2. SameGates(d, e) /\ \A u \in Task : e.tstat[u] = "blocked" => d.tstat[u] = "blocked"
    BY <2>1, CreateTaskWrites
  <2> QED BY <2>2, SameGatesHeld
<1>2. CASE Writes(d, e, S)
  <2>1. PICK t \in Task, s \in TaskStatus \ {"blocked"} : e = UpdateTaskStatus(d, t, s)
    BY <1>2 DEF Writes
  <2>2. SameGates(d, e) /\ \A u \in Task : e.tstat[u] = "blocked" => d.tstat[u] = "blocked"
    BY <2>1, UpdateTaskStatusWrites
  <2> QED BY <2>2, SameGatesHeld
<1>3. CASE Inserts(d, e)
  <2>1. PICK t \in Task, h \in Handle, x \in Ctx :
           CanDispatch(d, t, h) /\ e = CreateDispatchContext(d, t, h, x)
    BY <1>3 DEF Inserts, UnusedCtx
  <2>2. SameGates(d, e) /\ \A u \in Task : e.tstat[u] = "blocked" => d.tstat[u] = "blocked"
    BY <2>1, CreateDispatchContextWrites
  <2> QED BY <2>2, SameGatesHeld
<1>4. CASE Fails(d, e)
  <2>1. PICK x \in Ctx : e = FailDispatch(d, x)
    BY <1>4 DEF Fails
  <2>2. SameGates(d, e) /\ \A u \in Task : e.tstat[u] = "blocked" => d.tstat[u] = "blocked"
    BY <2>1, FailDispatchWrites
  <2> QED BY <2>2, SameGatesHeld
<1>5. CASE OpensGate(d, e)
  <2>1. PICK t \in Task, g \in UnusedGate(d) : e = CreateGate(d, t, g)
    BY <1>5 DEF OpensGate
  <2>2. g \in Gate /\ d.gstat[g] = "unused"
    BY DEF UnusedGate
  <2>3. /\ \A k \in Gate : /\ e.gstat[k] = IF k = g THEN "pending" ELSE d.gstat[k]
                           /\ e.gtask[k] = IF k = g THEN t ELSE d.gtask[k]
        /\ \A u \in Task : u # t => e.tstat[u] = d.tstat[u]
    BY <2>1, <2>2, CreateGateWrites
  <2> SUFFICES ASSUME NEW u \in Task, e.tstat[u] = "blocked"
               PROVE  \E k \in Gate : e.gstat[k] = "pending" /\ e.gtask[k] = u
    BY DEF Held
  <2>4. CASE u = t
    BY <2>2, <2>3, <2>4
  <2>5. CASE u # t
    <3>1. PICK k \in Gate : d.gstat[k] = "pending" /\ d.gtask[k] = u
      BY <2>3, <2>5 DEF Held
    <3> QED BY <2>2, <2>3, <3>1
  <2> QED BY <2>4, <2>5
<1>6. CASE Resolves(d, e)
  <2>1. PICK g \in Gate : e = ResolveGate(d, g)
    BY <1>6 DEF Resolves
  <2>2. /\ e.gtask = d.gtask
        /\ \A k \in Gate : e.gstat[k] = IF k = g THEN "resolved" ELSE d.gstat[k]
        /\ \A u \in Task : e.tstat[u] = IF u = d.gtask[g] /\ HasTask(d, u)
                                        THEN "ready" ELSE d.tstat[u]
    BY <2>1, ResolveGateWrites
  <2> SUFFICES ASSUME NEW u \in Task, e.tstat[u] = "blocked"
               PROVE  \E k \in Gate : e.gstat[k] = "pending" /\ e.gtask[k] = u
    BY DEF Held
  <2>3. d.tstat[u] = "blocked" /\ u # d.gtask[g]
    BY <2>2 DEF HasTask, TaskStatus
  <2>4. PICK k \in Gate : d.gstat[k] = "pending" /\ d.gtask[k] = u
    BY <2>3 DEF Held
  <2> QED BY <2>2, <2>3, <2>4
<1>8. CASE e = ResetTasks(d)
  BY <1>8, ResetTasksWrites DEF Held
<1> QED BY <1>1, <1>2, <1>3, <1>4, <1>5, <1>6, <1>8 DEF InUse, Edits

\* createGate alone uses up a gate row, and one at a time.
LEMMA KeepsUnusedGates ==
    ASSUME NEW d \in Tables, NEW S, NEW e, Inserts(d, e) \/ Edits(d, e, S)
    PROVE  UnusedGate(e) = UnusedGate(d)
<1>1. CASE Creates(d, e)
  <2>1. PICK t \in Task, D \in SUBSET Task : e = CreateTask(d, t, D)
    BY <1>1 DEF Creates, TasksIn
  <2> QED BY <2>1, CreateTaskWrites DEF UnusedGate, SameGates
<1>2. CASE Writes(d, e, S)
  BY <1>2, UpdateTaskStatusWrites DEF Writes, UnusedGate, SameGates
<1>3. CASE Inserts(d, e)
  <2>1. PICK t \in Task, h \in Handle, x \in Ctx :
           CanDispatch(d, t, h) /\ e = CreateDispatchContext(d, t, h, x)
    BY <1>3 DEF Inserts, UnusedCtx
  <2> QED BY <2>1, CreateDispatchContextWrites DEF UnusedGate, SameGates
<1>4. CASE Fails(d, e)
  BY <1>4, FailDispatchWrites DEF Fails, UnusedGate, SameGates
<1>5. CASE Resolves(d, e)
  <2>1. PICK g \in Gate : HasGate(d, g) /\ e = ResolveGate(d, g)
    BY <1>5 DEF Resolves
  <2>2. d.gstat[g] # "unused"
    BY <2>1 DEF HasGate, GateStatus
  <2>3. \A k \in Gate : e.gstat[k] = IF k = g THEN "resolved" ELSE d.gstat[k]
    BY <2>1, ResolveGateWrites
  <2> QED BY <2>2, <2>3 DEF UnusedGate
<1>6. CASE e = ResetTasks(d)
  BY <1>6, ResetTasksWrites DEF UnusedGate
<1> QED BY <1>1, <1>2, <1>3, <1>4, <1>5, <1>6 DEF Edits

LEMMA OpensOneGate ==
    ASSUME NEW d \in Tables, NEW e, OpensGate(d, e)
    PROVE  \E g \in UnusedGate(d) : UnusedGate(e) = UnusedGate(d) \ {g}
<1>1. PICK t \in Task, g \in UnusedGate(d) : e = CreateGate(d, t, g)
  BY DEF OpensGate
<1>2. g \in Gate
  BY DEF UnusedGate
<1>3. \A k \in Gate : e.gstat[k] = IF k = g THEN "pending" ELSE d.gstat[k]
  BY <1>1, <1>2, CreateGateWrites
<1>4. UnusedGate(e) = UnusedGate(d) \ {g}
  BY <1>3 DEF UnusedGate
<1> QED BY <1>4

-----------------------------------------------------------------------------
(***************************************************************************)
(* A pending task waits for a dep that is not completed.                   *)
(***************************************************************************)
Waits(d) ==
    \A t \in Task : d.tstat[t] = "pending" => \E u \in d.deps[t] : d.tstat[u] # "completed"

\* Between d and e no task became pending, none became completed, and the DAG is the
\* same one.
NoProgress(d, e) ==
    /\ e.deps = d.deps
    /\ \A t \in Task :
          /\ e.tstat[t] = "pending" => d.tstat[t] = "pending"
          /\ e.tstat[t] = "completed" => d.tstat[t] = "completed"

LEMMA NoProgressWaits ==
    ASSUME NEW d \in Tables, Waits(d), NEW e, NoProgress(d, e)
    PROVE  Waits(e)
<1> SUFFICES ASSUME NEW t \in Task, e.tstat[t] = "pending"
             PROVE  \E u \in e.deps[t] : e.tstat[u] # "completed"
  BY DEF Waits
<1>1. PICK u \in d.deps[t] : d.tstat[u] # "completed"
  BY DEF NoProgress, Waits
<1>2. u \in Task
  BY DEF Tables
<1> QED BY <1>1, <1>2 DEF NoProgress

LEMMA SetTaskNoProgress ==
    ASSUME NEW d \in Tables, NEW t \in Task, NEW s \in TaskStatus \ {"pending", "completed"}
    PROVE  NoProgress(d, SetTask(d, t, s))
BY DEF SetTask, NoProgress, Tables

-----------------------------------------------------------------------------
(***************************************************************************)
(* The two methods that do make a task pending or completed.               *)
(***************************************************************************)

\* The promotion leaves pending only tasks with another dep to wait for.
LEMMA CompleteTaskWaits ==
    ASSUME NEW d \in Tables, Waits(d), NEW t \in Task
    PROVE  Waits(UpdateTaskStatus(d, t, "completed"))
<1> DEFINE w == SetTask(d, t, "completed")
           P == Promotable(w, t)
           e == Promote(w, P)
<1>1. /\ w \in Tables /\ w.deps = d.deps
      /\ \A u \in Task : w.tstat[u] = IF u = t /\ HasTask(d, t) THEN "completed" ELSE d.tstat[u]
  BY DEF SetTask, Tables, TaskStatus
<1> HIDE DEF w
<1>2. P \in SUBSET Task
  BY PromotableTasks
<1>3. /\ e \in Tables /\ e.deps = d.deps
      /\ \A u \in Task : e.tstat[u] = IF u \in P THEN "ready" ELSE w.tstat[u]
  <2> HIDE DEF P
  <2> QED BY <1>1, <1>2 DEF Promote, Tables, TaskStatus
<1> HIDE DEF e
<1>4. Waits(e)
  <2> SUFFICES ASSUME NEW v \in Task, e.tstat[v] = "pending"
               PROVE  \E u \in e.deps[v] : e.tstat[u] # "completed"
    BY DEF Waits
  <2>1. d.deps[v] \in SUBSET Task
    BY DEF Tables
  <2>2. v \notin P /\ w.tstat[v] = "pending" /\ d.tstat[v] = "pending"
    BY <1>1, <1>3
  <2>3. PICK u \in d.deps[v] : d.tstat[u] # "completed"
    BY <2>2 DEF Waits
  <2>4. CASE w.tstat[u] # "completed"
    BY <1>3, <2>1, <2>3, <2>4
  <2>5. CASE w.tstat[u] = "completed"
    <3>1. u = t
      BY <1>1, <2>1, <2>3, <2>5
    <3>2. PICK x \in d.deps[v] : w.tstat[x] # "completed"
      BY <1>1, <2>2, <2>3, <3>1 DEF Promotable, TasksIn
    <3> QED BY <1>3, <2>1, <3>2
  <2> QED BY <2>4, <2>5
<1>5. NoProgress(e, CompleteActiveDispatchForTask(e, t))
  BY <1>3 DEF NoProgress, Tables, CompleteActiveDispatchForTask
<1>6. Waits(CompleteActiveDispatchForTask(e, t))
  BY <1>3, <1>4, <1>5, NoProgressWaits
<1> QED BY <1>6 DEF UpdateTaskStatus, e, w

\* A new task with deps that are still open waits for them.
LEMMA CreateTaskWaits ==
    ASSUME NEW d \in Tables, Waits(d), NEW t \in TasksIn(d, "unused"),
           NEW D \in SUBSET Task, D \cap TasksIn(d, "completed") = {}
    PROVE  Waits(CreateTask(d, t, D))
<1> DEFINE e == CreateTask(d, t, D)
<1>1. /\ \A u \in Task : /\ e.tstat[u] = IF u = t THEN IF D = {} THEN "ready" ELSE "pending"
                                         ELSE d.tstat[u]
                         /\ e.deps[u] = IF u = t THEN D ELSE d.deps[u]
  BY DEF CreateTask, Tables, TasksIn
<1>2. t \in Task /\ d.deps \in [Task -> SUBSET Task]
  BY DEF Tables, TasksIn
<1> HIDE DEF e
<1> SUFFICES ASSUME NEW v \in Task, e.tstat[v] = "pending"
             PROVE  \E u \in e.deps[v] : e.tstat[u] # "completed"
  BY DEF Waits, e
<1>3. CASE v = t
  <2>1. PICK u \in D : TRUE
    BY <1>1, <1>3
  <2>2. d.tstat[u] # "completed"
    BY <2>1 DEF TasksIn
  <2> QED BY <1>1, <1>2, <1>3, <2>1, <2>2
<1>4. CASE v # t
  <2>1. PICK u \in d.deps[v] : d.tstat[u] # "completed"
    BY <1>1, <1>4 DEF Waits
  <2>2. u \in Task
    BY <1>2, <2>1
  <2> QED BY <1>1, <1>4, <2>1, <2>2
<1> QED BY <1>3, <1>4

-----------------------------------------------------------------------------
(***************************************************************************)
(* How the coordinator and its workers leave the tables, as long as nobody *)
(* else writes task statuses, opens gates or dispatches: the status of a   *)
(* task goes with the status of its latest dispatch row, every earlier row *)
(* has failed, and the failures add up.                                    *)
(***************************************************************************)
StatusPairs ==
    {<<"dispatched", "dispatched">>, <<"completed", "completed">>,
     <<"ready", "failed">>, <<"failed", "circuit_broken">>}

FailedCtxOf(d, t) == {c \in CtxOf(d, t) : d.cstat[c] \in {"failed", "circuit_broken"}}

OrderlyTask(d, t) ==
    /\ CtxOf(d, t) = {} => d.tstat[t] \in NoRow \cup {"pending", "ready"}
    /\ \A c \in CtxOf(d, t) : IsLatestCtx(d, t, c) \/ d.cstat[c] = "failed"
    /\ \A l \in CtxOf(d, t) : IsLatestCtx(d, t, l) =>
         /\ <<d.tstat[t], d.cstat[l]>> \in StatusPairs
         /\ \A c \in CtxOf(d, t) : d.cfail[c] <= d.cfail[l]
         /\ Cardinality(FailedCtxOf(d, t)) <= d.cfail[l]
         /\ Cardinality(FailedCtxOf(d, t)) <= 3
         /\ d.cstat[l] = "dispatched" => d.cfail[l] <= 2

DepsDone(d) ==
    \A t \in Task : d.tstat[t] \in TaskStatus \ {"pending"} =>
        \A u \in d.deps[t] : d.tstat[u] = "completed"

Orderly(d) == Good(d) /\ InOrder(d) /\ DepsDone(d) /\ \A t \in Task : OrderlyTask(d, t)

LEMMA LatestOrderly ==
    ASSUME NEW d, NEW t \in Task, OrderlyTask(d, t), CtxOf(d, t) # {}
    PROVE  \E l \in CtxOf(d, t) : IsLatestCtx(d, t, l) /\ <<d.tstat[t], d.cstat[l]>> \in StatusPairs
<1>1. IsLatestCtx(d, t, Max(CtxOf(d, t)))
  BY LatestIsMax
<1>2. Max(CtxOf(d, t)) \in CtxOf(d, t)
  BY <1>1 DEF IsLatestCtx
<1> QED BY <1>1, <1>2 DEF OrderlyTask

\* A task without a dispatch row, told by its status.
LEMMA NoRowsYet ==
    ASSUME NEW d, NEW t \in Task, OrderlyTask(d, t),
           d.tstat[t] \in NoRow \cup {"pending", "blocked"}
    PROVE  CtxOf(d, t) = {}
BY LatestOrderly DEF StatusPairs, NoRow

\* The active dispatches: one for each dispatched task, its latest.
LEMMA ActiveOrderly ==
    ASSUME NEW d \in Tables, \A t \in Task : OrderlyTask(d, t), NEW c \in ActiveCtx(d)
    PROVE  /\ d.ctask[c] \in Task
           /\ c \in CtxOf(d, d.ctask[c])
           /\ IsLatestCtx(d, d.ctask[c], c)
           /\ d.tstat[d.ctask[c]] = "dispatched"
           /\ d.cstat[c] = "dispatched"
<1>1. d.ctask[c] \in Task /\ c \in CtxOf(d, d.ctask[c])
  BY DEF Tables, ActiveCtx, CtxOf, HasCtx, ActiveStatus, DispatchStatus
<1>2. d.cstat[c] \in ActiveStatus
  BY DEF ActiveCtx
<1>3. IsLatestCtx(d, d.ctask[c], c)
  BY <1>1, <1>2 DEF OrderlyTask, ActiveStatus
<1>4. <<d.tstat[d.ctask[c]], d.cstat[c]>> \in StatusPairs
  BY <1>1, <1>3 DEF OrderlyTask
<1> QED BY <1>1, <1>2, <1>3, <1>4 DEF StatusPairs, ActiveStatus

\* A task whose rows and status a method leaves alone, or which it makes ready before
\* the first dispatch.
LEMMA SameRowsOrderly ==
    ASSUME NEW d, NEW e, NEW t \in Task, OrderlyTask(d, t),
           CtxOf(e, t) = CtxOf(d, t),
           \A c \in CtxOf(d, t) : e.cstat[c] = d.cstat[c] /\ e.cfail[c] = d.cfail[c],
           \/ e.tstat[t] = d.tstat[t]
           \/ d.tstat[t] \in {"unused", "pending"} /\ e.tstat[t] \in {"pending", "ready"}
    PROVE  OrderlyTask(e, t)
<1>1. CASE e.tstat[t] # d.tstat[t]
  <2>1. CtxOf(e, t) = {}
    BY <1>1, NoRowsYet DEF NoRow
  <2> QED BY <1>1, <2>1 DEF OrderlyTask
<1>2. CASE e.tstat[t] = d.tstat[t]
  <2>1. FailedCtxOf(e, t) = FailedCtxOf(d, t)
    BY DEF FailedCtxOf
  <2>2. \A c : IsLatestCtx(e, t, c) <=> IsLatestCtx(d, t, c)
    BY DEF IsLatestCtx
  <2> QED BY <1>2, <2>1, <2>2 DEF OrderlyTask
<1> QED BY <1>1, <1>2

LEMMA FailedCtxFinite ==
    ASSUME NEW d, NEW t
    PROVE  IsFiniteSet(FailedCtxOf(d, t)) /\ Cardinality(FailedCtxOf(d, t)) \in Nat
<1>1. IsFiniteSet(1..MaxCtx)
  BY FS_Interval, BoundAssumption
<1>2. FailedCtxOf(d, t) \in SUBSET (1..MaxCtx)
  BY DEF FailedCtxOf, CtxOf, Ctx
<1> QED BY <1>1, <1>2, FS_Subset, FS_CardinalityType

LEMMA CreateTaskOrderly ==
    ASSUME NEW d, Orderly(d), NEW t \in TasksIn(d, "unused"), NEW D \in SUBSET Task
    PROVE  Orderly(CreateTask(d, t, D))
<1> DEFINE e == CreateTask(d, t, D)
<1>1. d \in Tables /\ t \in Task /\ d.tstat[t] = "unused" /\ "unused" \notin TaskStatus
  BY DEF Orderly, Good, TasksIn, TaskStatus
<1>2. /\ Good(e) /\ SameCtxs(d, e)
      /\ \A u \in Task :
            /\ e.tstat[u] = IF u # t THEN d.tstat[u] ELSE IF D = {} THEN "ready" ELSE "pending"
            /\ e.deps[u] = IF u = t THEN D ELSE d.deps[u]
  BY <1>1, CreateTaskGood, CreateTaskWrites DEF Orderly
<1> HIDE DEF e
<1>3. InOrder(e)
  BY <1>2 DEF Orderly, InOrder, SameCtxs
<1>4. DepsDone(e)
  <2>1. \A u \in Task : d.deps[u] \in SUBSET Task
    BY <1>1 DEF Tables
  <2> SUFFICES ASSUME NEW u \in Task, e.tstat[u] \in TaskStatus \ {"pending"}, NEW v \in e.deps[u]
               PROVE  e.tstat[v] = "completed"
    BY DEF DepsDone
  <2>2. u # t
    BY <1>2
  <2>3. v \in Task /\ d.tstat[v] = "completed"
    BY <1>2, <2>1, <2>2 DEF Orderly, DepsDone
  <2> QED BY <1>1, <1>2, <2>3
<1>5. \A u \in Task : OrderlyTask(e, u)
  <2> TAKE u \in Task
  <2>1. /\ CtxOf(e, u) = CtxOf(d, u)
        /\ \A c \in CtxOf(d, u) : e.cstat[c] = d.cstat[c] /\ e.cfail[c] = d.cfail[c]
    BY <1>2 DEF SameCtxs, CtxOf, HasCtx
  <2> QED BY <1>1, <1>2, <2>1, SameRowsOrderly DEF Orderly
<1> QED BY <1>2, <1>3, <1>4, <1>5 DEF Orderly, e

LEMMA CompleteOrderly ==
    ASSUME NEW d, Orderly(d), NEW t \in TasksIn(d, "dispatched")
    PROVE  Orderly(UpdateTaskStatus(d, t, "completed"))
<1> DEFINE e == UpdateTaskStatus(d, t, "completed")
<1>1. /\ d \in Tables /\ t \in Task /\ d.tstat[t] = "dispatched" /\ HasTask(d, t)
      /\ d.ctask \in [Ctx -> Task]
  BY DEF Orderly, Good, TasksIn, HasTask, TaskStatus, Tables
<1>2. PICK l \in CtxOf(d, t) : IsLatestCtx(d, t, l) /\ d.cstat[l] = "dispatched"
  <2>1. OrderlyTask(d, t) /\ CtxOf(d, t) # {}
    BY <1>1 DEF Orderly, OrderlyTask, NoRow
  <2> QED BY <1>1, <2>1, LatestOrderly DEF StatusPairs
<1>3. l \in Ctx /\ d.ctask[l] = t /\ ActiveCtxOf(d, t) = {l} /\ Max(ActiveCtxOf(d, t)) = l
  <2>1. l \in ActiveCtx(d) /\ l \in Ctx /\ d.ctask[l] = t
    BY <1>2 DEF ActiveCtx, CtxOf, ActiveStatus
  <2>2. \A c \in ActiveCtxOf(d, t) : c = l
    <3> TAKE c \in ActiveCtxOf(d, t)
    <3>1. IsLatestCtx(d, t, c)
      BY <1>1, ActiveOrderly DEF Orderly, ActiveCtxOf, CtxOf
    <3> QED BY <1>1, <1>2, <3>1, LatestUnique
  <2> QED BY <1>1, <1>2, <2>1, <2>2, LatestActiveIsMax
<1>4. /\ e \in Tables /\ e.deps = d.deps /\ e.ctask = d.ctask /\ e.cfail = d.cfail
      /\ \A u \in Task : e.tstat[u] = IF u = t THEN "completed"
                                      ELSE IF u \in Freed(d, t) THEN "ready" ELSE d.tstat[u]
      /\ \A c \in Ctx : e.cstat[c] = IF c = l THEN "completed" ELSE d.cstat[c]
  <2>1. /\ e \in Tables /\ e.deps = d.deps /\ e.ctask = d.ctask /\ e.cfail = d.cfail
        /\ \A u \in Task : e.tstat[u] = IF u = t /\ HasTask(d, t) THEN "completed"
                                        ELSE IF u \in Freed(d, t) THEN "ready" ELSE d.tstat[u]
        /\ \A c \in Ctx : e.cstat[c] = IF c \in ActiveCtxOf(d, t) /\ c = Max(ActiveCtxOf(d, t))
                                       THEN "completed" ELSE d.cstat[c]
    <3>1. "completed" \in TaskStatus
      BY DEF TaskStatus
    <3> QED BY <1>1, <3>1, UpdateTaskStatusWrites
  <2> HIDE DEF e
  <2>2. \A c \in Ctx : c \in ActiveCtxOf(d, t) /\ c = Max(ActiveCtxOf(d, t)) <=> c = l
    BY <1>3
  <2> QED BY <1>1, <2>1, <2>2
<1>5. Good(e)
  BY <1>1, UpdateTaskStatusStep DEF Orderly, Step, TaskStatus
<1> HIDE DEF e
<1>6. InOrder(e)
  BY <1>2, <1>3, <1>4 DEF Orderly, InOrder
<1>7. DepsDone(e)
  <2>1. \A u \in Task : d.deps[u] \in SUBSET Task
    BY <1>1 DEF Tables
  <2>2. \A v \in Task : d.tstat[v] = "completed" => e.tstat[v] = "completed"
    BY <1>1, <1>4, FreedWait DEF TasksIn
  <2> SUFFICES ASSUME NEW u \in Task, e.tstat[u] \in TaskStatus \ {"pending"}, NEW v \in d.deps[u]
               PROVE  e.tstat[v] = "completed"
    BY <1>4 DEF DepsDone
  <2>3. CASE u \in Freed(d, t)
    <3>1. d.tstat[v] = "completed" \/ v = t
      BY <1>1, <2>3, FreedWait
    <3> QED BY <1>1, <1>4, <2>1, <2>2, <3>1
  <2>4. CASE u \notin Freed(d, t)
    <3>1. d.tstat[u] \in TaskStatus \ {"pending"}
      BY <1>1, <1>4, <2>4 DEF HasTask
    <3>2. d.tstat[v] = "completed"
      BY <3>1 DEF Orderly, DepsDone
    <3> QED BY <2>1, <2>2, <3>2
  <2> QED BY <2>3, <2>4
<1>8. \A u \in Task : CtxOf(e, u) = CtxOf(d, u)
  BY <1>2, <1>3, <1>4 DEF CtxOf, HasCtx, DispatchStatus
<1>9. \A u \in Task \ {t} : OrderlyTask(e, u)
  <2> TAKE u \in Task \ {t}
  <2>1. \A c \in CtxOf(d, u) : e.cstat[c] = d.cstat[c] /\ e.cfail[c] = d.cfail[c]
    BY <1>3, <1>4 DEF CtxOf
  <2>2. e.tstat[u] = d.tstat[u] \/ (d.tstat[u] = "pending" /\ e.tstat[u] = "ready")
    BY <1>1, <1>4, FreedWait DEF TasksIn
  <2> QED BY <1>8, <2>1, <2>2, SameRowsOrderly DEF Orderly
<1>10. OrderlyTask(e, t)
  <2>1. OrderlyTask(d, t)
    BY DEF Orderly, TasksIn
  <2>2. \A c : IsLatestCtx(e, t, c) <=> IsLatestCtx(d, t, c)
    BY <1>1, <1>8 DEF IsLatestCtx
  <2>3. \A c \in CtxOf(d, t) : IsLatestCtx(d, t, c) => c = l
    BY <1>1, <1>2, LatestUnique
  <2>4. FailedCtxOf(e, t) = FailedCtxOf(d, t)
    BY <1>1, <1>2, <1>4, <1>8 DEF FailedCtxOf, CtxOf
  <2>5. e.tstat[t] = "completed" /\ e.cstat[l] = "completed"
    BY <1>1, <1>3, <1>4
  <2>6. \A c \in CtxOf(d, t) : c # l => e.cstat[c] = d.cstat[c]
    BY <1>4 DEF CtxOf
  <2>7. \A c \in CtxOf(d, t) : e.cfail[c] = d.cfail[c]
    BY <1>4
  <2> QED BY <1>1, <1>2, <1>8, <2>1, <2>2, <2>3, <2>4, <2>5, <2>6, <2>7 DEF OrderlyTask, StatusPairs
<1> QED BY <1>5, <1>6, <1>7, <1>9, <1>10 DEF Orderly, e

\* Only a task that has failed fewer than three times is ready.
LEMMA ReadyFailures ==
    ASSUME NEW d, Orderly(d), NEW t \in TasksIn(d, "ready"), NEW c \in CtxOf(d, t)
    PROVE  d.cfail[c] <= 2
<1>1. PICK l \in CtxOf(d, t) : IsLatestCtx(d, t, l) /\ d.cstat[l] = "failed"
  BY LatestOrderly DEF Orderly, TasksIn, StatusPairs
<1>2. d.cfail[l] \in 1..2 /\ d.cfail[c] \in Nat
  BY <1>1 DEF Orderly, Good, Accounts, CtxOf, Tables
<1>3. d.cfail[c] <= d.cfail[l]
  BY <1>1 DEF Orderly, OrderlyTask, TasksIn
<1> QED BY <1>2, <1>3

LEMMA InsertOrderly ==
    ASSUME NEW d, Orderly(d), NEW e, Inserts(d, e)
    PROVE  Orderly(e)
<1>1. PICK t \in Task, h \in Handle, x \in UnusedCtx(d) :
         /\ \A k \in UnusedCtx(d) : x <= k
         /\ CanDispatch(d, t, h)
         /\ e = CreateDispatchContext(d, t, h, x)
  BY DEF Inserts
<1>2. /\ d \in Tables /\ x \in Ctx /\ d.cstat[x] = "unused" /\ d.tstat[t] = "ready"
      /\ d.ctask \in [Ctx -> Task] /\ d.cfail \in [Ctx -> Nat]
      /\ "unused" \notin DispatchStatus
  BY <1>1 DEF Orderly, Good, UnusedCtx, CanDispatch, Tables, DispatchStatus
<1>3. /\ e.deps = d.deps
      /\ \A c \in Ctx :
            /\ e.cstat[c] = IF c = x THEN "dispatched" ELSE d.cstat[c]
            /\ e.ctask[c] = IF c = x THEN t ELSE d.ctask[c]
            /\ e.cfail[c] = IF c = x THEN PriorFailures(d, t) ELSE d.cfail[c]
      /\ \A u \in Task : e.tstat[u] = IF u = t THEN "dispatched" ELSE d.tstat[u]
  BY <1>1, <1>2, CreateDispatchContextWrites
<1>4. Good(e)
  BY <1>1, CreateDispatchContextStep DEF Orderly, Step
<1>5. InOrder(e)
  <2> SUFFICES ASSUME NEW c \in Ctx, NEW k \in Ctx, e.cstat[c] = "unused", c <= k
               PROVE  e.cstat[k] = "unused"
    BY DEF InOrder
  <2>1. c # x /\ c \in UnusedCtx(d)
    BY <1>3 DEF UnusedCtx
  <2>2. k # x
    BY <1>1, <1>2, <2>1, BoundAssumption DEF Ctx
  <2> QED BY <1>3, <2>1, <2>2 DEF Orderly, InOrder, UnusedCtx
<1>6. DepsDone(e)
  <2>1. \A u \in Task : d.deps[u] \in SUBSET Task
    BY <1>2 DEF Tables
  <2> SUFFICES ASSUME NEW u \in Task, e.tstat[u] \in TaskStatus \ {"pending"}, NEW v \in d.deps[u]
               PROVE  e.tstat[v] = "completed"
    BY <1>3 DEF DepsDone
  <2>2. d.tstat[u] \in TaskStatus \ {"pending"}
    BY <1>2, <1>3 DEF TaskStatus
  <2>3. v \in Task /\ d.tstat[v] = "completed"
    BY <2>1, <2>2 DEF Orderly, DepsDone
  <2> QED BY <1>2, <1>3, <2>3
<1>7. \A u \in Task \ {t} : OrderlyTask(e, u)
  <2> TAKE u \in Task \ {t}
  <2>1. CtxOf(e, u) = CtxOf(d, u)
    BY <1>2, <1>3 DEF CtxOf, HasCtx
  <2>2. \A c \in CtxOf(d, u) : e.cstat[c] = d.cstat[c] /\ e.cfail[c] = d.cfail[c]
    BY <1>2, <1>3 DEF CtxOf, HasCtx
  <2> QED BY <1>3, <2>1, <2>2, SameRowsOrderly DEF Orderly
<1>8. OrderlyTask(e, t)
  <2> DEFINE n == PriorFailures(d, t)
  <2>1. OrderlyTask(d, t)
    BY DEF Orderly
  <2>2. CtxOf(e, t) = CtxOf(d, t) \cup {x} /\ x \notin CtxOf(d, t)
    BY <1>2, <1>3 DEF CtxOf, HasCtx, DispatchStatus
  <2>3. \A c \in CtxOf(d, t) : c < x /\ c \in Nat
    <3> TAKE c \in CtxOf(d, t)
    <3>1. c \in Ctx /\ d.cstat[c] # "unused"
      BY <1>2 DEF CtxOf, HasCtx
    <3>2. ~(x <= c)
      BY <1>2, <3>1 DEF Orderly, InOrder
    <3> QED BY <1>2, <3>1, <3>2, BoundAssumption DEF Ctx
  <2>4. \A c : IsLatestCtx(e, t, c) <=> c = x
    <3>1. x \in Nat
      BY <1>2, BoundAssumption DEF Ctx
    <3> QED BY <2>2, <2>3, <3>1 DEF IsLatestCtx
  <2>5. \A c \in CtxOf(d, t) : d.cstat[c] = "failed"
    <3>1. \A l \in CtxOf(d, t) : IsLatestCtx(d, t, l) => d.cstat[l] = "failed"
      BY <1>2, <2>1 DEF OrderlyTask, StatusPairs
    <3> QED BY <2>1, <3>1 DEF OrderlyTask
  <2>6. FailedCtxOf(e, t) = FailedCtxOf(d, t)
    BY <1>2, <1>3, <2>2 DEF FailedCtxOf, CtxOf
  <2>7. n \in Nat /\ n <= 2 /\ \A c \in CtxOf(d, t) : d.cfail[c] <= n
    <3>1. t \in TasksIn(d, "ready")
      BY <1>2 DEF TasksIn
    <3> QED BY <1>2, <3>1, PriorFailuresGreatest, ReadyFailures
  <2>8. Cardinality(FailedCtxOf(d, t)) <= n
    <3>1. CASE CtxOf(d, t) = {}
      <4>1. FailedCtxOf(d, t) = {}
        BY <3>1 DEF FailedCtxOf
      <4> QED BY <2>7, <4>1, FS_EmptySet
    <3>2. CASE CtxOf(d, t) # {}
      <4>1. PICK l \in CtxOf(d, t) : IsLatestCtx(d, t, l)
        BY <2>1, <3>2, LatestOrderly
      <4>2. Cardinality(FailedCtxOf(d, t)) <= d.cfail[l] /\ d.cfail[l] <= n
        BY <2>1, <2>7, <4>1 DEF OrderlyTask
      <4>3. Cardinality(FailedCtxOf(d, t)) \in Nat /\ d.cfail[l] \in Nat
        BY <1>2, FailedCtxFinite DEF CtxOf
      <4> QED BY <2>7, <4>2, <4>3
    <3> QED BY <3>1, <3>2
  <2>9. Cardinality(FailedCtxOf(d, t)) <= 3
    BY <2>7, <2>8, FailedCtxFinite
  <2>10. /\ e.tstat[t] = "dispatched" /\ e.cstat[x] = "dispatched" /\ e.cfail[x] = n
         /\ \A c \in CtxOf(d, t) : e.cstat[c] = "failed" /\ e.cfail[c] = d.cfail[c]
    BY <1>2, <1>3, <2>2, <2>5 DEF CtxOf
  <2> HIDE DEF n
  <2> QED BY <2>2, <2>4, <2>6, <2>7, <2>8, <2>9, <2>10 DEF OrderlyTask, StatusPairs
<1> QED BY <1>4, <1>5, <1>6, <1>7, <1>8 DEF Orderly

LEMMA FailOrderly ==
    ASSUME NEW d, Orderly(d), NEW t \in Task, d.tstat[t] # "completed",
           NEW x, IsLatestCtx(d, t, x)
    PROVE  Orderly(FailDispatch(d, x))
<1> DEFINE e == FailDispatch(d, x)
           broken == d.cfail[x] + 1 >= 3
<1>1. /\ d \in Tables /\ x \in Ctx /\ x \in CtxOf(d, t) /\ HasCtx(d, x) /\ d.ctask[x] = t
      /\ d.cfail \in [Ctx -> Nat]
  BY DEF Orderly, Good, IsLatestCtx, CtxOf, Tables
<1>2. HasTask(d, t)
  BY <1>1 DEF Orderly, Good, Refer
<1>3. /\ e.deps = d.deps /\ e.ctask = d.ctask
      /\ \A c \in Ctx :
            /\ e.cstat[c] = IF c # x THEN d.cstat[c]
                            ELSE IF broken THEN "circuit_broken" ELSE "failed"
            /\ e.cfail[c] = IF c # x THEN d.cfail[c] ELSE d.cfail[x] + 1
      /\ \A u \in Task : e.tstat[u] = IF u # t THEN d.tstat[u]
                                      ELSE IF broken THEN "failed" ELSE "ready"
  BY <1>1, <1>2, FailDispatchWrites
<1>4. Good(e)
  BY <1>1, FailDispatchStep DEF Orderly, Step
<1> HIDE DEF e
<1>5. InOrder(e)
  BY <1>1, <1>3 DEF Orderly, InOrder, HasCtx, DispatchStatus
<1>6. OrderlyTask(d, t) /\ <<d.tstat[t], d.cstat[x]>> \in StatusPairs
  BY <1>1 DEF Orderly, OrderlyTask
<1>7. DepsDone(e)
  <2>1. \A u \in Task : d.deps[u] \in SUBSET Task
    BY <1>1 DEF Tables
  <2>2. d.tstat[t] \in TaskStatus \ {"pending"}
    BY <1>2, <1>6 DEF StatusPairs, HasTask
  <2> SUFFICES ASSUME NEW u \in Task, e.tstat[u] \in TaskStatus \ {"pending"}, NEW v \in d.deps[u]
               PROVE  e.tstat[v] = "completed"
    BY <1>3 DEF DepsDone
  <2>3. v \in Task /\ d.tstat[v] = "completed"
    BY <1>3, <2>1, <2>2 DEF Orderly, DepsDone
  <2> QED BY <1>3, <2>3
<1>8. \A u \in Task : CtxOf(e, u) = CtxOf(d, u)
  BY <1>1, <1>3 DEF CtxOf, HasCtx, DispatchStatus
<1>9. \A u \in Task \ {t} : OrderlyTask(e, u)
  <2> TAKE u \in Task \ {t}
  <2>1. \A c \in CtxOf(d, u) : e.cstat[c] = d.cstat[c] /\ e.cfail[c] = d.cfail[c]
    BY <1>1, <1>3 DEF CtxOf
  <2> QED BY <1>3, <1>8, <2>1, SameRowsOrderly DEF Orderly
<1>10. OrderlyTask(e, t)
  <2> DEFINE F == FailedCtxOf(d, t)
  <2>1. \A c : IsLatestCtx(e, t, c) <=> c = x
    BY <1>8, LatestUnique DEF IsLatestCtx
  <2>2. \A c \in CtxOf(d, t) : c # x => e.cstat[c] = "failed"
    BY <1>1, <1>3, <1>6, LatestUnique DEF OrderlyTask, CtxOf
  <2>3. /\ <<e.tstat[t], e.cstat[x]>> \in StatusPairs /\ e.cstat[x] \in {"failed", "circuit_broken"}
    BY <1>1, <1>3 DEF StatusPairs
  <2>4. FailedCtxOf(e, t) = F \cup {x}
    BY <1>1, <1>3, <1>8, <2>3 DEF FailedCtxOf, CtxOf
  <2>5. /\ IsFiniteSet(F) /\ Cardinality(F) \in Nat
        /\ Cardinality(F) <= d.cfail[x] /\ Cardinality(F) <= 3
    BY <1>1, <1>6, FailedCtxFinite DEF OrderlyTask
  <2>6. Cardinality(FailedCtxOf(e, t)) = IF x \in F THEN Cardinality(F) ELSE Cardinality(F) + 1
    <3> HIDE DEF F
    <3> QED BY <2>4, <2>5, FS_AddElement
  <2>7. x \notin F => d.cfail[x] <= 2
    <3>1. SUFFICES ASSUME x \notin F PROVE d.cstat[x] = "dispatched"
      BY <1>1, <1>6 DEF OrderlyTask
    <3> QED BY <1>1, <1>6, <3>1 DEF StatusPairs, FailedCtxOf
  <2>8. d.cfail[x] \in Nat /\ e.cfail[x] = d.cfail[x] + 1
    BY <1>1, <1>3
  <2>9. Cardinality(FailedCtxOf(e, t)) <= e.cfail[x] /\ Cardinality(FailedCtxOf(e, t)) <= 3
    <3> HIDE DEF F
    <3> QED BY <2>5, <2>6, <2>7, <2>8
  <2>10. \A c \in CtxOf(d, t) : e.cfail[c] <= e.cfail[x]
    <3> TAKE c \in CtxOf(d, t)
    <3>1. d.cfail[c] <= d.cfail[x] /\ d.cfail[c] \in Nat /\ c \in Ctx
      BY <1>1, <1>6 DEF OrderlyTask, CtxOf
    <3> QED BY <1>1, <1>3, <2>8, <3>1
  <2>11. e.cstat[x] # "dispatched"
    BY <2>3
  <2> QED BY <1>1, <1>8, <2>1, <2>2, <2>3, <2>9, <2>10, <2>11 DEF OrderlyTask
<1> QED BY <1>4, <1>5, <1>7, <1>9, <1>10 DEF Orderly, e

LEMMA EmptyOrderly == Orderly(EmptyTables)
<1>1. (CHOOSE t \in Task : TRUE) \in Task /\ (CHOOSE h \in Handle : TRUE) \in Handle
  BY RowAssumption
<1>2. EmptyTables \in Tables
  BY <1>1 DEF EmptyTables, Tables, NoRow
<1>3. /\ \A c \in Ctx : EmptyTables.cstat[c] = "unused"
      /\ \A t \in Task : EmptyTables.tstat[t] = "unused"
  BY DEF EmptyTables
<1>4. Good(EmptyTables)
  BY <1>2, <1>3 DEF Good, Lock, Refer, Accounts, ActiveCtx, ActiveStatus, HasCtx, DispatchStatus
<1>5. InOrder(EmptyTables) /\ DepsDone(EmptyTables)
  BY <1>3 DEF InOrder, DepsDone, TaskStatus
<1>6. \A t \in Task : CtxOf(EmptyTables, t) = {}
  BY <1>3 DEF CtxOf, HasCtx, DispatchStatus
<1>7. \A t \in Task : OrderlyTask(EmptyTables, t)
  BY <1>3, <1>6 DEF OrderlyTask, NoRow
<1> QED BY <1>4, <1>5, <1>7 DEF Orderly

=============================================================================
