-------------------------- MODULE AutomationsProofs --------------------------
(***************************************************************************)
(* Proofs about the automations scheduler, for every set of automations,   *)
(* schedules and horizon, and any number of edits and losses.              *)
(***************************************************************************)
EXTENDS Automations, WellFoundedInduction, TLAPS

-----------------------------------------------------------------------------
(***************************************************************************)
(* Occurrences: the next one after a time, the latest one by a time.       *)
(***************************************************************************)

\* A nonempty set of naturals has a least element.
LEMMA LeastNat ==
    ASSUME NEW S \in SUBSET Nat, S # {}
    PROVE  \E x \in S : \A y \in S : x <= y
<1> DEFINE R == OpToRel(<, Nat)
<1>1. IsWellFoundedOn(R, Nat)
  BY NatLessThanWellFounded
<1>2. \A x, y \in Nat : y < x => <<y, x>> \in R
  BY DEF OpToRel
<1> HIDE DEF R
<1>3. PICK x \in S : \A y \in S : ~(<<y, x>> \in R)
  BY <1>1, WFMin
<1>4. \A y \in S : x <= y
  <2> TAKE y \in S
  <2>1. ~(y < x)
    BY <1>2, <1>3
  <2> QED BY <2>1
<1> QED BY <1>4

\* A nonempty bounded set of naturals has a greatest element.
LEMMA GreatestNat ==
    ASSUME NEW S \in SUBSET Nat, S # {}, NEW n \in Nat, \A x \in S : x <= n
    PROVE  \E x \in S : \A y \in S : y <= x
<1> DEFINE T == {n - x : x \in S}
<1>1. T \in SUBSET Nat
  <2>1. \A x \in S : n - x \in Nat
    OBVIOUS
  <2> QED BY <2>1
<1>2. T # {}
  OBVIOUS
<1> HIDE DEF T
<1>3. PICK z \in T : \A w \in T : z <= w
  BY <1>1, <1>2, LeastNat
<1>4. PICK x \in S : z = n - x
  BY DEF T
<1>5. \A y \in S : y <= x
  <2> TAKE y \in S
  <2>1. n - y \in T
    BY DEF T
  <2> QED BY <1>3, <1>4, <2>1
<1> QED BY <1>5

\* The next occurrence lies after t and no occurrence lies between.
LEMMA NextAfterFact ==
    ASSUME NEW s \in SUBSET (1 .. Horizon), NEW t \in 0 .. Horizon
    PROVE  /\ NextAfter(s, t) \in s \cup {Never} /\ NextAfter(s, t) \in 1 .. Never
           /\ t < NextAfter(s, t)
           /\ \A o \in s : t < o => NextAfter(s, t) <= o
<1> DEFINE S == {o \in s : o > t} \cup {Never}
<1>1. Horizon \in Nat /\ Never \in Nat /\ Never = Horizon + 1
  BY ConstantsAssumption DEF Never
<1>2. S \in SUBSET Nat /\ S # {}
  <2>1. \A o \in s : o \in Nat
    BY <1>1
  <2> QED BY <1>1, <2>1
<1>3. \E x \in S : \A y \in S : x <= y
  BY <1>2, LeastNat
<1> HIDE DEF S
<1>4. Min(S) \in S /\ \A y \in S : Min(S) <= y
  BY <1>3 DEF Min
<1>5. NextAfter(s, t) = Min(S)
  BY DEF NextAfter, S
<1>6. Never \in S /\ \A x \in S : x = Never \/ (x \in s /\ t < x)
  BY DEF S
<1>7. Min(S) \in 1 .. Never /\ t < Min(S)
  <2>1. CASE Min(S) = Never
    BY <1>1, <2>1
  <2>2. CASE Min(S) \in s /\ t < Min(S)
    <3>1. Min(S) \in 1 .. Horizon
      BY <2>2
    <3> QED BY <1>1, <2>2, <3>1
  <2> QED BY <1>4, <1>6, <2>1, <2>2
<1>8. \A o \in s : t < o => o \in S
  BY DEF S
<1> QED BY <1>4, <1>5, <1>6, <1>7, <1>8

\* The latest occurrence is not after t, and every occurrence by t is not after it.
LEMMA LatestByFact ==
    ASSUME NEW s \in SUBSET (1 .. Horizon), NEW t \in 0 .. Horizon
    PROVE  /\ LatestBy(s, t) \in 0 .. Horizon /\ LatestBy(s, t) <= t
           /\ \A o \in s : o <= t => o <= LatestBy(s, t)
<1> DEFINE S == {o \in s : o <= t} \cup {0}
<1>1. Horizon \in Nat
  BY ConstantsAssumption
<1>2. S \in SUBSET Nat /\ S # {} /\ \A x \in S : x <= t
  <2>1. \A o \in s : o \in Nat
    BY <1>1
  <2>2. 0 <= t /\ 0 \in Nat
    BY <1>1
  <2>3. S \subseteq Nat
    BY <2>1, <2>2
  <2>4. 0 \in S
    OBVIOUS
  <2>5. \A x \in S : x <= t
    BY <2>2
  <2> HIDE DEF S
  <2> QED BY <2>3, <2>4, <2>5
<1> HIDE DEF S
<1>3. \E x \in S : \A y \in S : y <= x
  <2>1. t \in Nat
    BY <1>1
  <2> QED BY <1>2, <2>1, GreatestNat
<1>4. \E x \in S : \A y \in S : x >= y
  <2>1. \A x, y \in S : x \in Nat /\ y \in Nat
    BY <1>2
  <2> QED BY <1>3, <2>1
<1>5. Max(S) \in S /\ \A y \in S : Max(S) >= y
  BY <1>4 DEF Max
<1>6. LatestBy(s, t) = Max(S)
  BY DEF LatestBy, S
<1> QED BY <1>1, <1>2, <1>5, <1>6 DEF S

-----------------------------------------------------------------------------
(***************************************************************************)
(* Runs.                                                                   *)
(***************************************************************************)

\* What a run may turn into when its launches are not counted on: it keeps its automation
\* and its occurrence, a deleted run stays deleted, and nobody starts its precheck.
Continues(old, new) ==
    /\ new.auto = old.auto /\ new.occ = old.occ /\ new.launched = old.launched
    /\ old.st = "deleted" => new.st = "deleted"
    /\ new.at = "precheck" => old.at = "precheck"

\* A run that has just been made.
LEMMA NewRunFact ==
    ASSUME NEW a \in Automation, NEW o \in 0 .. Horizon
    PROVE  /\ NewRun(a, o) \in RunType
           /\ NewRun(a, o).auto = a /\ NewRun(a, o).occ = o /\ NewRun(a, o).st # "deleted"
           /\ NewRun(a, o).launched = 0 /\ NewRun(a, o).at = "none"
BY DEF NewRun, RunType

\* A dispatch keeps the run's name, revives no deleted run, counts at most one launch, and
\* none when it is a precheck that starts.
LEMMA DispatchedFact ==
    ASSUME NEW rec \in RunType, NEW ok \in BOOLEAN
    PROVE  LET new == Dispatched(rec, ok)
           IN  /\ new \in RunType
               /\ new.auto = rec.auto /\ new.occ = rec.occ
               /\ rec.st # "deleted" => new.st # "deleted"
               /\ new.launched \in {rec.launched, rec.launched + 1}
               /\ new.at = "precheck" => new.launched = rec.launched /\ rec.occ # Manual
<1> DEFINE Final == [rec EXCEPT !.st = "final", !.at = "none", !.lost = FALSE]
           Sent == [rec EXCEPT !.st = "dispatching", !.launched = @ + 1,
                               !.at = IF svc.win = "ready" THEN "sent" ELSE "none",
                               !.agent = "none", !.lost = svc.win # "ready"]
           Checked == [rec EXCEPT !.at = "precheck", !.lost = FALSE]
           Launched == [rec EXCEPT !.at = "launch", !.launched = @ + 1, !.agent = "none",
                                   !.lost = FALSE]
           Good(new) == /\ new \in RunType
                        /\ new.auto = rec.auto /\ new.occ = rec.occ
                        /\ rec.st # "deleted" => new.st # "deleted"
                        /\ new.launched \in {rec.launched, rec.launched + 1}
<1>0. rec.launched \in Nat /\ rec.launched + 1 \in Nat
  BY DEF RunType
<1> USE DEF RunType, Headless, InWindow
<1>1. Good(Final) /\ Final.at = "none"
  BY Zenon
<1>2. ASSUME NEW n \in {rec.launched, rec.launched + 1}, n \in Nat,
             NEW at \in {"sent", "none"}, NEW lost \in BOOLEAN
      PROVE  LET new == [rec EXCEPT !.st = "dispatching", !.launched = n, !.at = at,
                                    !.agent = "none", !.lost = lost]
             IN  Good(new) /\ new.at # "precheck"
  BY <1>2, Zenon
<1>3. Good(Checked) /\ Checked.launched = rec.launched
  BY Zenon
<1>4. ASSUME NEW n \in {rec.launched, rec.launched + 1}, n \in Nat
      PROVE  Good([rec EXCEPT !.at = "launch", !.launched = n, !.agent = "none", !.lost = FALSE])
             /\ [rec EXCEPT !.at = "launch", !.launched = n, !.agent = "none",
                            !.lost = FALSE].at # "precheck"
  BY <1>4, Zenon
<1>5. \/ Dispatched(rec, ok) \in {Final, Sent, Launched}
      \/ Dispatched(rec, ok) = Checked /\ rec.occ # Manual
  BY Zenon DEF Dispatched, HasPrecheck
<1> HIDE DEF Good
<1>6. Good(Sent) /\ Sent.at # "precheck"
  <2>1. (svc.win # "ready") \in BOOLEAN
        /\ (IF svc.win = "ready" THEN "sent" ELSE "none") \in {"sent", "none"}
    OBVIOUS
  <2> QED BY <1>0, <1>2, <2>1, Zenon
<1>7. Good(Launched) /\ Launched.at # "precheck"
  BY <1>0, <1>4, Zenon
<1> HIDE DEF Final, Sent, Checked, Launched
<1> QED BY <1>1, <1>3, <1>5, <1>6, <1>7 DEF Good

\* What the carriers do to a run continues it.
LEMMA ContinuesFact ==
    ASSUME NEW rec \in RunType
    PROVE  /\ Dropped(rec) \in RunType /\ Continues(rec, Dropped(rec))
           /\ Marked(rec, "final") \in RunType /\ Continues(rec, Marked(rec, "final"))
           /\ Dropped(Marked(rec, "final")) \in RunType
           /\ Continues(rec, Dropped(Marked(rec, "final")))
           /\ [Dropped(rec) EXCEPT !.lost = TRUE] \in RunType
           /\ Continues(rec, [Dropped(rec) EXCEPT !.lost = TRUE])
           /\ Dropped(rec).at = "none" /\ Dropped(Marked(rec, "final")).at = "none"
           /\ [Dropped(rec) EXCEPT !.lost = TRUE].at = "none"
<1> USE DEF RunType, Headless, InWindow
<1>1. Marked(rec, "final") \in RunType /\ Continues(rec, Marked(rec, "final"))
  BY DEF Marked, Continues
<1>2. ASSUME NEW r \in RunType
      PROVE  /\ Dropped(r) \in RunType /\ Continues(r, Dropped(r)) /\ Dropped(r).at = "none"
             /\ [Dropped(r) EXCEPT !.lost = TRUE] \in RunType
             /\ Continues(r, [Dropped(r) EXCEPT !.lost = TRUE])
             /\ [Dropped(r) EXCEPT !.lost = TRUE].at = "none"
  BY DEF Dropped, Continues
<1>3. \A r, q, p : Continues(r, q) /\ Continues(q, p) => Continues(r, p)
  BY DEF Continues
<1> QED BY <1>1, <1>2, <1>3

-----------------------------------------------------------------------------
(***************************************************************************)
(* What each step writes: the types it keeps, and the fields that the      *)
(* invariants speak of.                                                    *)
(***************************************************************************)

\* The sweep stays where it is, or ends.
SweepStays ==
    svc'.at = svc.at /\ svc'.now = svc.now /\ svc'.todo = svc.todo /\ svc'.cur = svc.cur
SweepEnds == svc'.at = "idle" /\ svc'.todo = {} /\ svc'.cur = 0

\* The fields of the types.
LEMMA FieldTypes ==
    ASSUME TypeOK
    PROVE  /\ clock \in Nat /\ clock <= Horizon /\ Horizon \in Nat /\ Never = Horizon + 1
           /\ \A a \in Automation :
                 /\ auto[a] \in AutomationType /\ auto[a].sched \in SUBSET (1 .. Horizon)
                 /\ auto[a].next \in 1 .. Never /\ auto[a].since \in 0 .. Horizon
                 /\ auto[a].life \in {"new", "live", "gone"}
           /\ DOMAIN run = 1 .. Len(run) /\ Len(run) \in Nat
           /\ \A i \in DOMAIN run :
                 /\ run[i] \in RunType /\ run[i].auto \in Automation
                 /\ run[i].occ \in 0 .. Horizon /\ run[i].launched \in Nat
           /\ svc.at \in {"idle", "sync", "wait", "advance"} /\ svc.now \in 0 .. Horizon
           /\ svc.cur \in Nat /\ svc.cur <= Len(run)
           /\ \A d \in svc.todo : /\ d \in DueType /\ d.id \in Automation
                                  /\ d.sched \in SUBSET (1 .. Horizon)
<1>1. clock \in Nat /\ clock <= Horizon /\ Horizon \in Nat /\ Never = Horizon + 1
  BY ConstantsAssumption DEF TypeOK, Never
<1>2. \A a \in Automation :
         /\ auto[a] \in AutomationType /\ auto[a].sched \in SUBSET (1 .. Horizon)
         /\ auto[a].next \in 1 .. Never /\ auto[a].since \in 0 .. Horizon
         /\ auto[a].life \in {"new", "live", "gone"}
  BY DEF TypeOK, AutomationType
<1>3. DOMAIN run = 1 .. Len(run) /\ Len(run) \in Nat /\ \A i \in DOMAIN run : run[i] \in RunType
  BY DEF TypeOK
<1>4. \A i \in DOMAIN run : /\ run[i].auto \in Automation
                            /\ run[i].occ \in 0 .. Horizon /\ run[i].launched \in Nat
  BY <1>3 DEF RunType
<1>5. /\ svc.at \in {"idle", "sync", "wait", "advance"} /\ svc.now \in 0 .. Horizon
      /\ svc.cur \in Nat /\ svc.cur <= Len(run) /\ svc.todo \subseteq DueType
  BY DEF TypeOK, ServiceType
<1>6. \A d \in DueType : d.id \in Automation /\ d.sched \in SUBSET (1 .. Horizon)
  BY DEF DueType
<1> QED BY <1>1, <1>2, <1>3, <1>4, <1>5, <1>6

\* Updates of the service.
LEMMA ServiceMoves ==
    ASSUME NEW v \in ServiceType, NEW at \in {"idle", "sync", "wait", "advance"},
           NEW now \in 0 .. Horizon, NEW todo \in SUBSET DueType, NEW cur \in Nat,
           NEW timer \in BOOLEAN, NEW win \in {"none", "loading", "ready"}, NEW ready \in BOOLEAN
    PROVE  /\ [v EXCEPT !.at = at, !.todo = todo, !.cur = cur, !.now = now] \in ServiceType
           /\ [v EXCEPT !.at = at, !.now = now, !.todo = todo] \in ServiceType
           /\ [v EXCEPT !.todo = todo, !.cur = cur, !.at = at] \in ServiceType
           /\ [v EXCEPT !.at = at, !.cur = cur] \in ServiceType
           /\ [v EXCEPT !.at = at] \in ServiceType
           /\ [v EXCEPT !.win = win, !.ready = ready, !.timer = timer] \in ServiceType
           /\ [v EXCEPT !.timer = timer, !.win = win, !.ready = ready] \in ServiceType
           /\ [v EXCEPT !.win = win, !.ready = ready] \in ServiceType
           /\ [v EXCEPT !.win = win] \in ServiceType
BY Zenon DEF ServiceType

\* The sweep that ends.
LEMMA IdleFact ==
    ASSUME svc \in ServiceType
    PROVE  Idle \in ServiceType /\ Idle.at = "idle" /\ Idle.todo = {} /\ Idle.cur = 0
<1>1. 0 \in 0 .. Horizon /\ {} \in SUBSET DueType /\ 0 \in Nat
  BY ConstantsAssumption
<1>2. Idle \in ServiceType
  BY <1>1, Zenon DEF Idle, ServiceType
<1>3. Idle.at = "idle" /\ Idle.todo = {} /\ Idle.cur = 0
  BY Zenon DEF Idle, ServiceType
<1> QED BY <1>2, <1>3

\* A loss or an edit is counted.
LEMMA LeftTypes ==
    ASSUME TypeOK, Edit \/ Loss
    PROVE  left' \in [edits : 0 .. MaxEdits, losses : 0 .. MaxLosses]
BY ConstantsAssumption DEF TypeOK, Edit, Loss

\* Create, Toggle and Reschedule write one automation.
LEMMA EditFact ==
    ASSUME TypeOK, NEW a \in Automation, Create(a) \/ Toggle(a) \/ Reschedule(a)
    PROVE  /\ TypeOK' /\ UNCHANGED <<clock, run, svc>>
           /\ \A b \in Automation : b # a => auto'[b] = auto[b]
           /\ auto[a].life # "gone" /\ auto'[a].life = "live"
           /\ \/ /\ auto'[a].sched = auto[a].sched /\ auto'[a].next = auto[a].next
                 /\ auto'[a].since = auto[a].since /\ auto[a].life = "live"
              \/ /\ auto'[a].sched \in SUBSET (1 .. Horizon) /\ auto'[a].since = clock
                 /\ auto'[a].next = NextAfter(auto'[a].sched, clock)
<1>0. clock \in 0 .. Horizon /\ auto \in [Automation -> AutomationType]
  BY DEF TypeOK
<1>1. ASSUME NEW r \in AutomationType, auto' = [auto EXCEPT ![a] = r], UNCHANGED <<clock, run, svc>>,
             Edit
      PROVE  TypeOK' /\ auto'[a] = r /\ \A b \in Automation : b # a => auto'[b] = auto[b]
  <2>1. auto' \in [Automation -> AutomationType]
    BY <1>0, <1>1
  <2>2. left' \in [edits : 0 .. MaxEdits, losses : 0 .. MaxLosses]
    BY <1>1, LeftTypes
  <2> QED BY <1>0, <1>1, <2>1, <2>2 DEF TypeOK
<1>2. \A s \in Schedules : s \in SUBSET (1 .. Horizon) /\ NextAfter(s, clock) \in 1 .. Never
  BY <1>0, ConstantsAssumption, NextAfterFact
<1>3. CASE Create(a)
  <2>1. PICK s \in Schedules :
           auto' = [auto EXCEPT ![a] = [life |-> "live", enabled |-> TRUE, sched |-> s,
                                        next |-> NextAfter(s, clock), since |-> clock]]
    BY <1>3 DEF Create
  <2> DEFINE r == [life |-> "live", enabled |-> TRUE, sched |-> s,
                   next |-> NextAfter(s, clock), since |-> clock]
  <2>2. r \in AutomationType
    BY <1>0, <1>2 DEF AutomationType
  <2>3. r.life = "live" /\ r.sched = s /\ r.next = NextAfter(s, clock) /\ r.since = clock
    OBVIOUS
  <2>4. UNCHANGED <<clock, run, svc>> /\ Edit /\ auto[a].life = "new"
    BY <1>3 DEF Create
  <2> HIDE DEF r
  <2>5. auto' = [auto EXCEPT ![a] = r]
    BY <2>1 DEF r
  <2>6. TypeOK' /\ auto'[a] = r /\ \A b \in Automation : b # a => auto'[b] = auto[b]
    BY <1>1, <2>2, <2>4, <2>5
  <2> QED BY <1>2, <2>3, <2>4, <2>6
<1>4. CASE Toggle(a)
  <2>1. auto[a] \in AutomationType
    BY <1>0
  <2> DEFINE r == [auto[a] EXCEPT !.enabled = ~@]
  <2>2. r \in AutomationType /\ r.life = auto[a].life /\ r.sched = auto[a].sched
        /\ r.next = auto[a].next /\ r.since = auto[a].since
    BY <2>1, Zenon DEF AutomationType
  <2>3. auto' = [auto EXCEPT ![a] = r]
    BY <1>0, <1>4, Zenon DEF Toggle
  <2>4. UNCHANGED <<clock, run, svc>> /\ Edit /\ auto[a].life = "live"
    BY <1>4 DEF Toggle
  <2> HIDE DEF r
  <2>5. TypeOK' /\ auto'[a] = r /\ \A b \in Automation : b # a => auto'[b] = auto[b]
    BY <1>1, <2>2, <2>3, <2>4
  <2> QED BY <2>2, <2>4, <2>5
<1>5. CASE Reschedule(a)
  <2>1. PICK s \in Schedules :
           auto' = [auto EXCEPT ![a].sched = s, ![a].next = NextAfter(s, clock),
                                ![a].since = clock]
    BY <1>5 DEF Reschedule
  <2>2. auto[a] \in AutomationType
    BY <1>0
  <2> DEFINE r == [auto[a] EXCEPT !.sched = s, !.next = NextAfter(s, clock), !.since = clock]
  <2>3. ASSUME NEW n \in 1 .. Never
        PROVE  /\ [auto[a] EXCEPT !.sched = s, !.next = n, !.since = clock] \in AutomationType
               /\ [auto[a] EXCEPT !.sched = s, !.next = n, !.since = clock].life = auto[a].life
               /\ [auto[a] EXCEPT !.sched = s, !.next = n, !.since = clock].sched = s
               /\ [auto[a] EXCEPT !.sched = s, !.next = n, !.since = clock].next = n
               /\ [auto[a] EXCEPT !.sched = s, !.next = n, !.since = clock].since = clock
    BY <1>0, <1>2, <2>2, Zenon DEF AutomationType
  <2>4. r \in AutomationType /\ r.life = auto[a].life /\ r.sched = s
        /\ r.next = NextAfter(s, clock) /\ r.since = clock
    BY <1>2, <2>3
  <2>5. auto' = [auto EXCEPT ![a] = r]
    BY <1>0, <2>1, Zenon
  <2>6. UNCHANGED <<clock, run, svc>> /\ Edit /\ auto[a].life = "live"
    BY <1>5 DEF Reschedule
  <2> HIDE DEF r
  <2>7. TypeOK' /\ auto'[a] = r /\ \A b \in Automation : b # a => auto'[b] = auto[b]
    BY <1>1, <2>4, <2>5, <2>6
  <2> QED BY <1>2, <2>4, <2>6, <2>7
<1> QED BY <1>3, <1>4, <1>5

\* Delete ends an automation and marks its runs.
LEMMA DeleteFact ==
    ASSUME TypeOK, NEW a \in Automation, Delete(a)
    PROVE  /\ TypeOK' /\ UNCHANGED <<clock, svc>>
           /\ \A b \in Automation : b # a => auto'[b] = auto[b]
           /\ auto[a].life = "live" /\ auto'[a].life = "gone"
           /\ auto'[a].sched = auto[a].sched /\ auto'[a].next = auto[a].next
           /\ auto'[a].since = auto[a].since
           /\ DOMAIN run' = DOMAIN run
           /\ \A i \in DOMAIN run : Continues(run[i], run'[i])
           /\ \A i \in DOMAIN run : run[i].auto = a => run'[i].st = "deleted"
<1>1. run \in Seq(RunType) /\ auto[a] \in AutomationType /\ auto \in [Automation -> AutomationType]
  BY DEF TypeOK
<1> DEFINE r == [auto[a] EXCEPT !.life = "gone"]
<1>2. r \in AutomationType /\ r.life = "gone" /\ r.sched = auto[a].sched
      /\ r.next = auto[a].next /\ r.since = auto[a].since
  BY <1>1, Zenon DEF AutomationType
<1>3. auto' = [auto EXCEPT ![a] = r]
  BY <1>1, Zenon DEF Delete
<1> HIDE DEF r
<1>4. auto' \in [Automation -> AutomationType] /\ auto'[a] = r
      /\ \A b \in Automation : b # a => auto'[b] = auto[b]
  BY <1>1, <1>2, <1>3
<1>5. \A x \in RunType : LET y == [x EXCEPT !.st = "deleted"]
                         IN  y \in RunType /\ Continues(x, y) /\ y.st = "deleted"
  BY Zenon DEF RunType, Continues
<1>6. \A x : Continues(x, x)
  BY DEF Continues
<1>7. run' = [i \in DOMAIN run |-> IF run[i].auto = a THEN [run[i] EXCEPT !.st = "deleted"]
                                                      ELSE run[i]]
  BY DEF Delete
<1>8. /\ DOMAIN run' = DOMAIN run
      /\ \A i \in DOMAIN run : run'[i] \in RunType /\ Continues(run[i], run'[i])
                               /\ (run[i].auto = a => run'[i].st = "deleted")
  <2>1. DOMAIN run' = DOMAIN run
    BY <1>7
  <2>2. ASSUME NEW i \in DOMAIN run
        PROVE  run'[i] \in RunType /\ Continues(run[i], run'[i])
               /\ (run[i].auto = a => run'[i].st = "deleted")
    <3>1. run[i] \in RunType
      BY FieldTypes
    <3>2. run'[i] = IF run[i].auto = a THEN [run[i] EXCEPT !.st = "deleted"] ELSE run[i]
      BY <1>7
    <3> QED BY <1>5, <1>6, <3>1, <3>2, Zenon
  <2> QED BY <2>1, <2>2
<1>9. run' \in Seq(RunType) /\ Len(run') = Len(run)
  BY <1>1, <1>7, <1>8
<1>10. UNCHANGED <<clock, svc>> /\ auto[a].life = "live" /\ Edit
  BY DEF Delete
<1>11. left' \in [edits : 0 .. MaxEdits, losses : 0 .. MaxLosses]
  BY <1>10, LeftTypes
<1>12. TypeOK'
  BY <1>4, <1>9, <1>10, <1>11 DEF TypeOK
<1> QED BY <1>2, <1>4, <1>8, <1>10, <1>12

\* RunNow appends a run of no occurrence, launched at most once.
LEMMA RunNowFact ==
    ASSUME TypeOK, NEW a \in Automation, RunNow(a)
    PROVE  /\ TypeOK' /\ UNCHANGED <<clock, auto, svc>>
           /\ auto[a].life = "live"
           /\ DOMAIN run' = 1 .. Len(run) + 1
           /\ \A i \in DOMAIN run : run'[i] = run[i]
           /\ LET new == run'[Len(run) + 1]
              IN  new.auto = a /\ new.occ = Manual /\ new.launched <= 1 /\ new.at # "precheck"
<1>1. PICK ok \in BOOLEAN : run' = Append(run, Dispatched(NewRun(a, Manual), ok))
  BY DEF RunNow
<1>2. Manual \in 0 .. Horizon
  BY ConstantsAssumption DEF Manual
<1>3. /\ NewRun(a, Manual) \in RunType
      /\ NewRun(a, Manual).auto = a /\ NewRun(a, Manual).occ = Manual
      /\ NewRun(a, Manual).launched = 0
  BY <1>2, NewRunFact
<1> DEFINE new == Dispatched(NewRun(a, Manual), ok)
<1>4. /\ new \in RunType /\ new.auto = a /\ new.occ = Manual
      /\ new.launched \in {0, 0 + 1} /\ new.at # "precheck"
  BY <1>3, DispatchedFact
<1> HIDE DEF new
<1>5. run \in Seq(RunType) /\ run' = Append(run, new)
  BY <1>1 DEF TypeOK, new
<1>6. /\ run' \in Seq(RunType) /\ Len(run') = Len(run) + 1 /\ DOMAIN run' = 1 .. Len(run) + 1
      /\ run'[Len(run) + 1] = new /\ \A i \in DOMAIN run : run'[i] = run[i]
  BY <1>4, <1>5
<1>7. UNCHANGED <<clock, auto, svc>> /\ auto[a].life = "live" /\ Edit
  BY DEF RunNow
<1>8. left' \in [edits : 0 .. MaxEdits, losses : 0 .. MaxLosses]
  BY <1>7, LeftTypes
<1>9. svc.cur <= Len(run) + 1
  BY FieldTypes
<1>10. TypeOK'
  BY <1>6, <1>7, <1>8, <1>9 DEF TypeOK
<1> QED BY <1>4, <1>6, <1>7, <1>10

\* A sweep starts with what is due.
LEMMA SweepFact ==
    ASSUME TypeOK, Sweep
    PROVE  /\ TypeOK' /\ UNCHANGED <<clock, auto, run>>
           /\ svc.at = "idle" /\ svc'.at = "sync" /\ svc'.now = clock
           /\ svc'.todo = DueList /\ svc'.cur = svc.cur
<1>1. svc \in ServiceType /\ clock \in 0 .. Horizon
  BY DEF TypeOK
<1>2. \A a \in Automation : auto[a].sched \in SUBSET (1 .. Horizon)
  BY FieldTypes
<1>3. DueList \in SUBSET DueType
  BY <1>2 DEF DueList, DueType
<1>4. svc' = [svc EXCEPT !.at = "sync", !.now = clock, !.todo = DueList]
  BY DEF Sweep
<1>5. svc' \in ServiceType
  BY <1>1, <1>3, <1>4, Zenon DEF ServiceType
<1>6. svc'.at = "sync" /\ svc'.now = clock /\ svc'.todo = DueList /\ svc'.cur = svc.cur
  BY <1>1, <1>4, Zenon DEF ServiceType
<1>7. UNCHANGED <<clock, auto, run, left>> /\ svc.at = "idle"
  BY DEF Sweep
<1> QED BY <1>5, <1>6, <1>7 DEF TypeOK

\* The automation whose run was made advances past the sweep's start, and the sweep goes on.
LEMMA AdvanceFact ==
    ASSUME TypeOK, svc.cur \in DOMAIN run, Advance
    PROVE  LET a == run[svc.cur].auto
           IN  /\ TypeOK' /\ UNCHANGED <<clock, run>> /\ svc.at = "advance"
               /\ \A b \in Automation : b # a => auto'[b] = auto[b]
               /\ auto'[a].life = auto[a].life /\ auto'[a].sched = auto[a].sched
               /\ auto'[a].since = auto[a].since
               /\ \/ auto[a].life = "gone" /\ auto'[a].next = auto[a].next
                  \/ auto'[a].next = NextAfter(auto[a].sched, svc.now)
               /\ \/ SweepEnds
                  \/ svc'.at = "sync" /\ svc'.cur = 0 /\ svc'.now = svc.now /\ svc'.todo = svc.todo
<1> DEFINE a == run[svc.cur].auto
<1>1. /\ a \in Automation /\ auto[a] \in AutomationType /\ auto \in [Automation -> AutomationType]
      /\ NextAfter(auto[a].sched, svc.now) \in 1 .. Never /\ svc \in ServiceType
  <2>1. a \in Automation
    BY FieldTypes
  <2>2. auto[a] \in AutomationType /\ auto[a].sched \in SUBSET (1 .. Horizon)
        /\ svc.now \in 0 .. Horizon
    BY <2>1, FieldTypes
  <2> QED BY <2>1, <2>2, NextAfterFact DEF TypeOK
<1>2. UNCHANGED <<clock, run, left>> /\ svc.at = "advance"
  BY DEF Advance
<1>3. Idle \in ServiceType /\ Idle.at = "idle" /\ Idle.todo = {} /\ Idle.cur = 0 /\ 0 <= Len(run)
  BY <1>1, IdleFact, FieldTypes
<1>4. \/ auto' = auto /\ svc' = Idle /\ auto[a].life = "gone"
      \/ /\ auto' = [auto EXCEPT ![a].next = NextAfter(auto[a].sched, svc.now)]
         /\ svc' = Idle \/ svc' = [svc EXCEPT !.at = "sync", !.cur = 0]
  BY DEF Advance
<1> HIDE DEF a
<1>5. CASE auto' = auto /\ svc' = Idle /\ auto[a].life = "gone"
  <2>1. TypeOK'
    BY <1>2, <1>3, <1>5 DEF TypeOK
  <2> QED BY <1>2, <1>3, <1>5, <2>1 DEF SweepEnds, a
<1>6. CASE /\ auto' = [auto EXCEPT ![a].next = NextAfter(auto[a].sched, svc.now)]
           /\ svc' = Idle \/ svc' = [svc EXCEPT !.at = "sync", !.cur = 0]
  <2>1. ASSUME NEW n \in 1 .. Never
        PROVE  LET r == [auto[a] EXCEPT !.next = n]
               IN  /\ r \in AutomationType /\ r.life = auto[a].life /\ r.sched = auto[a].sched
                   /\ r.since = auto[a].since /\ r.next = n
    BY <1>1, Zenon DEF AutomationType
  <2> DEFINE r == [auto[a] EXCEPT !.next = NextAfter(auto[a].sched, svc.now)]
  <2>2. /\ r \in AutomationType /\ r.life = auto[a].life /\ r.sched = auto[a].sched
        /\ r.since = auto[a].since /\ r.next = NextAfter(auto[a].sched, svc.now)
    BY <1>1, <2>1, Zenon
  <2>3. auto' = [auto EXCEPT ![a] = r]
    BY <1>1, <1>6, Zenon
  <2> HIDE DEF r
  <2>4. auto' \in [Automation -> AutomationType] /\ auto'[a] = r
        /\ \A b \in Automation : b # a => auto'[b] = auto[b]
    BY <1>1, <2>2, <2>3
  <2>5. ASSUME svc' = [svc EXCEPT !.at = "sync", !.cur = 0]
        PROVE  /\ svc' \in ServiceType
               /\ svc'.at = "sync" /\ svc'.cur = 0 /\ svc'.now = svc.now /\ svc'.todo = svc.todo
    <3>1. 0 \in Nat
      OBVIOUS
    <3> QED BY <1>1, <2>5, <3>1, Zenon DEF ServiceType
  <2>6. /\ svc' \in ServiceType /\ svc'.cur = 0
        /\ \/ SweepEnds
           \/ svc'.at = "sync" /\ svc'.cur = 0 /\ svc'.now = svc.now /\ svc'.todo = svc.todo
    BY <1>3, <1>6, <2>5 DEF SweepEnds
  <2>7. TypeOK'
    BY <1>2, <1>3, <2>4, <2>6 DEF TypeOK
  <2> QED BY <1>2, <2>2, <2>4, <2>6, <2>7 DEF a
<1> QED BY <1>4, <1>5, <1>6

\* One run is replaced by another.
LEMMA OneRun ==
    ASSUME TypeOK, NEW i \in DOMAIN run, NEW new \in RunType, run' = [run EXCEPT ![i] = new]
    PROVE  /\ run' \in Seq(RunType) /\ Len(run') = Len(run) /\ DOMAIN run' = DOMAIN run
           /\ run'[i] = new /\ \A j \in DOMAIN run : j # i => run'[j] = run[j]
BY DEF TypeOK

\* Where the awaited end of a run leaves the sweep.
ResumesFrom(i) ==
    \/ ~Awaited(i) /\ svc' = svc
    \/ Awaited(i) /\ run[i].st = "deleted" /\ SweepEnds
    \/ /\ Awaited(i) /\ run[i].st # "deleted"
       /\ svc'.at = "advance" /\ svc'.now = svc.now /\ svc'.todo = svc.todo /\ svc'.cur = svc.cur

LEMMA ResumedFact ==
    ASSUME TypeOK, NEW i \in DOMAIN run, svc' = Resumed(i)
    PROVE  svc' \in ServiceType /\ svc'.cur <= Len(run) /\ ResumesFrom(i)
<1>1. svc \in ServiceType /\ svc.cur <= Len(run) /\ 0 <= Len(run)
  BY FieldTypes DEF TypeOK
<1>2. Idle \in ServiceType /\ Idle.at = "idle" /\ Idle.todo = {} /\ Idle.cur = 0
  BY <1>1, IdleFact
<1>3. LET v == [svc EXCEPT !.at = "advance"]
      IN  v \in ServiceType /\ v.at = "advance" /\ v.now = svc.now /\ v.todo = svc.todo /\ v.cur = svc.cur
  BY <1>1, Zenon DEF ServiceType
<1>4. CASE ~Awaited(i) /\ svc' = svc
  BY <1>1, <1>4 DEF ResumesFrom
<1>5. CASE Awaited(i) /\ run[i].st = "deleted" /\ svc' = Idle
  BY <1>1, <1>2, <1>5 DEF ResumesFrom, SweepEnds
<1>6. CASE Awaited(i) /\ run[i].st # "deleted" /\ svc' = [svc EXCEPT !.at = "advance"]
  BY <1>1, <1>3, <1>6 DEF ResumesFrom
<1> QED BY <1>4, <1>5, <1>6 DEF Resumed

\* A step of a run's carrier: the run continues, or its precheck gives way to its launch;
\* the sweep resumes where it awaited the run.
LEMMA CarryFact ==
    ASSUME TypeOK, NEW i \in DOMAIN run, Carry(i)
    PROVE  /\ TypeOK' /\ UNCHANGED <<clock, auto>>
           /\ DOMAIN run' = DOMAIN run /\ \A j \in DOMAIN run : j # i => run'[j] = run[j]
           /\ \/ /\ Continues(run[i], run'[i])
                 /\ run'[i].at # "precheck" \/ svc' = svc
                 /\ svc' = svc \/ (run'[i].at # "precheck" /\ ResumesFrom(i))
              \/ /\ run[i].at = "precheck" /\ svc' = svc
                 /\ run'[i].auto = run[i].auto /\ run'[i].occ = run[i].occ
                 /\ run'[i].st = run[i].st /\ run'[i].at = "launch"
                 /\ run'[i].launched = run[i].launched + 1
<1>0. run[i] \in RunType /\ run[i].launched \in Nat /\ run \in Seq(RunType)
  BY FieldTypes DEF TypeOK
<1>1. ASSUME NEW new \in RunType, run' = [run EXCEPT ![i] = new], UNCHANGED <<clock, auto, left>>,
             svc' \in ServiceType, svc'.cur <= Len(run)
      PROVE  /\ TypeOK' /\ run'[i] = new
             /\ DOMAIN run' = DOMAIN run /\ \A j \in DOMAIN run : j # i => run'[j] = run[j]
  BY <1>1, OneRun DEF TypeOK
<1>2. svc \in ServiceType /\ svc.cur <= Len(run)
  BY DEF TypeOK
<1>3. ASSUME NEW new \in RunType, Continues(run[i], new), run' = [run EXCEPT ![i] = new],
             UNCHANGED <<clock, auto, left>>,
             svc' = svc \/ (svc' = Resumed(i) /\ new.at # "precheck")
      PROVE  /\ TypeOK' /\ UNCHANGED <<clock, auto>>
             /\ DOMAIN run' = DOMAIN run /\ \A j \in DOMAIN run : j # i => run'[j] = run[j]
             /\ Continues(run[i], run'[i])
             /\ run'[i].at # "precheck" \/ svc' = svc
             /\ svc' = svc \/ (run'[i].at # "precheck" /\ ResumesFrom(i))
  BY <1>1, <1>2, <1>3, ResumedFact
<1>4. /\ Dropped(Marked(run[i], "final")) \in RunType
      /\ Continues(run[i], Dropped(Marked(run[i], "final")))
      /\ Dropped(Marked(run[i], "final")).at = "none"
      /\ Dropped(run[i]) \in RunType /\ Continues(run[i], Dropped(run[i]))
  BY <1>0, ContinuesFact
<1>5. CASE PrecheckEnds(i)
  <2>1. UNCHANGED <<clock, auto, left>> /\ run[i].at = "precheck"
    BY <1>5 DEF PrecheckEnds
  <2>2. CASE run' = [run EXCEPT ![i] = Dropped(Marked(@, "final"))] /\ svc' = Resumed(i)
    BY <1>3, <1>4, <2>1, <2>2
  <2>3. CASE run' = [run EXCEPT ![i].at = "launch", ![i].launched = @ + 1] /\ svc' = svc
    <3>1. ASSUME NEW n \in Nat
          PROVE  LET new == [run[i] EXCEPT !.at = "launch", !.launched = n]
                 IN  /\ new \in RunType /\ new.auto = run[i].auto /\ new.occ = run[i].occ
                     /\ new.st = run[i].st /\ new.at = "launch" /\ new.launched = n
      BY <1>0, Zenon DEF RunType, Headless
    <3> DEFINE new == [run[i] EXCEPT !.at = "launch", !.launched = @ + 1]
    <3>2. /\ new \in RunType /\ new.auto = run[i].auto /\ new.occ = run[i].occ
          /\ new.st = run[i].st /\ new.at = "launch" /\ new.launched = run[i].launched + 1
      <4>1. run[i].launched + 1 \in Nat
        BY <1>0
      <4> QED BY <3>1, <4>1, Zenon
    <3>3. run' = [run EXCEPT ![i] = new]
      BY <1>0, <2>3, Zenon
    <3> HIDE DEF new
    <3> QED BY <1>1, <1>2, <2>1, <2>3, <3>2, <3>3
  <2> QED BY <1>5, <2>2, <2>3 DEF PrecheckEnds
<1>6. CASE LaunchEnds(i)
  <2>1. UNCHANGED <<clock, auto, left>> /\ run[i].at = "launch" /\ svc' = Resumed(i)
    BY <1>6 DEF LaunchEnds
  <2> DEFINE new == [run[i] EXCEPT !.st = "dispatched", !.at = "watch", !.agent = "running"]
  <2>2. run[i].st # "deleted" => new \in RunType /\ Continues(run[i], new)
    BY <1>0, Zenon DEF RunType, Continues, Headless
  <2>3. new.at = "watch"
    BY <1>0, Zenon DEF RunType
  <2>4. \/ run' = [run EXCEPT ![i] = Dropped(Marked(run[i], "final"))]
        \/ run[i].st # "deleted" /\ run' = [run EXCEPT ![i] = new]
    BY <1>6, Zenon DEF LaunchEnds
  <2> HIDE DEF new
  <2> QED BY <1>3, <1>4, <2>1, <2>2, <2>3, <2>4
<1>7. CASE HeadlessDone(i) \/ HookFails(i) \/ HookReports(i)
  <2>1. /\ UNCHANGED <<clock, auto, svc, left>>
        /\ run' = [run EXCEPT ![i] = Dropped(Marked(run[i], "final"))]
    BY <1>7 DEF HeadlessDone, HookFails, HookReports, Settle
  <2> QED BY <1>3, <1>4, <2>1
<1>8. CASE AgentEnds(i)
  <2> DEFINE new == [run[i] EXCEPT !.agent = "ended"]
  <2>1. new \in RunType /\ Continues(run[i], new)
    BY <1>0, Zenon DEF RunType, Continues
  <2>2. run' = [run EXCEPT ![i] = new] /\ UNCHANGED <<clock, auto, svc, left>>
    BY <1>0, <1>8, Zenon DEF AgentEnds
  <2> HIDE DEF new
  <2> QED BY <1>3, <2>1, <2>2
<1>9. CASE HookLaunches(i)
  <2> DEFINE new == [run[i] EXCEPT !.at = "started", !.agent = "running"]
  <2>1. new \in RunType /\ Continues(run[i], new)
    BY <1>0, Zenon DEF RunType, Continues, InWindow
  <2>2. run' = [run EXCEPT ![i] = new] /\ UNCHANGED <<clock, auto, svc, left>>
    BY <1>0, <1>9, Zenon DEF HookLaunches
  <2> HIDE DEF new
  <2> QED BY <1>3, <2>1, <2>2
<1>10. CASE HookMarks(i)
  <2> DEFINE new == [run[i] EXCEPT !.st = "dispatched", !.at = "marked"]
  <2>1. run[i].st # "deleted" => new \in RunType /\ Continues(run[i], new)
    BY <1>0, Zenon DEF RunType, Continues, InWindow
  <2>2. /\ UNCHANGED <<clock, auto, svc, left>>
        /\ \/ run' = [run EXCEPT ![i] = Dropped(run[i])]
           \/ run[i].st # "deleted" /\ run' = [run EXCEPT ![i] = new]
    BY <1>10, Zenon DEF HookMarks
  <2> HIDE DEF new
  <2> QED BY <1>3, <1>4, <2>1, <2>2
<1> QED BY <1>5, <1>6, <1>7, <1>8, <1>9, <1>10 DEF Carry

\* Windows come and go, and the clock ticks: runs continue and the sweep stays.
Surroundings == OpenWindow \/ RendererReady \/ Reload \/ CloseWindow \/ Tick

\* The runs of those who forgot them.
LEMMA ForgottenFact ==
    ASSUME TypeOK, NEW S
    PROVE  /\ Forgotten(S) \in Seq(RunType) /\ Len(Forgotten(S)) = Len(run)
           /\ DOMAIN Forgotten(S) = DOMAIN run
           /\ \A i \in DOMAIN run :
                 /\ Forgotten(S)[i] \in RunType /\ Continues(run[i], Forgotten(S)[i])
                 /\ run[i].at \in S => Forgotten(S)[i].at = "none"
                 /\ run[i].at \notin S => Forgotten(S)[i] = run[i]
<1>1. \A x : Continues(x, x)
  BY DEF Continues
<1>2. DOMAIN Forgotten(S) = DOMAIN run /\ DOMAIN run = 1 .. Len(run) /\ Len(run) \in Nat
  BY FieldTypes DEF Forgotten
<1>3. ASSUME NEW i \in DOMAIN run
      PROVE  /\ Forgotten(S)[i] \in RunType /\ Continues(run[i], Forgotten(S)[i])
             /\ run[i].at \in S => Forgotten(S)[i].at = "none"
             /\ run[i].at \notin S => Forgotten(S)[i] = run[i]
  <2>1. run[i] \in RunType
    BY FieldTypes
  <2>2. Forgotten(S)[i] = IF run[i].at \in S THEN [Dropped(run[i]) EXCEPT !.lost = TRUE]
                                             ELSE run[i]
    BY Zenon DEF Forgotten
  <2> QED BY <1>1, <2>1, <2>2, ContinuesFact, Zenon
<1>4. \A i \in 1 .. Len(run) : Forgotten(S)[i] \in RunType
  BY <1>2, <1>3
<1>5. Forgotten(S) = [i \in 1 .. Len(run) |-> Forgotten(S)[i]]
  BY <1>2, Zenon DEF Forgotten
<1>6. Forgotten(S) \in [1 .. Len(run) -> RunType]
  BY <1>4, <1>5, Zenon
<1>7. Forgotten(S) \in Seq(RunType) /\ Len(Forgotten(S)) = Len(run)
  BY <1>2, <1>6
<1> QED BY <1>2, <1>3, <1>7

LEMMA SurroundingsFact ==
    ASSUME TypeOK, Surroundings
    PROVE  /\ TypeOK' /\ UNCHANGED auto /\ SweepStays /\ clock <= clock'
           /\ DOMAIN run' = DOMAIN run /\ \A i \in DOMAIN run : Continues(run[i], run'[i])
<1>0. svc \in ServiceType /\ svc.cur <= Len(run) /\ \A x : Continues(x, x)
  BY DEF TypeOK, Continues
<1>1. clock \in Nat /\ clock <= Horizon /\ Horizon \in Nat
  BY FieldTypes
<1>2. CASE Tick
  <2>1. clock' \in 0 .. Horizon /\ clock <= clock' /\ UNCHANGED <<auto, run, svc, left>>
    BY <1>1, <1>2 DEF Tick
  <2> QED BY <1>0, <2>1 DEF TypeOK, SweepStays
<1>3. CASE OpenWindow
  <2>1. svc' \in ServiceType /\ SweepStays
    BY <1>0, <1>3, Zenon DEF OpenWindow, SweepStays, ServiceType
  <2>2. UNCHANGED <<clock, auto, run, left>>
    BY <1>3 DEF OpenWindow
  <2> QED BY <1>0, <1>1, <2>1, <2>2 DEF TypeOK, SweepStays
<1>4. CASE RendererReady
  <2>1. svc' \in ServiceType /\ SweepStays
    BY <1>0, <1>4, Zenon DEF RendererReady, SweepStays, ServiceType
  <2>2. UNCHANGED <<clock, auto, run, left>>
    BY <1>4 DEF RendererReady
  <2> QED BY <1>0, <1>1, <2>1, <2>2 DEF TypeOK, SweepStays
<1>5. CASE Reload \/ CloseWindow
  <2>1. svc' \in ServiceType /\ SweepStays
    <3>1. CASE svc' = [svc EXCEPT !.win = "loading"]
      BY <1>0, <3>1, Zenon DEF SweepStays, ServiceType
    <3>2. CASE svc' = [svc EXCEPT !.win = "none", !.ready = FALSE]
      BY <1>0, <3>2, Zenon DEF SweepStays, ServiceType
    <3> QED BY <1>5, <3>1, <3>2 DEF Reload, CloseWindow
  <2>2. UNCHANGED <<clock, auto>> /\ run' = Forgotten(InWindow) /\ Loss
    BY <1>5 DEF Reload, CloseWindow
  <2>3. left' \in [edits : 0 .. MaxEdits, losses : 0 .. MaxLosses]
    BY <2>2, LeftTypes
  <2>4. /\ run' \in Seq(RunType) /\ Len(run') = Len(run)
        /\ DOMAIN run' = DOMAIN run /\ \A i \in DOMAIN run : Continues(run[i], run'[i])
    BY <2>2, ForgottenFact
  <2> QED BY <1>0, <1>1, <2>1, <2>2, <2>3, <2>4 DEF TypeOK, SweepStays
<1> QED BY <1>2, <1>3, <1>4, <1>5 DEF Surroundings

\* A crash ends the sweep, drops every run and counts the launches of the run the sweep was
\* at afresh.
LEMMA CrashFact ==
    ASSUME TypeOK, Crash
    PROVE  /\ TypeOK' /\ UNCHANGED <<clock, auto>> /\ SweepEnds
           /\ DOMAIN run' = DOMAIN run
           /\ \A i \in DOMAIN run :
                 /\ run'[i].auto = run[i].auto /\ run'[i].occ = run[i].occ
                 /\ run[i].st = "deleted" => run'[i].st = "deleted"
                 /\ run'[i].at # "precheck"
                 /\ run'[i].launched = IF i = svc.cur THEN 0 ELSE run[i].launched
<1>1. svc' \in ServiceType /\ SweepEnds
  <2>1. svc \in ServiceType
    BY DEF TypeOK
  <2>2. Idle \in ServiceType /\ Idle.at = "idle" /\ Idle.todo = {} /\ Idle.cur = 0
    BY <2>1, IdleFact
  <2>3. svc' = [Idle EXCEPT !.timer = FALSE, !.win = "none", !.ready = FALSE]
    BY DEF Crash
  <2> HIDE DEF Idle
  <2>4. ASSUME NEW v \in ServiceType
        PROVE  LET w == [v EXCEPT !.timer = FALSE, !.win = "none", !.ready = FALSE]
               IN  w \in ServiceType /\ w.at = v.at /\ w.todo = v.todo /\ w.cur = v.cur
    BY Zenon DEF ServiceType
  <2>5. svc' \in ServiceType /\ svc'.at = Idle.at /\ svc'.todo = Idle.todo /\ svc'.cur = Idle.cur
    BY <2>2, <2>3, <2>4, Zenon
  <2> QED BY <2>2, <2>5 DEF SweepEnds
<1> DEFINE F == Forgotten(Headless \cup InWindow)
<1>2. DOMAIN F = DOMAIN run
      /\ \A i \in DOMAIN run : /\ F[i] \in RunType /\ Continues(run[i], F[i])
                               /\ F[i].at # "precheck"
  <2>1. \A i \in DOMAIN run : run[i].at \in Headless \cup InWindow \cup {"none"}
    BY FieldTypes DEF RunType
  <2>2. DOMAIN F = DOMAIN run
        /\ \A i \in DOMAIN run :
              /\ F[i] \in RunType /\ Continues(run[i], F[i])
              /\ run[i].at \in Headless \cup InWindow => F[i].at = "none"
              /\ run[i].at \notin Headless \cup InWindow => F[i] = run[i]
    BY ForgottenFact
  <2> QED BY <2>1, <2>2
<1>3. run' = [i \in DOMAIN run |->
                 [F[i] EXCEPT !.launched = IF i = svc.cur THEN 0 ELSE @]]
  BY DEF Crash
<1> HIDE DEF F
<1>4. ASSUME NEW r \in RunType, NEW n \in Nat
      PROVE  LET q == [r EXCEPT !.launched = n]
             IN  /\ q \in RunType /\ q.auto = r.auto /\ q.occ = r.occ /\ q.st = r.st
                 /\ q.at = r.at /\ q.launched = n
  BY Zenon DEF RunType
<1>5. ASSUME NEW i \in DOMAIN run
      PROVE  /\ run'[i] \in RunType
             /\ run'[i].auto = F[i].auto /\ run'[i].occ = F[i].occ /\ run'[i].st = F[i].st
             /\ run'[i].at = F[i].at
             /\ run'[i].launched = IF i = svc.cur THEN 0 ELSE F[i].launched
  <2> DEFINE n == IF i = svc.cur THEN 0 ELSE F[i].launched
  <2>1. F[i] \in RunType /\ n \in Nat
    <3>1. F[i] \in RunType
      BY <1>2
    <3>2. F[i].launched \in Nat
      BY <3>1 DEF RunType
    <3> QED BY <3>1, <3>2
  <2>2. run'[i] = [F[i] EXCEPT !.launched = n]
    BY <1>3, Zenon
  <2> HIDE DEF n
  <2>3. /\ run'[i] \in RunType /\ run'[i].auto = F[i].auto /\ run'[i].occ = F[i].occ
        /\ run'[i].st = F[i].st /\ run'[i].at = F[i].at /\ run'[i].launched = n
    <3>1. \A r \in RunType, k \in Nat :
             LET q == [r EXCEPT !.launched = k]
             IN  /\ q \in RunType /\ q.auto = r.auto /\ q.occ = r.occ /\ q.st = r.st
                 /\ q.at = r.at /\ q.launched = k
      BY <1>4, Zenon
    <3>2. LET q == [F[i] EXCEPT !.launched = n]
          IN  /\ q \in RunType /\ q.auto = F[i].auto /\ q.occ = F[i].occ /\ q.st = F[i].st
              /\ q.at = F[i].at /\ q.launched = n
      BY <2>1, <3>1, Zenon
    <3> QED BY <2>2, <3>2, Zenon
  <2> QED BY <2>3 DEF n
<1>6. DOMAIN run' = DOMAIN run
  BY <1>3
<1>7. DOMAIN run = 1 .. Len(run) /\ Len(run) \in Nat
  BY FieldTypes
<1>8. run' \in [1 .. Len(run) -> RunType]
  <2>1. run' = [i \in 1 .. Len(run) |-> run'[i]]
    BY <1>3, <1>7, Zenon
  <2>2. \A i \in 1 .. Len(run) : run'[i] \in RunType
    BY <1>5, <1>7
  <2> QED BY <2>1, <2>2, Zenon
<1>9. run' \in Seq(RunType) /\ Len(run') = Len(run)
  BY <1>7, <1>8
<1>10. UNCHANGED <<clock, auto>> /\ Loss
  BY DEF Crash
<1>11. left' \in [edits : 0 .. MaxEdits, losses : 0 .. MaxLosses]
  BY <1>10, LeftTypes
<1>12. svc'.cur <= Len(run')
  BY <1>1, <1>7, <1>9 DEF SweepEnds
<1>13. TypeOK'
  BY <1>1, <1>9, <1>10, <1>11, <1>12 DEF TypeOK
<1> QED BY <1>1, <1>2, <1>5, <1>6, <1>10, <1>13 DEF Continues

\* The oldest run of an occurrence is one of its runs.
LEMMA RunOfFact ==
    ASSUME TypeOK, NEW a, NEW o
    PROVE  /\ \A i \in RunOf(a, o) : /\ i \in DOMAIN run /\ run[i].auto = a /\ run[i].occ = o
                                     /\ run[i].st # "deleted"
           /\ RunOf(a, o) # {} => Min(RunOf(a, o)) \in RunOf(a, o)
<1>1. RunOf(a, o) \in SUBSET Nat
  BY FieldTypes DEF RunOf
<1>2. ASSUME RunOf(a, o) # {} PROVE Min(RunOf(a, o)) \in RunOf(a, o)
  <2>1. \E x \in RunOf(a, o) : \A y \in RunOf(a, o) : x <= y
    BY <1>1, <1>2, LeastNat
  <2> QED BY <2>1 DEF Min
<1>3. \A i \in RunOf(a, o) : /\ i \in DOMAIN run /\ run[i].auto = a /\ run[i].occ = o
                             /\ run[i].st # "deleted"
  BY DEF RunOf
<1> QED BY <1>2, <1>3

\* What the evaluation of the due automation d makes of run i, which had been launched n
\* times: a run of d's latest occurrence that is not deleted, launched at most once more.
EvaluatesTo(d, i, n) ==
    /\ run'[i].auto = d.id /\ run'[i].occ = LatestBy(d.sched, svc.now)
    /\ run'[i].st # "deleted"
    /\ run'[i].launched \in {n, n + 1}
    /\ run'[i].at = "precheck" => run'[i].launched = n
    /\ \/ /\ SweepEnds /\ run'[i].launched = n
          /\ run'[i].at = "precheck" => i \in DOMAIN run /\ run[i].at = "precheck"
       \/ /\ svc'.now = svc.now /\ svc'.todo = svc.todo \ {d} /\ svc'.cur = i
          /\ svc'.at \in {"wait", "advance"}
          /\ run'[i].at = "precheck" => svc'.at = "wait"

\* The evaluation takes up the run of the occurrence or makes its first one.
LEMMA EvaluateFact ==
    ASSUME TypeOK, Evaluate
    PROVE  /\ TypeOK' /\ UNCHANGED <<clock, auto>> /\ svc.at = "sync"
           /\ \E d \in svc.todo, i \in DOMAIN run' :
                 /\ DOMAIN run' = DOMAIN run \cup {i}
                 /\ \A j \in DOMAIN run : j # i => run'[j] = run[j]
                 /\ \/ /\ i \in RunOf(d.id, LatestBy(d.sched, svc.now))
                       /\ EvaluatesTo(d, i, run[i].launched)
                    \/ /\ i \notin DOMAIN run /\ RunOf(d.id, LatestBy(d.sched, svc.now)) = {}
                       /\ EvaluatesTo(d, i, 0)
<1>1. PICK d \in svc.todo, ok \in BOOLEAN :
        LET o == LatestBy(d.sched, svc.now)
            old == RunOf(d.id, o)
            i == IF old = {} THEN Len(run) + 1 ELSE Min(old)
            fresh == IF old = {} THEN NewRun(d.id, o) ELSE run[i]
            rec == IF svc.now - o > Grace THEN [fresh EXCEPT !.st = "final"]
                                          ELSE Dispatched(fresh, ok)
            awaited == rec.at \in {"precheck", "launch"}
        IN
        /\ run' = [j \in DOMAIN run \cup {i} |->
                     IF j # i THEN run[j]
                     ELSE IF Throws(rec) THEN [fresh EXCEPT !.lost = TRUE]
                     ELSE rec]
        /\ svc' = IF Throws(rec) THEN Idle
                  ELSE [svc EXCEPT !.todo = @ \ {d}, !.cur = i,
                                   !.at = IF awaited THEN "wait" ELSE "advance"]
  BY DEF Evaluate
<1> DEFINE o == LatestBy(d.sched, svc.now)
           old == RunOf(d.id, o)
           i == IF old = {} THEN Len(run) + 1 ELSE Min(old)
           fresh == IF old = {} THEN NewRun(d.id, o) ELSE run[i]
           rec == IF svc.now - o > Grace THEN [fresh EXCEPT !.st = "final"]
                                         ELSE Dispatched(fresh, ok)
           at == IF rec.at \in {"precheck", "launch"} THEN "wait" ELSE "advance"
           new == IF Throws(rec) THEN [fresh EXCEPT !.lost = TRUE] ELSE rec
<1>2. run' = [j \in DOMAIN run \cup {i} |-> IF j # i THEN run[j] ELSE new]
  BY <1>1
<1>3. svc' = IF Throws(rec) THEN Idle ELSE [svc EXCEPT !.todo = @ \ {d}, !.cur = i, !.at = at]
  BY <1>1
<1>4. d.id \in Automation /\ o \in 0 .. Horizon
  <2>1. d.id \in Automation /\ d.sched \in SUBSET (1 .. Horizon) /\ svc.now \in 0 .. Horizon
    BY FieldTypes
  <2> QED BY <2>1, LatestByFact
<1>5. /\ old # {} => /\ i \in DOMAIN run /\ i \in old /\ fresh = run[i]
                     /\ run[i].auto = d.id /\ run[i].occ = o /\ run[i].st # "deleted"
      /\ old = {} => i = Len(run) + 1 /\ fresh = NewRun(d.id, o)
  BY RunOfFact
<1>6. DOMAIN run = 1 .. Len(run) /\ Len(run) \in Nat /\ run \in Seq(RunType)
      /\ \A j \in DOMAIN run : run[j] \in RunType
  BY FieldTypes DEF TypeOK
<1> HIDE DEF o, old
<1>7. /\ fresh \in RunType /\ fresh.auto = d.id /\ fresh.occ = o /\ fresh.st # "deleted"
      /\ old = {} => fresh.launched = 0 /\ fresh.at = "none"
  <2>1. /\ NewRun(d.id, o) \in RunType
        /\ NewRun(d.id, o).auto = d.id /\ NewRun(d.id, o).occ = o
        /\ NewRun(d.id, o).st # "deleted"
        /\ NewRun(d.id, o).launched = 0 /\ NewRun(d.id, o).at = "none"
    BY <1>4, NewRunFact
  <2> QED BY <1>5, <1>6, <2>1
<1> HIDE DEF i, fresh
<1>8. /\ rec \in RunType /\ rec.auto = d.id /\ rec.occ = o /\ rec.st # "deleted"
      /\ rec.launched \in {fresh.launched, fresh.launched + 1}
      /\ rec.at = "precheck" => rec.launched = fresh.launched
  <2>1. LET r == [fresh EXCEPT !.st = "final"]
        IN  /\ r \in RunType /\ r.auto = fresh.auto /\ r.occ = fresh.occ /\ r.st # "deleted"
            /\ r.launched = fresh.launched
    BY <1>7, Zenon DEF RunType
  <2>2. LET r == Dispatched(fresh, ok)
        IN  /\ r \in RunType /\ r.auto = fresh.auto /\ r.occ = fresh.occ /\ r.st # "deleted"
            /\ r.launched \in {fresh.launched, fresh.launched + 1}
            /\ r.at = "precheck" => r.launched = fresh.launched
    BY <1>7, DispatchedFact
  <2>3. rec = [fresh EXCEPT !.st = "final"] \/ rec = Dispatched(fresh, ok)
    OBVIOUS
  <2> HIDE DEF rec
  <2> QED BY <1>7, <2>1, <2>2, <2>3
<1> HIDE DEF rec
<1>9. LET r == [fresh EXCEPT !.lost = TRUE]
      IN  /\ r \in RunType /\ r.auto = fresh.auto /\ r.occ = fresh.occ /\ r.st = fresh.st
          /\ r.launched = fresh.launched /\ r.at = fresh.at
  BY <1>7, Zenon DEF RunType
<1>10. /\ new \in RunType /\ new.auto = d.id /\ new.occ = o /\ new.st # "deleted"
       /\ new.launched \in {fresh.launched, fresh.launched + 1}
       /\ new.at = "precheck" => new.launched = fresh.launched
       /\ Throws(rec) => new.launched = fresh.launched /\ new.at = fresh.at
       /\ ~Throws(rec) => new.at = rec.at
  <2>1. CASE Throws(rec)
    <3>1. new = [fresh EXCEPT !.lost = TRUE]
      BY <2>1
    <3> HIDE DEF new
    <3> QED BY <1>7, <1>9, <2>1, <3>1
  <2>2. CASE ~Throws(rec)
    BY <1>8, <2>2
  <2> QED BY <2>1, <2>2
<1> HIDE DEF new
<1>11. /\ DOMAIN run' = DOMAIN run \cup {i} /\ run'[i] = new
       /\ \A j \in DOMAIN run : j # i => run'[j] = run[j]
  BY <1>2
<1>12. i \in Nat /\ i <= Len(run) + 1 /\ i >= 1
  BY <1>5, <1>6
<1>13. run' \in Seq(RunType) /\ Len(run) <= Len(run') /\ i <= Len(run')
  <2>1. CASE i \in DOMAIN run
    <3>1. run' = [run EXCEPT ![i] = new]
      BY <1>2, <1>6, <2>1
    <3> QED BY <1>6, <1>10, <2>1, <3>1
  <2>2. CASE i \notin DOMAIN run
    <3>1. i = Len(run) + 1
      BY <1>5, <1>6, <2>2
    <3>2. DOMAIN run \cup {i} = 1 .. Len(run) + 1
      BY <1>6, <3>1
    <3>3. \A j \in DOMAIN run \cup {i} : (IF j # i THEN run[j] ELSE new) \in RunType
      BY <1>6, <1>10
    <3>4. run' \in [1 .. Len(run) + 1 -> RunType]
      BY <1>2, <3>2, <3>3
    <3>5. run' \in Seq(RunType) /\ Len(run') = Len(run) + 1
      BY <1>6, <3>4
    <3> QED BY <1>6, <3>1, <3>5
  <2> QED BY <2>1, <2>2
<1>14. svc \in ServiceType /\ svc.todo \in SUBSET DueType
  BY DEF TypeOK, ServiceType
<1>15. at \in {"wait", "advance"} /\ (rec.at = "precheck" => at = "wait")
  OBVIOUS
<1> HIDE DEF at
<1>16. /\ svc' \in ServiceType /\ svc'.cur <= Len(run')
       /\ \/ SweepEnds /\ Throws(rec)
          \/ /\ svc'.now = svc.now /\ svc'.todo = svc.todo \ {d} /\ svc'.cur = i
             /\ svc'.at = at /\ ~Throws(rec)
  <2>1. CASE Throws(rec)
    <3>1. svc' = Idle
      BY <1>3, <2>1
    <3>2. 0 <= Len(run')
      BY <1>6, <1>13
    <3> QED BY <1>14, <2>1, <3>1, <3>2, IdleFact DEF SweepEnds
  <2>2. CASE ~Throws(rec)
    <3>1. svc.todo \ {d} \in SUBSET DueType
      BY <1>14
    <3>2. svc' = [svc EXCEPT !.todo = svc.todo \ {d}, !.cur = i, !.at = at]
      BY <1>3, <2>2
    <3>3. /\ svc' \in ServiceType
          /\ svc'.now = svc.now /\ svc'.todo = svc.todo \ {d} /\ svc'.cur = i /\ svc'.at = at
      BY <1>12, <1>14, <1>15, <3>1, <3>2, Zenon DEF ServiceType
    <3> QED BY <1>13, <2>2, <3>3
  <2> QED BY <2>1, <2>2
<1>17. UNCHANGED <<clock, auto, left>> /\ svc.at = "sync"
  BY DEF Evaluate
<1>18. TypeOK'
  BY <1>13, <1>16, <1>17 DEF TypeOK
<1>19. EvaluatesTo(d, i, fresh.launched)
  <2>1. fresh.at = "precheck" => i \in DOMAIN run /\ run[i].at = "precheck"
    BY <1>5, <1>7
  <2> QED BY <1>10, <1>11, <1>15, <1>16, <2>1 DEF EvaluatesTo, o
<1>20. \/ i \in RunOf(d.id, LatestBy(d.sched, svc.now)) /\ EvaluatesTo(d, i, run[i].launched)
       \/ /\ i \notin DOMAIN run /\ RunOf(d.id, LatestBy(d.sched, svc.now)) = {}
          /\ EvaluatesTo(d, i, 0)
  <2>1. CASE old # {}
    BY <1>5, <1>19, <2>1 DEF old, o
  <2>2. CASE old = {}
    <3>1. i \notin DOMAIN run
      BY <1>5, <1>6, <2>2
    <3> QED BY <1>7, <1>19, <2>2, <3>1 DEF old, o
  <2> QED BY <2>1, <2>2
<1>21. i \in DOMAIN run'
  BY <1>11
<1> QED BY <1>11, <1>17, <1>18, <1>20, <1>21

-----------------------------------------------------------------------------
(***************************************************************************)
(* The inductive invariant.                                                *)
(***************************************************************************)

\* The sweep is at a run exactly while it waits or advances, and has not overtaken the clock.
Position ==
    /\ svc.at \in {"idle", "sync"} => svc.cur = 0
    /\ svc.at \in {"wait", "advance"} => svc.cur \in DOMAIN run
    /\ svc.at = "idle" => svc.todo = {}
    /\ svc.at # "idle" => svc.now <= clock

\* Automations are planned for an occurrence of their schedule, or never.
Plans ==
    \A a \in Automation : auto[a].next \in auto[a].sched \cup {Never} /\ auto[a].since <= clock

\* Runs are of occurrences that have passed, by the start of a sweep that is under way, and
\* of automations that were created.
Past ==
    \A i \in DOMAIN run :
        /\ run[i].occ <= clock /\ (svc.at # "idle" => run[i].occ <= svc.now)
        /\ auto[run[i].auto].life # "new"

\* The automations still to be swept were due, each is on the list once and not the one the
\* sweep is at, and their schedule is the one on the list or was given after the sweep began.
Listed ==
    \A d \in svc.todo :
        /\ auto[d.id].life # "new" /\ 1 <= LatestBy(d.sched, svc.now)
        /\ \A e \in svc.todo : d.id = e.id => d = e
        /\ svc.cur # 0 => d.id # run[svc.cur].auto
        /\ auto[d.id].life = "live" => auto[d.id].sched = d.sched \/ svc.now <= auto[d.id].since

\* The run the sweep is at is of the latest occurrence, unless there is a newer schedule.
Current ==
    svc.cur # 0 =>
        LET a == run[svc.cur].auto
        IN  auto[a].life = "live" => \/ run[svc.cur].occ = LatestBy(auto[a].sched, svc.now)
                                     \/ svc.now <= auto[a].since

Sweeping == Position /\ Plans /\ Past /\ Listed /\ Current

\* Who runs a precheck has not launched yet, and the sweep waits for it.
LaunchedOnce ==
    \A i \in DOMAIN run :
        /\ run[i].launched <= 1
        /\ run[i].at = "precheck" => run[i].launched = 0 /\ svc.cur = i /\ svc.at = "wait"

\* A launched occurrence is behind its automation's next one, or the sweep is about to
\* advance it; and behind what the sweep still has to evaluate.
NotAgain ==
    \A i \in DOMAIN run :
        (1 <= run[i].launched /\ run[i].occ # Manual /\ run[i].st # "deleted") =>
            /\ \/ auto[run[i].auto].life # "live" \/ svc.cur = i
               \/ run[i].occ < auto[run[i].auto].next
            /\ \A d \in svc.todo : d.id = run[i].auto => run[i].occ < LatestBy(d.sched, svc.now)

\* An occurrence has one run.
OneRunEach ==
    \A i, j \in DOMAIN run :
        (run[i].auto = run[j].auto /\ run[i].occ = run[j].occ /\ run[i].occ # Manual
            /\ run[i].st # "deleted" /\ run[j].st # "deleted") => i = j

Launching == LaunchedOnce /\ NotAgain /\ OneRunEach

\* Initially.
LEMMA InitFact == Init => TypeOK /\ Sweeping /\ Launching /\ NothingSkipped
<1> SUFFICES ASSUME Init PROVE TypeOK /\ Sweeping /\ Launching /\ NothingSkipped
  OBVIOUS
<1>1. PICK stored \in Stored :
        auto = [a \in Automation |->
                  IF a \in DOMAIN stored
                  THEN [life |-> "live", enabled |-> TRUE, sched |-> stored[a],
                        next |-> NextAfter(stored[a], 0), since |-> 0]
                  ELSE [life |-> "new", enabled |-> FALSE, sched |-> {}, next |-> Never,
                        since |-> 0]]
  BY DEF Init
<1>2. Horizon \in Nat /\ Never \in 1 .. Never /\ 0 \in 0 .. Horizon /\ {} \in SUBSET (1 .. Horizon)
  BY ConstantsAssumption DEF Never
<1>3. \A a \in DOMAIN stored : stored[a] \in SUBSET (1 .. Horizon)
  BY ConstantsAssumption
<1>4. ASSUME NEW a \in Automation
      PROVE  /\ auto[a] \in AutomationType /\ auto[a].next \in auto[a].sched \cup {Never}
             /\ auto[a].since = 0
             /\ \A o \in auto[a].sched : ~(0 < o /\ o < auto[a].next)
  <2>1. CASE a \in DOMAIN stored
    <3>1. auto[a] = [life |-> "live", enabled |-> TRUE, sched |-> stored[a],
                     next |-> NextAfter(stored[a], 0), since |-> 0]
      BY <1>1, <2>1
    <3>2. /\ NextAfter(stored[a], 0) \in stored[a] \cup {Never}
          /\ NextAfter(stored[a], 0) \in 1 .. Never
          /\ \A o \in stored[a] : 0 < o => NextAfter(stored[a], 0) <= o
      BY <1>2, <1>3, <2>1, NextAfterFact
    <3>3. \A o \in stored[a] : o \in Nat
      BY <1>2, <1>3, <2>1
    <3> QED BY <1>2, <1>3, <2>1, <3>1, <3>2, <3>3 DEF AutomationType
  <2>2. CASE a \notin DOMAIN stored
    <3>1. auto[a] = [life |-> "new", enabled |-> FALSE, sched |-> {}, next |-> Never, since |-> 0]
      BY <1>1, <2>2
    <3> QED BY <1>2, <3>1 DEF AutomationType
  <2> QED BY <2>1, <2>2
<1>5. auto \in [Automation -> AutomationType]
  <2>1. auto = [a \in Automation |-> auto[a]]
    BY <1>1
  <2> QED BY <1>4, <2>1
<1>6. run = <<>> /\ clock = 0
  BY DEF Init
<1>7. svc \in ServiceType /\ svc.at = "idle" /\ svc.cur = 0 /\ svc.todo = {}
  BY <1>2 DEF Init, ServiceType
<1>8. left \in [edits : 0 .. MaxEdits, losses : 0 .. MaxLosses]
  BY ConstantsAssumption DEF Init
<1>9. run \in Seq(RunType) /\ Len(run) = 0 /\ DOMAIN run = {}
  BY <1>6
<1>10. TypeOK
  BY <1>2, <1>5, <1>6, <1>7, <1>8, <1>9 DEF TypeOK
<1>11. Sweeping
  BY <1>4, <1>6, <1>7, <1>9 DEF Sweeping, Position, Plans, Past, Listed, Current
<1>12. Launching
  BY <1>9 DEF Launching, LaunchedOnce, NotAgain, OneRunEach
<1>13. NothingSkipped
  BY <1>4 DEF NothingSkipped
<1> QED BY <1>10, <1>11, <1>12, <1>13

\* An edit keeps the invariant: the next occurrence lies after every run's.
LEMMA EditKeeps ==
    ASSUME TypeOK, Sweeping, Launching, NothingSkipped,
           NEW a \in Automation, Create(a) \/ Toggle(a) \/ Reschedule(a)
    PROVE  TypeOK' /\ Sweeping' /\ Launching' /\ NothingSkipped'
<1>0. /\ clock \in 0 .. Horizon /\ Horizon \in Nat
      /\ \A i \in DOMAIN run : run[i].auto \in Automation /\ run[i].occ \in Nat
      /\ \A d \in svc.todo : d.id \in Automation
      /\ svc.now \in Nat /\ svc.at \in {"idle", "sync", "wait", "advance"}
      /\ svc.cur \in Nat
      /\ \A b \in Automation : auto[b].life \in {"new", "live", "gone"}
  BY FieldTypes
<1>1. /\ TypeOK' /\ UNCHANGED <<clock, run, svc>>
      /\ \A b \in Automation : b # a => auto'[b] = auto[b]
      /\ auto[a].life # "gone" /\ auto'[a].life = "live"
      /\ \/ /\ auto'[a].sched = auto[a].sched /\ auto'[a].next = auto[a].next
            /\ auto'[a].since = auto[a].since /\ auto[a].life = "live"
         \/ /\ auto'[a].sched \in SUBSET (1 .. Horizon) /\ auto'[a].since = clock
            /\ auto'[a].next = NextAfter(auto'[a].sched, clock)
  BY EditFact
<1>2. \/ /\ auto'[a].sched = auto[a].sched /\ auto'[a].next = auto[a].next
         /\ auto'[a].since = auto[a].since /\ auto[a].life = "live"
      \/ /\ auto'[a].since = clock /\ clock < auto'[a].next
         /\ auto'[a].next \in auto'[a].sched \cup {Never}
         /\ \A o \in auto'[a].sched : o \in Nat /\ (clock < o => auto'[a].next <= o)
         /\ auto'[a].next \in Nat
  <2>1. ASSUME NEW s \in SUBSET (1 .. Horizon)
        PROVE  /\ NextAfter(s, clock) \in s \cup {Never} /\ clock < NextAfter(s, clock)
               /\ \A o \in s : o \in Nat /\ (clock < o => NextAfter(s, clock) <= o)
               /\ NextAfter(s, clock) \in Nat
    BY <1>0, NextAfterFact
  <2> QED BY <1>1, <2>1
<1>3. Position' /\ Plans'
  BY <1>0, <1>1, <1>2 DEF Sweeping, Position, Plans
<1>4. Past'
  BY <1>0, <1>1 DEF Sweeping, Past
<1>5. svc.todo # {} \/ svc.cur # 0 => svc.now <= clock
  BY <1>0 DEF Sweeping, Position
<1>6. Listed'
  BY <1>0, <1>1, <1>2, <1>5 DEF Sweeping, Listed
<1>7. svc.cur # 0 => svc.cur \in DOMAIN run
  BY <1>0 DEF Sweeping, Position
<1>8. Current'
  BY <1>0, <1>1, <1>2, <1>5, <1>7 DEF Sweeping, Current, Past
<1>9. LaunchedOnce' /\ OneRunEach'
  BY <1>1 DEF Launching, LaunchedOnce, OneRunEach
<1>10. NotAgain'
  BY <1>0, <1>1, <1>2 DEF Launching, NotAgain, Sweeping, Past
<1>11. NothingSkipped'
  BY <1>0, <1>1, <1>2 DEF NothingSkipped
<1> QED BY <1>1, <1>3, <1>4, <1>6, <1>8, <1>9, <1>10, <1>11 DEF Sweeping, Launching

\* A deletion keeps the invariant.
LEMMA DeleteKeeps ==
    ASSUME TypeOK, Sweeping, Launching, NothingSkipped, NEW a \in Automation, Delete(a)
    PROVE  TypeOK' /\ Sweeping' /\ Launching' /\ NothingSkipped'
<1>0. /\ \A i \in DOMAIN run : run[i].auto \in Automation
      /\ \A d \in svc.todo : d.id \in Automation
      /\ svc.cur \in Nat /\ svc.at \in {"idle", "sync", "wait", "advance"}
  BY FieldTypes
<1>1. /\ TypeOK' /\ UNCHANGED <<clock, svc>>
      /\ \A b \in Automation : b # a => auto'[b] = auto[b]
      /\ auto[a].life = "live" /\ auto'[a].life = "gone"
      /\ auto'[a].sched = auto[a].sched /\ auto'[a].next = auto[a].next
      /\ auto'[a].since = auto[a].since
      /\ DOMAIN run' = DOMAIN run
      /\ \A i \in DOMAIN run : Continues(run[i], run'[i])
  BY DeleteFact
<1>2. \A i \in DOMAIN run :
         /\ run'[i].auto = run[i].auto /\ run'[i].occ = run[i].occ
         /\ run'[i].launched = run[i].launched
         /\ run'[i].st # "deleted" => run[i].st # "deleted"
         /\ run'[i].at = "precheck" => run[i].at = "precheck"
  BY <1>1 DEF Continues
<1>3. Position' /\ Plans'
  BY <1>1 DEF Sweeping, Position, Plans
<1>4. Past'
  BY <1>0, <1>1, <1>2 DEF Sweeping, Past
<1>5. svc.cur # 0 => svc.cur \in DOMAIN run
  BY <1>0 DEF Sweeping, Position
<1>6. Listed'
  BY <1>0, <1>1, <1>2, <1>5 DEF Sweeping, Listed
<1>7. Current'
  BY <1>0, <1>1, <1>2, <1>5 DEF Sweeping, Current
<1>8. LaunchedOnce' /\ OneRunEach'
  BY <1>1, <1>2 DEF Launching, LaunchedOnce, OneRunEach
<1>9. NotAgain'
  BY <1>0, <1>1, <1>2 DEF Launching, NotAgain
<1>10. NothingSkipped'
  BY <1>1, <1>2 DEF NothingSkipped
<1> QED BY <1>1, <1>3, <1>4, <1>6, <1>7, <1>8, <1>9, <1>10 DEF Sweeping, Launching

\* A run by hand keeps the invariant.
LEMMA RunNowKeeps ==
    ASSUME TypeOK, Sweeping, Launching, NothingSkipped, NEW a \in Automation, RunNow(a)
    PROVE  TypeOK' /\ Sweeping' /\ Launching' /\ NothingSkipped'
<1> DEFINE n == Len(run) + 1
<1>0. /\ DOMAIN run = 1 .. Len(run) /\ Len(run) \in Nat
      /\ svc.cur \in Nat /\ svc.cur <= Len(run) /\ svc.now \in Nat /\ clock \in Nat
      /\ svc.at \in {"idle", "sync", "wait", "advance"}
  BY FieldTypes
<1>1. /\ TypeOK' /\ UNCHANGED <<clock, auto, svc>>
      /\ auto[a].life = "live"
      /\ DOMAIN run' = DOMAIN run \cup {n} /\ n \notin DOMAIN run
      /\ \A i \in DOMAIN run : run'[i] = run[i]
      /\ run'[n].auto = a /\ run'[n].occ = Manual /\ run'[n].launched <= 1
      /\ run'[n].at # "precheck"
  <2>1. 1 .. Len(run) + 1 = DOMAIN run \cup {n} /\ n \notin DOMAIN run
    BY <1>0
  <2>2. /\ TypeOK' /\ UNCHANGED <<clock, auto, svc>> /\ auto[a].life = "live"
        /\ DOMAIN run' = 1 .. Len(run) + 1
        /\ \A i \in DOMAIN run : run'[i] = run[i]
        /\ run'[n].auto = a /\ run'[n].occ = Manual /\ run'[n].launched <= 1
        /\ run'[n].at # "precheck"
    BY RunNowFact
  <2> HIDE DEF n
  <2> QED BY <2>1, <2>2
<1> HIDE DEF n
<1>2. svc.cur # 0 => svc.cur \in DOMAIN run
  BY <1>0 DEF Sweeping, Position
<1>3. Position' /\ Plans'
  BY <1>1 DEF Sweeping, Position, Plans
<1>4. Past'
  BY <1>0, <1>1 DEF Sweeping, Past, Manual
<1>5. Listed' /\ Current'
  BY <1>1, <1>2 DEF Sweeping, Listed, Current
<1>6. LaunchedOnce' /\ OneRunEach'
  BY <1>1 DEF Launching, LaunchedOnce, OneRunEach
<1>7. NotAgain'
  BY <1>1 DEF Launching, NotAgain
<1>8. NothingSkipped'
  BY <1>1 DEF NothingSkipped
<1> QED BY <1>1, <1>3, <1>4, <1>5, <1>6, <1>7, <1>8 DEF Sweeping, Launching

\* The start of a sweep keeps the invariant: what is due has an occurrence no run of which
\* was launched.
LEMMA SweepKeeps ==
    ASSUME TypeOK, Sweeping, Launching, NothingSkipped, Sweep
    PROVE  TypeOK' /\ Sweeping' /\ Launching' /\ NothingSkipped'
<1>0. /\ clock \in 0 .. Horizon /\ Horizon \in Nat /\ Never = Horizon + 1
      /\ \A i \in DOMAIN run : run[i].auto \in Automation /\ run[i].occ \in Nat
      /\ \A b \in Automation : /\ auto[b].sched \in SUBSET (1 .. Horizon)
                               /\ auto[b].next \in 1 .. Never
  BY FieldTypes
<1>1. /\ TypeOK' /\ UNCHANGED <<clock, auto, run>>
      /\ svc.at = "idle" /\ svc'.at = "sync" /\ svc'.now = clock
      /\ svc'.todo = DueList /\ svc'.cur = svc.cur
  BY SweepFact
<1>2. svc.cur = 0
  BY <1>1 DEF Sweeping, Position
<1>3. ASSUME NEW d \in DueList
      PROVE  /\ d.id \in Automation /\ d.sched = auto[d.id].sched /\ auto[d.id].life = "live"
             /\ auto[d.id].next <= LatestBy(d.sched, clock)
             /\ 1 <= LatestBy(d.sched, clock) /\ LatestBy(d.sched, clock) \in Nat
  <2>1. PICK b \in Automation : Due(b) /\ d = [id |-> b, sched |-> auto[b].sched]
    BY DEF DueList
  <2>2. auto[b].next <= clock /\ auto[b].life = "live"
    BY <2>1 DEF Due
  <2>3. auto[b].next \in auto[b].sched
    BY <1>0, <2>2 DEF Sweeping, Plans
  <2>4. auto[b].next <= LatestBy(auto[b].sched, clock) /\ LatestBy(auto[b].sched, clock) \in Nat
    BY <1>0, <2>2, <2>3, LatestByFact
  <2> QED BY <1>0, <2>1, <2>2, <2>4
<1>4. \A d, e \in DueList : d.id = e.id => d = e
  BY DEF DueList
<1>5. Position' /\ Plans'
  BY <1>0, <1>1, <1>2 DEF Sweeping, Position, Plans
<1>6. Past' /\ Current'
  BY <1>1, <1>2 DEF Sweeping, Past, Current
<1>7. Listed'
  BY <1>1, <1>2, <1>3, <1>4 DEF Listed
<1>8. LaunchedOnce' /\ OneRunEach'
  BY <1>1 DEF Launching, LaunchedOnce, OneRunEach
<1>9. NotAgain'
  <2> SUFFICES ASSUME NEW i \in DOMAIN run, 1 <= run[i].launched, run[i].occ # Manual,
                      run[i].st # "deleted"
               PROVE  /\ \/ auto[run[i].auto].life # "live" \/ svc.cur = i
                         \/ run[i].occ < auto[run[i].auto].next
                      /\ \A d \in DueList :
                            d.id = run[i].auto => run[i].occ < LatestBy(d.sched, clock)
    BY <1>1 DEF NotAgain
  <2>1. i # 0
    BY FieldTypes
  <2>2. auto[run[i].auto].life # "live" \/ run[i].occ < auto[run[i].auto].next
    BY <1>2, <2>1 DEF Launching, NotAgain
  <2> QED BY <1>0, <1>3, <2>2
<1>10. NothingSkipped'
  BY <1>1 DEF NothingSkipped
<1> QED BY <1>1, <1>5, <1>6, <1>7, <1>8, <1>9, <1>10 DEF Sweeping, Launching

\* Advancing keeps the invariant: the next occurrence is the first after the sweep's start,
\* and the run the sweep is at is of the last one before it.
LEMMA AdvanceKeeps ==
    ASSUME TypeOK, Sweeping, Launching, NothingSkipped, Advance
    PROVE  TypeOK' /\ Sweeping' /\ Launching' /\ NothingSkipped'
<1> DEFINE a == run[svc.cur].auto
<1>0. /\ clock \in Nat /\ svc.now \in 0 .. Horizon /\ Horizon \in Nat
      /\ DOMAIN run = 1 .. Len(run) /\ Len(run) \in Nat
      /\ \A i \in DOMAIN run : run[i].auto \in Automation /\ run[i].occ \in Nat
      /\ \A d \in svc.todo : d.id \in Automation
      /\ \A b \in Automation : /\ auto[b].sched \in SUBSET (1 .. Horizon)
                               /\ auto[b].since \in Nat /\ auto[b].next \in Nat
                               /\ auto[b].life \in {"new", "live", "gone"}
  BY FieldTypes
<1>1. svc.at = "advance" /\ svc.cur \in DOMAIN run /\ svc.cur # 0 /\ svc.now <= clock
  <2>1. svc.at = "advance"
    BY DEF Advance
  <2> QED BY <1>0, <2>1 DEF Sweeping, Position
<1>2. /\ TypeOK' /\ UNCHANGED <<clock, run>>
      /\ \A b \in Automation : b # a => auto'[b] = auto[b]
      /\ auto'[a].life = auto[a].life /\ auto'[a].sched = auto[a].sched
      /\ auto'[a].since = auto[a].since
      /\ \/ auto[a].life = "gone" /\ auto'[a].next = auto[a].next
         \/ auto'[a].next = NextAfter(auto[a].sched, svc.now)
      /\ \/ SweepEnds
         \/ svc'.at = "sync" /\ svc'.cur = 0 /\ svc'.now = svc.now /\ svc'.todo = svc.todo
  BY <1>1, AdvanceFact
<1>3. a \in Automation
  BY <1>0, <1>1
<1>4. /\ NextAfter(auto[a].sched, svc.now) \in auto[a].sched \cup {Never}
      /\ svc.now < NextAfter(auto[a].sched, svc.now) /\ NextAfter(auto[a].sched, svc.now) \in Nat
      /\ \A o \in auto[a].sched :
            o \in Nat /\ (svc.now < o => NextAfter(auto[a].sched, svc.now) <= o)
      /\ \A o \in auto[a].sched : o <= svc.now => o <= LatestBy(auto[a].sched, svc.now)
  <2>1. auto[a].sched \in SUBSET (1 .. Horizon) /\ svc.now \in 0 .. Horizon
    BY <1>0, <1>3
  <2> HIDE DEF a
  <2>2. /\ NextAfter(auto[a].sched, svc.now) \in auto[a].sched \cup {Never}
        /\ NextAfter(auto[a].sched, svc.now) \in 1 .. Never
        /\ svc.now < NextAfter(auto[a].sched, svc.now)
        /\ \A o \in auto[a].sched : svc.now < o => NextAfter(auto[a].sched, svc.now) <= o
    BY <2>1, NextAfterFact
  <2>3. \A o \in auto[a].sched : o <= svc.now => o <= LatestBy(auto[a].sched, svc.now)
    BY <2>1, LatestByFact
  <2>4. \A o \in auto[a].sched : o \in Nat
    BY <1>0, <2>1
  <2>5. NextAfter(auto[a].sched, svc.now) \in Nat
    BY <2>2
  <2> QED BY <2>2, <2>3, <2>4, <2>5
<1>5. \/ run[svc.cur].occ = LatestBy(auto[a].sched, svc.now) \/ svc.now <= auto[a].since
      \/ auto[a].life # "live"
  BY <1>1 DEF Sweeping, Current
<1>6. \A i \in DOMAIN run : /\ run[i].occ <= clock /\ run[i].occ <= svc.now
                            /\ auto[run[i].auto].life # "new"
  BY <1>1 DEF Sweeping, Past
<1>7. svc'.cur = 0 /\ (svc'.todo = {} \/ svc'.todo = svc.todo)
      /\ svc'.at \in {"idle", "sync"}
      /\ (svc'.at # "idle" => svc'.now = svc.now /\ svc'.todo = svc.todo)
      /\ (svc'.at = "idle" => svc'.todo = {})
  BY <1>2 DEF SweepEnds
<1>8. \A b \in Automation : /\ auto'[b].life = auto[b].life /\ auto'[b].sched = auto[b].sched
                            /\ auto'[b].since = auto[b].since
  BY <1>2
<1>9. \A d \in svc'.todo : d \in svc.todo /\ svc'.now = svc.now
  BY <1>7
<1> HIDE DEF a
<1>10. Position'
  BY <1>1, <1>2, <1>7 DEF Position
<1>11. Plans'
  BY <1>2, <1>3, <1>4, <1>8 DEF Sweeping, Plans
<1>12. Past'
  BY <1>0, <1>2, <1>6, <1>7, <1>8 DEF Past
<1>13. Listed'
  BY <1>0, <1>7, <1>8, <1>9 DEF Sweeping, Listed
<1>14. Current'
  BY <1>7 DEF Current
<1>15. LaunchedOnce' /\ OneRunEach'
  BY <1>1, <1>2 DEF Launching, LaunchedOnce, OneRunEach
<1>16. NotAgain'
  <2> SUFFICES ASSUME NEW i \in DOMAIN run, 1 <= run[i].launched, run[i].occ # Manual,
                      run[i].st # "deleted"
               PROVE  /\ auto[run[i].auto].life # "live" \/ run[i].occ < auto'[run[i].auto].next
                      /\ \A d \in svc.todo :
                            d.id = run[i].auto => run[i].occ < LatestBy(d.sched, svc.now)
    BY <1>0, <1>2, <1>8, <1>9 DEF NotAgain
  <2>1. /\ \A d \in svc.todo : d.id = run[i].auto => run[i].occ < LatestBy(d.sched, svc.now)
        /\ \/ auto[run[i].auto].life # "live" \/ svc.cur = i
           \/ run[i].occ < auto[run[i].auto].next
    BY DEF Launching, NotAgain
  <2>2. CASE run[i].auto = a
    BY <1>0, <1>2, <1>4, <1>6, <2>1, <2>2
  <2>3. CASE run[i].auto # a
    BY <1>0, <1>2, <2>1, <2>3 DEF a
  <2> QED BY <2>2, <2>3
<1>17. NothingSkipped'
  <2> SUFFICES ASSUME NEW b \in Automation, auto[b].life = "live", NEW o \in auto[b].sched,
                      auto[b].since < o, o < auto'[b].next
               PROVE  \E i \in DOMAIN run : run[i].auto = b /\ run[i].occ >= o
    BY <1>2, <1>8 DEF NothingSkipped
  <2>1. CASE b # a
    BY <1>2, <2>1 DEF NothingSkipped
  <2>2. CASE b = a
    <3>1. auto'[a].next = NextAfter(auto[a].sched, svc.now)
      BY <1>2, <2>2
    <3>2. o \in Nat /\ o <= svc.now
      BY <1>0, <1>4, <2>2, <3>1
    <3>3. o <= LatestBy(auto[a].sched, svc.now) /\ ~(svc.now <= auto[a].since)
      BY <1>0, <1>3, <1>4, <2>2, <3>2
    <3>4. run[svc.cur].occ >= o /\ run[svc.cur].auto = a
      BY <1>0, <1>1, <1>5, <2>2, <3>2, <3>3 DEF a
    <3> QED BY <1>1, <2>2, <3>4
  <2> QED BY <2>1, <2>2
<1> QED BY <1>2, <1>10, <1>11, <1>12, <1>13, <1>14, <1>15, <1>16, <1>17 DEF Sweeping, Launching

\* Runs that continue under a sweep that stays where it is keep the invariant.
LEMMA ContinuingKeeps ==
    ASSUME TypeOK, Sweeping, Launching, NothingSkipped, TypeOK',
           UNCHANGED auto, SweepStays, clock <= clock',
           DOMAIN run' = DOMAIN run, \A i \in DOMAIN run : Continues(run[i], run'[i])
    PROVE  Sweeping' /\ Launching' /\ NothingSkipped'
<1>0. /\ clock \in Nat /\ clock' \in Nat /\ svc.now \in Nat
      /\ svc.cur \in Nat /\ svc.at \in {"idle", "sync", "wait", "advance"}
      /\ \A i \in DOMAIN run : run[i].occ \in Nat
      /\ \A a \in Automation : auto[a].since \in Nat
  <2>1. clock' \in Nat
    BY ConstantsAssumption DEF TypeOK
  <2> QED BY <2>1, FieldTypes
<1>1. \A i \in DOMAIN run :
         /\ run'[i].auto = run[i].auto /\ run'[i].occ = run[i].occ
         /\ run'[i].launched = run[i].launched
         /\ run'[i].st # "deleted" => run[i].st # "deleted"
         /\ run'[i].at = "precheck" => run[i].at = "precheck"
  BY DEF Continues
<1>2. svc.cur # 0 => svc.cur \in DOMAIN run
  BY <1>0 DEF Sweeping, Position
<1>3. Position' /\ Plans'
  BY <1>0 DEF Sweeping, Position, Plans, SweepStays
<1>4. Past'
  BY <1>0, <1>1 DEF Sweeping, Past, SweepStays
<1>5. Listed' /\ Current'
  BY <1>1, <1>2 DEF Sweeping, Listed, Current, SweepStays
<1>6. LaunchedOnce' /\ OneRunEach'
  BY <1>1 DEF Launching, LaunchedOnce, OneRunEach, SweepStays
<1>7. NotAgain'
  BY <1>1 DEF Launching, NotAgain, SweepStays
<1>8. NothingSkipped'
  BY <1>1 DEF NothingSkipped
<1> QED BY <1>3, <1>4, <1>5, <1>6, <1>7, <1>8 DEF Sweeping, Launching

\* The carriers keep the invariant: a launch after a precheck is that of the run the sweep
\* waits for, and a sweep that ends there does so because the run was deleted.
LEMMA CarryKeeps ==
    ASSUME TypeOK, Sweeping, Launching, NothingSkipped, NEW i \in DOMAIN run, Carry(i)
    PROVE  TypeOK' /\ Sweeping' /\ Launching' /\ NothingSkipped'
<1>0. /\ clock \in Nat /\ svc.cur \in Nat /\ svc.at \in {"idle", "sync", "wait", "advance"}
      /\ \A j \in DOMAIN run : run[j].auto \in Automation /\ run[j].launched \in Nat
      /\ DOMAIN run = 1 .. Len(run) /\ Len(run) \in Nat
  BY FieldTypes
<1>1. /\ TypeOK' /\ UNCHANGED <<clock, auto>>
      /\ DOMAIN run' = DOMAIN run /\ \A j \in DOMAIN run : j # i => run'[j] = run[j]
      /\ \/ /\ Continues(run[i], run'[i])
            /\ svc' = svc \/ (run'[i].at # "precheck" /\ ResumesFrom(i))
         \/ /\ run[i].at = "precheck" /\ svc' = svc
            /\ run'[i].auto = run[i].auto /\ run'[i].occ = run[i].occ
            /\ run'[i].st = run[i].st /\ run'[i].at = "launch"
            /\ run'[i].launched = run[i].launched + 1
  BY CarryFact
<1>2. i # 0
  BY <1>0
<1>3. svc.cur # 0 => svc.cur \in DOMAIN run
  BY <1>0 DEF Sweeping, Position
<1>4. CASE Continues(run[i], run'[i]) /\ svc' = svc
  <2>1. \A j \in DOMAIN run : Continues(run[j], run'[j])
    BY <1>1, <1>4 DEF Continues
  <2>2. SweepStays /\ clock <= clock'
    BY <1>0, <1>1, <1>4 DEF SweepStays
  <2> QED BY <1>1, <2>1, <2>2, ContinuingKeeps
<1>5. CASE /\ Continues(run[i], run'[i]) /\ run'[i].at # "precheck" /\ Awaited(i)
           /\ \/ run[i].st = "deleted" /\ SweepEnds
              \/ /\ svc'.at = "advance" /\ svc'.now = svc.now
                 /\ svc'.todo = svc.todo /\ svc'.cur = svc.cur
  <2>1. \A j \in DOMAIN run :
           /\ run'[j].auto = run[j].auto /\ run'[j].occ = run[j].occ
           /\ run'[j].launched = run[j].launched
           /\ run'[j].st # "deleted" => run[j].st # "deleted"
           /\ run'[j].at = "precheck" => run[j].at = "precheck" /\ j # i
    BY <1>1, <1>5 DEF Continues
  <2>2. svc.at = "wait" /\ svc.cur = i
    BY <1>5 DEF Awaited
  <2>3. Position' /\ Plans'
    BY <1>1, <1>5, <2>2 DEF Sweeping, Position, Plans, SweepEnds
  <2>4. Past'
    BY <1>1, <1>5, <2>1, <2>2 DEF Sweeping, Past, SweepEnds
  <2>5. Listed' /\ Current'
    BY <1>1, <1>5, <2>1, <2>2 DEF Sweeping, Listed, Current, SweepEnds
  <2>6. LaunchedOnce' /\ OneRunEach'
    BY <1>1, <2>1, <2>2 DEF Launching, LaunchedOnce, OneRunEach
  <2>7. NotAgain'
    BY <1>1, <1>5, <2>1, <2>2 DEF Launching, NotAgain, SweepEnds
  <2>8. NothingSkipped'
    BY <1>1, <2>1 DEF NothingSkipped
  <2> QED BY <1>1, <2>3, <2>4, <2>5, <2>6, <2>7, <2>8 DEF Sweeping, Launching
<1>6. CASE /\ run[i].at = "precheck" /\ svc' = svc
           /\ run'[i].auto = run[i].auto /\ run'[i].occ = run[i].occ
           /\ run'[i].st = run[i].st /\ run'[i].at = "launch"
           /\ run'[i].launched = run[i].launched + 1
  <2>1. run'[i].launched = 1 /\ svc.cur = i /\ svc.at = "wait"
    BY <1>6 DEF Launching, LaunchedOnce
  <2>2. \A j \in DOMAIN run :
           /\ run'[j].auto = run[j].auto /\ run'[j].occ = run[j].occ /\ run'[j].st = run[j].st
           /\ run'[j].launched = IF j = i THEN 1 ELSE run[j].launched
           /\ run'[j].at = "precheck" => run[j].at = "precheck"
    BY <1>1, <1>6, <2>1
  <2>3. Position' /\ Plans'
    BY <1>1, <1>6 DEF Sweeping, Position, Plans
  <2>4. Past'
    BY <1>1, <1>6, <2>2 DEF Sweeping, Past
  <2>5. Listed' /\ Current'
    BY <1>1, <1>3, <1>6, <2>2 DEF Sweeping, Listed, Current
  <2>6. LaunchedOnce' /\ OneRunEach'
    BY <1>1, <1>6, <2>2 DEF Launching, LaunchedOnce, OneRunEach
  <2>7. \A d \in svc.todo : d.id # run[i].auto
    BY <1>2, <2>1 DEF Sweeping, Listed
  <2>8. NotAgain'
    BY <1>1, <1>6, <2>1, <2>2, <2>7 DEF Launching, NotAgain
  <2>9. NothingSkipped'
    BY <1>1, <2>2 DEF NothingSkipped
  <2> QED BY <1>1, <2>3, <2>4, <2>5, <2>6, <2>8, <2>9 DEF Sweeping, Launching
<1> QED BY <1>1, <1>4, <1>5, <1>6 DEF ResumesFrom

\* A crash keeps the invariant: what was launched and not advanced counts afresh.
LEMMA CrashKeeps ==
    ASSUME TypeOK, Sweeping, Launching, NothingSkipped, Crash
    PROVE  TypeOK' /\ Sweeping' /\ Launching' /\ NothingSkipped'
<1>1. /\ TypeOK' /\ UNCHANGED <<clock, auto>> /\ SweepEnds
      /\ DOMAIN run' = DOMAIN run
      /\ \A i \in DOMAIN run :
            /\ run'[i].auto = run[i].auto /\ run'[i].occ = run[i].occ
            /\ run[i].st = "deleted" => run'[i].st = "deleted"
            /\ run'[i].at # "precheck"
            /\ run'[i].launched = IF i = svc.cur THEN 0 ELSE run[i].launched
  BY CrashFact
<1>2. Position' /\ Plans'
  BY <1>1 DEF Sweeping, Position, Plans, SweepEnds
<1>3. Past'
  BY <1>1 DEF Sweeping, Past, SweepEnds
<1>4. Listed' /\ Current'
  BY <1>1 DEF Listed, Current, SweepEnds
<1>5. LaunchedOnce' /\ OneRunEach'
  BY <1>1 DEF Launching, LaunchedOnce, OneRunEach
<1>6. NotAgain'
  BY <1>1 DEF Launching, NotAgain, SweepEnds
<1>7. NothingSkipped'
  BY <1>1 DEF NothingSkipped
<1> QED BY <1>1, <1>2, <1>3, <1>4, <1>5, <1>6, <1>7 DEF Sweeping, Launching

\* An evaluation keeps the invariant: the run it takes up has not been launched, for a
\* launched one is behind what the sweep still has to evaluate.
LEMMA EvaluateKeeps ==
    ASSUME TypeOK, Sweeping, Launching, NothingSkipped, Evaluate
    PROVE  TypeOK' /\ Sweeping' /\ Launching' /\ NothingSkipped'
<1>1. /\ TypeOK' /\ UNCHANGED <<clock, auto>> /\ svc.at = "sync"
      /\ \E d \in svc.todo, i \in DOMAIN run' :
            /\ DOMAIN run' = DOMAIN run \cup {i}
            /\ \A j \in DOMAIN run : j # i => run'[j] = run[j]
            /\ \/ /\ i \in RunOf(d.id, LatestBy(d.sched, svc.now))
                  /\ EvaluatesTo(d, i, run[i].launched)
               \/ /\ i \notin DOMAIN run /\ RunOf(d.id, LatestBy(d.sched, svc.now)) = {}
                  /\ EvaluatesTo(d, i, 0)
  BY EvaluateFact
<1>2. PICK d \in svc.todo, i \in DOMAIN run' :
        /\ DOMAIN run' = DOMAIN run \cup {i}
        /\ \A j \in DOMAIN run : j # i => run'[j] = run[j]
        /\ \/ /\ i \in RunOf(d.id, LatestBy(d.sched, svc.now))
              /\ EvaluatesTo(d, i, run[i].launched)
           \/ /\ i \notin DOMAIN run /\ RunOf(d.id, LatestBy(d.sched, svc.now)) = {}
              /\ EvaluatesTo(d, i, 0)
  BY <1>1
<1> DEFINE o == LatestBy(d.sched, svc.now)
           old == RunOf(d.id, o)
<1>3. /\ clock \in Nat /\ svc.now \in Nat /\ d.id \in Automation
      /\ o \in Nat /\ o <= svc.now
      /\ DOMAIN run = 1 .. Len(run) /\ Len(run) \in Nat
      /\ \A j \in DOMAIN run : run[j].occ \in Nat /\ run[j].launched \in Nat
      /\ DOMAIN run' = 1 .. Len(run') /\ Len(run') \in Nat
  <2>1. DOMAIN run' = 1 .. Len(run') /\ Len(run') \in Nat
    <3>1. run' \in Seq(RunType')
      BY <1>1 DEF TypeOK
    <3> QED BY <3>1
  <2>2. d.sched \in SUBSET (1 .. Horizon) /\ svc.now \in 0 .. Horizon
    BY FieldTypes
  <2>3. o \in Nat /\ o <= svc.now
    BY <2>2, LatestByFact
  <2> HIDE DEF o
  <2> QED BY <2>1, <2>3, FieldTypes
<1>4. svc.cur = 0 /\ svc.now <= clock /\ \A j \in DOMAIN run : run[j].at # "precheck"
  BY <1>1 DEF Sweeping, Position, Launching, LaunchedOnce
<1>5. \A j : j \in old <=> /\ j \in DOMAIN run /\ run[j].auto = d.id /\ run[j].occ = o
                           /\ run[j].st # "deleted"
  BY DEF RunOf
<1>6. /\ auto[d.id].life # "new" /\ 1 <= o
      /\ \A e \in svc.todo : d.id = e.id => d = e
      /\ auto[d.id].life = "live" => auto[d.id].sched = d.sched \/ svc.now <= auto[d.id].since
  BY DEF Sweeping, Listed
<1>7. i \in old => run[i].launched = 0
  <2> SUFFICES ASSUME i \in old, 1 <= run[i].launched PROVE FALSE
    BY <1>3, <1>5
  <2>1. run[i].occ = o /\ o # Manual
    BY <1>3, <1>5, <1>6 DEF Manual
  <2>2. run[i].occ < o
    BY <1>5, <2>1 DEF Launching, NotAgain
  <2> QED BY <1>3, <2>1, <2>2
<1>8. EvaluatesTo(d, i, 0)
  BY <1>2, <1>7
<1>9. /\ run'[i].auto = d.id /\ run'[i].occ = o /\ run'[i].launched <= 1
      /\ \/ SweepEnds /\ run'[i].launched = 0 /\ run'[i].at # "precheck"
         \/ /\ svc'.now = svc.now /\ svc'.todo = svc.todo \ {d} /\ svc'.cur = i
            /\ svc'.at \in {"wait", "advance"}
            /\ run'[i].at = "precheck" => run'[i].launched = 0 /\ svc'.at = "wait"
  BY <1>4, <1>8 DEF EvaluatesTo
<1>10. i \notin DOMAIN run => old = {}
  BY <1>2, <1>5
<1>11. i \in DOMAIN run => i \in old
  BY <1>2
<1>12. i # 0
  BY <1>3
<1> HIDE DEF o, old
<1>13. Position' /\ Plans'
  BY <1>1, <1>3, <1>4, <1>9, <1>12 DEF Sweeping, Position, Plans, SweepEnds
<1>14. Past'
  BY <1>1, <1>2, <1>3, <1>4, <1>6, <1>9 DEF Sweeping, Past, SweepEnds
<1>15. Listed'
  BY <1>1, <1>6, <1>9 DEF Sweeping, Listed, SweepEnds
<1>16. Current'
  BY <1>1, <1>6, <1>9 DEF Current, SweepEnds, o
<1>17. LaunchedOnce'
  BY <1>2, <1>4, <1>9 DEF Launching, LaunchedOnce
<1>18. NotAgain'
  <2> SUFFICES ASSUME NEW j \in DOMAIN run', 1 <= run'[j].launched, run'[j].occ # Manual,
                      run'[j].st # "deleted"
               PROVE  /\ \/ auto[run'[j].auto].life # "live" \/ svc'.cur = j
                         \/ run'[j].occ < auto[run'[j].auto].next
                      /\ \A e \in svc'.todo :
                            e.id = run'[j].auto => run'[j].occ < LatestBy(e.sched, svc'.now)
    BY <1>1 DEF NotAgain
  <2>1. CASE j = i
    BY <1>6, <1>9, <2>1 DEF SweepEnds
  <2>2. CASE j # i
    <3>1. j \in DOMAIN run /\ run'[j] = run[j] /\ j # 0
      BY <1>2, <1>3, <2>2
    <3>2. /\ auto[run[j].auto].life # "live" \/ run[j].occ < auto[run[j].auto].next
          /\ \A e \in svc.todo : e.id = run[j].auto => run[j].occ < LatestBy(e.sched, svc.now)
      BY <1>4, <3>1 DEF Launching, NotAgain
    <3> QED BY <1>9, <3>1, <3>2 DEF SweepEnds
  <2> QED BY <2>1, <2>2
<1>19. OneRunEach'
  <2>1. ASSUME NEW k \in DOMAIN run, k # i, run[k].auto = d.id, run[k].occ = o, o # Manual,
               run[k].st # "deleted"
        PROVE  FALSE
    <3>1. k \in old /\ i \in old
      BY <1>5, <1>10, <1>11, <2>1
    <3> QED BY <1>5, <2>1, <3>1 DEF Launching, OneRunEach
  <2> SUFFICES ASSUME NEW j \in DOMAIN run', NEW k \in DOMAIN run',
                      run'[j].auto = run'[k].auto, run'[j].occ = run'[k].occ,
                      run'[j].occ # Manual, run'[j].st # "deleted", run'[k].st # "deleted",
                      j # k
               PROVE  FALSE
    BY DEF OneRunEach
  <2>2. CASE j = i
    BY <1>2, <1>9, <2>1, <2>2
  <2>3. CASE k = i
    BY <1>2, <1>9, <2>1, <2>3
  <2>4. CASE j # i /\ k # i
    BY <1>2, <2>4 DEF Launching, OneRunEach
  <2> QED BY <2>2, <2>3, <2>4
<1>20. NothingSkipped'
  <2>1. \A j \in DOMAIN run : /\ j \in DOMAIN run' /\ run'[j].auto = run[j].auto
                              /\ run'[j].occ = run[j].occ
    BY <1>2, <1>5, <1>9, <1>11
  <2> QED BY <1>1, <2>1 DEF NothingSkipped
<1> QED BY <1>1, <1>13, <1>14, <1>15, <1>16, <1>17, <1>18, <1>19, <1>20 DEF Sweeping, Launching

-----------------------------------------------------------------------------
(***************************************************************************)
(* The theorems.                                                           *)
(***************************************************************************)

\* Every step keeps the invariant.
LEMMA NextKeeps ==
    ASSUME TypeOK, Sweeping, Launching, NothingSkipped, [Next]_vars
    PROVE  TypeOK' /\ Sweeping' /\ Launching' /\ NothingSkipped'
<1>1. ASSUME NEW a \in Automation,
             Create(a) \/ Toggle(a) \/ Reschedule(a) \/ Delete(a) \/ RunNow(a)
      PROVE  TypeOK' /\ Sweeping' /\ Launching' /\ NothingSkipped'
  BY <1>1, EditKeeps, DeleteKeeps, RunNowKeeps
<1>2. ASSUME NEW i \in DOMAIN run, Carry(i)
      PROVE  TypeOK' /\ Sweeping' /\ Launching' /\ NothingSkipped'
  BY <1>2, CarryKeeps
<1>3. CASE Service
  BY <1>3, SweepKeeps, EvaluateKeeps, AdvanceKeeps DEF Service
<1>4. CASE Surroundings
  BY <1>4, SurroundingsFact, ContinuingKeeps
<1>5. CASE Crash
  BY <1>5, CrashKeeps
<1>6. CASE UNCHANGED vars
  <2>1. UNCHANGED <<clock, auto, run, svc, left>> /\ clock \in Nat
    BY <1>6, FieldTypes DEF vars
  <2>2. TypeOK' /\ SweepStays /\ clock <= clock'
    BY <2>1 DEF TypeOK, SweepStays
  <2>3. \A i \in DOMAIN run : Continues(run[i], run'[i])
    BY <2>1 DEF Continues
  <2> QED BY <2>1, <2>2, <2>3, ContinuingKeeps
<1> QED BY <1>1, <1>2, <1>3, <1>4, <1>5, <1>6 DEF Next, Surroundings

\* The invariant holds throughout.
THEOREM Invariance == Spec => [](TypeOK /\ Sweeping /\ Launching /\ NothingSkipped)
<1> DEFINE Inv == TypeOK /\ Sweeping /\ Launching /\ NothingSkipped
<1>1. Init => Inv
  BY InitFact
<1>2. Inv /\ [Next]_vars => Inv'
  BY NextKeeps
<1> QED BY <1>1, <1>2, PTL DEF Spec

\* The store, the runs and the service keep their types.
THEOREM TypeCorrect == Spec => []TypeOK
BY Invariance, PTL

\* However sweeps, edits, windows and crashes interleave, createAutomationRun makes one run
\* of an occurrence, and it is handed to an agent once (unless it is also run by hand in
\* the millisecond it is scheduled for, see RunNow).
THEOREM OccurrencesLaunchOnce == Spec => []OccurrenceLaunchedOnce
<1>1. Launching => OccurrenceLaunchedOnce
  BY DEF Launching, LaunchedOnce, OneRunEach, OccurrenceLaunchedOnce
<1> QED BY <1>1, Invariance, PTL

\* advanceAutomationNextRun never passes an occurrence that has no run and no later one.
THEOREM NoneSkipped == Spec => []NothingSkipped
BY Invariance, PTL

=============================================================================
