------------------------- MODULE RelayStreamsProofs -------------------------
(***************************************************************************)
(* Proofs about the file reads over the relay, for any set of files, any   *)
(* size, any number of connections and any bound of the registry.          *)
(***************************************************************************)
EXTENDS RelayStreams, FiniteSetTheorems, WellFoundedInduction, TLAPS

-----------------------------------------------------------------------------
(***************************************************************************)
(* The inductive invariant.                                                *)
(***************************************************************************)

\* The request id, once given out on the connection, was given out for the file.
Yours(c, id, file) ==
    /\ id < conn[c].nextId
    /\ \A r \in Read : (read[r].st = "requested" /\ read[r].conn = c /\ read[r].id = id) => r = file

\* The relay opened the stream for the file.
Belongs(s, file) == s \in 1 .. Len(stream) /\ stream[s].file = file

\* Requests on their way and in the relay's hands.
Asked ==
    /\ \A c \in Conns : \A f \in ToSet(up[c]) : f.kind = "readFileStream" => Yours(c, f.id, f.file)
    /\ \A j \in job : Yours(j.conn, j.id, j.file)

\* What the relay says to the client on the connection names the file it is about.
Genuine(c, f) ==
    /\ f.kind \in {"metadata", "error"} => Yours(c, f.id, f.file)
    /\ f.kind = "metadata" /\ f.n # 0 => Belongs(f.n, f.file)
    /\ f.kind \notin {"metadata", "error"} => Belongs(f.id, f.file)

Answers == \A c \in Conns : \A f \in ToSet(down[c]) : Genuine(c, f)

\* A reader's connection was opened, and numbered the request.
Placed(rec) ==
    /\ rec.st # "idle" => rec.conn \in Conns /\ conn[rec.conn].mux # "none"
    /\ rec.st = "requested" => rec.id < conn[rec.conn].nextId

\* A reader is bound to a stream of its own file, of which it has collected the first chunks,
\* and all of them when it is done.
Collects(r, rec) ==
    /\ rec.st \in {"resolved", "streaming", "ok"} /\ rec.stream # 0 => Belongs(rec.stream, r)
    /\ \A k \in 1 .. Len(rec.got) : rec.got[k] = <<r, k - 1>>
    /\ rec.st = "ok" /\ rec.stream # 0 => Len(rec.got) = Size
    /\ \A f \in ToSet(rec.queue) : Belongs(f.id, f.file)

Readers == \A r \in Read : Placed(read[r]) /\ Collects(r, read[r])

\* A connection not opened yet has no handlers.
Unopened == \A c \in Conns : conn[c].mux = "none" => conn[c].hooks = <<>>

IInv == TypeOK /\ Asked /\ Answers /\ Readers /\ Unopened /\ HandlersMatch

-----------------------------------------------------------------------------
(***************************************************************************)
(* Folds over sequences.  MapThenFoldSet is a recursive function on the    *)
(* subsets of a sequence's domain; the lemmas are about a function F in    *)
(* place of its operator.                                                  *)
(***************************************************************************)

\* A set of numbers that has a member has a least one.
LEMMA LeastMember ==
    ASSUME NEW S \in SUBSET Nat, S # {}
    PROVE  \E n \in S : \A m \in S : n <= m
<1> DEFINE R == OpToRel(<, Nat)
<1>1. IsWellFoundedOn(R, Nat)
  BY NatLessThanWellFounded
<1>2. \A x, y \in Nat : y < x => <<y, x>> \in R
  BY DEF OpToRel
<1> HIDE DEF R
<1>3. PICK x \in S : \A y \in S : ~(<<y, x>> \in R)
  BY <1>1, WFMin
<1>4. \A y \in S : x <= y
  <2> TAKE y \in S
  <2>1. ~(y < x)
    BY <1>2, <1>3
  <2> QED BY <2>1
<1> QED BY <1>4

\* A set of numbers that has 0 and, with a number below n, the next one, has n.
LEMMA CountUp ==
    ASSUME NEW n \in Nat, NEW S, 0 \in S, \A k \in 0 .. n : k # n /\ k \in S => k + 1 \in S
    PROVE  \A k \in 0 .. n : k \in S
<1> DEFINE Bad == {k \in 0 .. n : k \notin S}
<1> SUFFICES ASSUME Bad # {} PROVE FALSE
  OBVIOUS
<1>1. PICK k \in Bad : \A m \in Bad : k <= m
  <2>1. Bad \in SUBSET Nat
    OBVIOUS
  <2> HIDE DEF Bad
  <2> QED BY <2>1, LeastMember
<1>2. k # 0 /\ k - 1 \in 0 .. n /\ k - 1 \notin Bad /\ k - 1 # n
  BY <1>1
<1>3. k - 1 + 1 \in S
  BY <1>2
<1> QED BY <1>1, <1>3

LEMMA TopMax ==
    ASSUME NEW k \in Nat \ {0}, NEW t \in SUBSET (1 .. k), k \in t
    PROVE  Max(t) = k
<1>1. \A y \in t : k >= y
  OBVIOUS
<1>2. \A x \in t : (\A y \in t : x >= y) => x = k
  OBVIOUS
<1> QED BY <1>1, <1>2 DEF Max

\* g is the fold of F, from base on, over every subset of 1 .. k.
Folds(g, F, base, k) ==
    \A t \in SUBSET (1 .. k) :
        g[t] = IF t = {} THEN base ELSE F[<<g[t \ {Max(t)}], Max(t)>>]

LEMMA FoldExists ==
    ASSUME NEW n \in Nat, NEW S, NEW base \in S, NEW F \in [S \X (1 .. n) -> S]
    PROVE  \E g \in [SUBSET (1 .. n) -> S] : Folds(g, F, base, n)
<1> DEFINE Good == {k \in 0 .. n : \E g \in [SUBSET (1 .. k) -> S] : Folds(g, F, base, k)}
<1>1. 0 \in Good
  <2> DEFINE g == [t \in SUBSET (1 .. 0) |-> base]
  <2>1. g \in [SUBSET (1 .. 0) -> S] /\ Folds(g, F, base, 0)
    BY DEF Folds
  <2> QED BY <2>1
<1>2. ASSUME NEW k \in 0 .. n, k # n, k \in Good PROVE k + 1 \in Good
  <2>1. PICK h \in [SUBSET (1 .. k) -> S] : Folds(h, F, base, k)
    BY <1>2
  <2> DEFINE g == [t \in SUBSET (1 .. k + 1) |->
                     IF k + 1 \in t THEN F[<<h[t \ {k + 1}], k + 1>>] ELSE h[t]]
  <2>2. \A t \in SUBSET (1 .. k + 1) : t \ {k + 1} \in SUBSET (1 .. k)
    OBVIOUS
  <2>3. k + 1 \in 1 .. n
    BY <1>2
  <2>4. g \in [SUBSET (1 .. k + 1) -> S]
    BY <2>2, <2>3
  <2>5. ASSUME NEW t \in SUBSET (1 .. k + 1)
        PROVE  g[t] = IF t = {} THEN base ELSE F[<<g[t \ {Max(t)}], Max(t)>>]
    <3>1. CASE k + 1 \in t
      <4>1. Max(t) = k + 1
        BY <3>1, TopMax
      <4>2. t \ {k + 1} \in SUBSET (1 .. k + 1) /\ k + 1 \notin t \ {k + 1}
        OBVIOUS
      <4>3. g[t \ {k + 1}] = h[t \ {k + 1}]
        BY <4>2
      <4>4. g[t] = F[<<h[t \ {k + 1}], k + 1>>]
        BY <3>1
      <4> QED BY <3>1, <4>1, <4>3, <4>4
    <3>2. CASE k + 1 \notin t
      <4>1. t \in SUBSET (1 .. k) /\ t \ {Max(t)} \in SUBSET (1 .. k)
        BY <2>2, <3>2
      <4>2. \A u \in SUBSET (1 .. k) : u \in SUBSET (1 .. k + 1) /\ k + 1 \notin u
        OBVIOUS
      <4>3. g[t] = h[t] /\ g[t \ {Max(t)}] = h[t \ {Max(t)}]
        BY <4>1, <4>2
      <4> HIDE DEF g
      <4> QED BY <2>1, <4>1, <4>3 DEF Folds
    <3> QED BY <3>1, <3>2
  <2>6. Folds(g, F, base, k + 1)
    BY <2>5 DEF Folds
  <2> HIDE DEF g
  <2>7. k + 1 \in 0 .. n
    BY <1>2
  <2> QED BY <2>4, <2>6, <2>7
<1>3. n \in Good
  <2> HIDE DEF Good
  <2> QED BY <1>1, <1>2, CountUp
<1> QED BY <1>3

LEMMA MaxIsMember ==
    ASSUME NEW n \in Nat, NEW t \in SUBSET (1 .. n), t # {}
    PROVE  Max(t) \in t
<1> DEFINE Above == {m \in 0 .. n : \A y \in t : y <= m}
<1>1. PICK m \in Above : \A k \in Above : m <= k
  <2>1. n \in Above /\ Above \in SUBSET Nat
    OBVIOUS
  <2> HIDE DEF Above
  <2> QED BY <2>1, LeastMember
<1>2. m \in t
  <2> SUFFICES ASSUME m \notin t PROVE FALSE
    OBVIOUS
  <2>1. \A y \in t : y <= m - 1
    BY <1>1
  <2>2. m - 1 \in 0 .. n
    <3>1. PICK y \in t : TRUE
      OBVIOUS
    <3>2. y \in Nat /\ y >= 1 /\ y <= m - 1 /\ m \in 0 .. n
      BY <1>1, <2>1, <3>1
    <3> QED BY <3>2
  <2>3. m - 1 \in Above
    BY <2>1, <2>2
  <2>4. m \in Nat
    BY <1>1
  <2> QED BY <1>1, <2>3, <2>4
<1>3. \A y \in t : m >= y
  BY <1>1
<1> QED BY <1>2, <1>3 DEF Max

\* What holds of a fold's base and goes from one position to the next holds of the fold.
LEMMA FoldInduction ==
    ASSUME NEW n \in Nat, NEW g, NEW G, g[{}] \in G[0],
           \A k \in 1 .. n : g[1 .. k - 1] \in G[k - 1] => g[1 .. k] \in G[k]
    PROVE  g[1 .. n] \in G[n]
<1> DEFINE Good == {k \in 0 .. n : g[1 .. k] \in G[k]}
<1>1. 0 \in Good
  <2>1. 1 .. 0 = {}
    OBVIOUS
  <2> QED BY <2>1
<1>2. ASSUME NEW k \in 0 .. n, k # n, k \in Good PROVE k + 1 \in Good
  <2>1. k + 1 \in 1 .. n /\ k + 1 - 1 = k
    BY <1>2
  <2> QED BY <1>2, <2>1
<1>3. n \in Good
  <2> HIDE DEF Good
  <2>1. \A k \in 0 .. n : k \in Good
    BY <1>1, <1>2, CountUp
  <2> QED BY <2>1
<1> QED BY <1>3

-----------------------------------------------------------------------------
(***************************************************************************)
(* The members of a sequence.                                              *)
(***************************************************************************)

LEMMA SetOfNone == ToSet(<<>>) = {}
BY DEF ToSet

LEMMA SetOfOne == ASSUME NEW T, NEW x \in T PROVE <<x>> \in Seq(T) /\ ToSet(<<x>>) = {x}
BY DEF ToSet

LEMMA SetOfSeq == ASSUME NEW T, NEW s \in Seq(T) PROVE ToSet(s) \subseteq T
BY DEF ToSet

LEMMA SetOfAppend ==
    ASSUME NEW T, NEW s \in Seq(T), NEW x \in T
    PROVE  Append(s, x) \in Seq(T) /\ ToSet(Append(s, x)) = ToSet(s) \cup {x}
<1> DEFINE t == Append(s, x)
<1>1. t \in Seq(T) /\ DOMAIN t = 1 .. Len(s) + 1 /\ DOMAIN s = 1 .. Len(s)
  OBVIOUS
<1>2. t[Len(s) + 1] = x /\ \A i \in 1 .. Len(s) : t[i] = s[i]
  OBVIOUS
<1> HIDE DEF t
<1>3. ToSet(t) = ToSet(s) \cup {x}
  BY <1>1, <1>2 DEF ToSet
<1> QED BY <1>1, <1>3 DEF t

LEMMA SetOfConcat ==
    ASSUME NEW T, NEW s \in Seq(T), NEW t \in Seq(T)
    PROVE  s \o t \in Seq(T) /\ ToSet(s \o t) = ToSet(s) \cup ToSet(t)
<1> DEFINE u == s \o t
<1>1. u \in Seq(T) /\ DOMAIN u = 1 .. Len(s) + Len(t) /\ DOMAIN s = 1 .. Len(s)
      /\ DOMAIN t = 1 .. Len(t)
  OBVIOUS
<1>2. \A i \in 1 .. Len(s) : u[i] = s[i]
  OBVIOUS
<1>3. \A i \in 1 .. Len(t) : u[Len(s) + i] = t[i] /\ Len(s) + i \in 1 .. Len(s) + Len(t)
  OBVIOUS
<1>4. \A i \in 1 .. Len(s) + Len(t) : i \notin 1 .. Len(s) => i - Len(s) \in 1 .. Len(t)
                                                            /\ Len(s) + (i - Len(s)) = i
  OBVIOUS
<1> HIDE DEF u
<1>5. ToSet(u) \subseteq ToSet(s) \cup ToSet(t)
  <2> SUFFICES ASSUME NEW i \in 1 .. Len(s) + Len(t) PROVE u[i] \in ToSet(s) \cup ToSet(t)
    BY <1>1 DEF ToSet
  <2>1. CASE i \in 1 .. Len(s)
    BY <1>1, <1>2, <2>1 DEF ToSet
  <2>2. CASE i \notin 1 .. Len(s)
    <3>1. i - Len(s) \in 1 .. Len(t) /\ u[i] = t[i - Len(s)]
      BY <1>3, <1>4, <2>2
    <3> QED BY <1>1, <3>1 DEF ToSet
  <2> QED BY <2>1, <2>2
<1>6. ToSet(s) \subseteq ToSet(u)
  BY <1>1, <1>2 DEF ToSet
<1>7. ToSet(t) \subseteq ToSet(u)
  BY <1>1, <1>3 DEF ToSet
<1> QED BY <1>1, <1>5, <1>6, <1>7 DEF u

LEMMA SetOfTail ==
    ASSUME NEW T, NEW s \in Seq(T), s # <<>>
    PROVE  /\ Head(s) \in T /\ Head(s) \in ToSet(s)
           /\ Tail(s) \in Seq(T) /\ ToSet(Tail(s)) \subseteq ToSet(s)
<1>1. Head(s) = s[1] /\ 1 \in DOMAIN s /\ Tail(s) \in Seq(T)
  OBVIOUS
<1>2. \A i \in DOMAIN Tail(s) : i + 1 \in DOMAIN s /\ Tail(s)[i] = s[i + 1]
  OBVIOUS
<1> QED BY <1>1, <1>2 DEF ToSet

-----------------------------------------------------------------------------
(***************************************************************************)
(* The operators of the client.                                            *)
(***************************************************************************)

LEMMA FrameIsTyped ==
    ASSUME NEW kind \in Kinds, NEW id \in Nat, NEW n \in Nat, NEW file \in Read
    PROVE  Frame(kind, id, n, file) \in FrameType
BY DEF Frame, FrameType

LEMMA FailedIsTyped ==
    ASSUME NEW rec \in ReaderType
    PROVE  /\ Failed(rec) \in ReaderType /\ Failed(rec).st = "failed"
           /\ Failed(rec).conn = rec.conn /\ Failed(rec).got = <<>> /\ Failed(rec).queue = <<>>
<1> DEFINE Got == Seq(Read \X Nat)
           Queue == Seq(FrameType)
<1>1. <<>> \in Got /\ <<>> \in Queue
  OBVIOUS
<1>2. 0 \in Nat /\ "failed" \in {"idle"} \cup Active \cup Settled
  BY DEF Settled
<1>3. rec \in [st : {"idle"} \cup Active \cup Settled, conn : 0 .. MaxConn, id : Nat, stream : Nat,
              got : Got, queue : Queue]
  BY DEF ReaderType
<1> HIDE DEF Got, Queue
<1>4. Failed(rec) \in [st : {"idle"} \cup Active \cup Settled, conn : 0 .. MaxConn, id : Nat,
                       stream : Nat, got : Got, queue : Queue]
  BY <1>1, <1>2, <1>3 DEF Failed
<1>5. Failed(rec) \in ReaderType
  BY <1>4 DEF ReaderType, Got, Queue
<1>6. /\ Failed(rec).st = "failed" /\ Failed(rec).conn = rec.conn
      /\ Failed(rec).got = <<>> /\ Failed(rec).queue = <<>>
  BY <1>3 DEF Failed
<1> QED BY <1>5, <1>6

\* Draining a queue keeps a set of readers that every frame of the queue keeps.
LEMMA DrainKeeps ==
    ASSUME NEW P, NEW rec \in P, NEW q \in Seq(FrameType),
           \A x \in P : \A f \in ToSet(q) : Accept(x, f) \in P
    PROVE  FoldLeft(Accept, rec, q) \in P
<1> DEFINE n == Len(q)
           F == [p \in P \X (1 .. n) |-> Accept(p[1], q[p[2]])]
           It(h) == h = [t \in SUBSET (DOMAIN q) |->
                          IF t = {} THEN rec ELSE Accept(h[t \ {Max(t)}], q[Max(t)])]
           iter == CHOOSE h : It(h)
<1>1. n \in Nat /\ DOMAIN q = 1 .. n
  OBVIOUS
<1>2. \A i \in 1 .. n : q[i] \in ToSet(q)
  BY <1>1 DEF ToSet
<1>3. F \in [P \X (1 .. n) -> P]
  BY <1>2
<1>4. \A x \in P : \A i \in 1 .. n : F[<<x, i>>] = Accept(x, q[i])
  OBVIOUS
<1>5. FoldLeft(Accept, rec, q) = iter[DOMAIN q]
  BY DEF FoldLeft, MapThenFoldSet
<1> HIDE DEF F, n
<1>6. PICK g \in [SUBSET (1 .. n) -> P] : Folds(g, F, rec, n)
  BY <1>1, <1>3, FoldExists
<1>7. ASSUME NEW t \in SUBSET (1 .. n)
      PROVE  g[t] = IF t = {} THEN rec ELSE Accept(g[t \ {Max(t)}], q[Max(t)])
  <2>1. CASE t = {}
    BY <1>6, <2>1 DEF Folds
  <2>2. CASE t # {}
    <3>1. Max(t) \in 1 .. n /\ g[t \ {Max(t)}] \in P
      BY <1>1, <1>6, <2>2, MaxIsMember
    <3>2. g[t] = F[<<g[t \ {Max(t)}], Max(t)>>]
      BY <1>6, <2>2 DEF Folds
    <3> QED BY <1>4, <2>2, <3>1, <3>2
  <2> QED BY <2>1, <2>2
<1>8. It(g)
  BY <1>1, <1>6, <1>7
<1>9. It(iter)
  <2> HIDE DEF It
  <2> QED BY <1>8
<1>10. iter[{}] = rec
  BY <1>9
<1>11. ASSUME NEW k \in 1 .. n, iter[1 .. k - 1] \in P PROVE iter[1 .. k] \in P
  <2>1. Max(1 .. k) = k /\ (1 .. k) \ {k} = 1 .. k - 1 /\ 1 .. k # {}
    <3>1. k \in Nat \ {0} /\ 1 .. k \in SUBSET (1 .. k) /\ k \in 1 .. k
      BY <1>1
    <3> QED BY <3>1, TopMax
  <2>2. 1 .. k \in SUBSET (1 .. n)
    BY <1>1
  <2>3. iter[1 .. k] = Accept(iter[1 .. k - 1], q[k])
    BY <1>1, <1>9, <2>1, <2>2
  <2> QED BY <1>2, <1>11, <2>3
<1> DEFINE G == [k \in 0 .. n |-> P]
<1>12. iter[1 .. n] \in G[n]
  <2>1. /\ iter[{}] \in G[0]
        /\ \A k \in 1 .. n : iter[1 .. k - 1] \in G[k - 1] => iter[1 .. k] \in G[k]
    <3>1. 0 \in 0 .. n /\ \A k \in 1 .. n : k \in 0 .. n /\ k - 1 \in 0 .. n
      BY <1>1
    <3> HIDE DEF iter
    <3> QED BY <1>10, <1>11, <3>1
  <2> HIDE DEF G, iter
  <2> QED BY <1>1, <2>1, FoldInduction
<1> QED BY <1>1, <1>5, <1>12

\* Without takes the readers out and leaves the others.
LEMMA WithoutKeeps ==
    ASSUME NEW hooks \in Seq(Read), NEW rs
    PROVE  Without(hooks, rs) \in Seq(Read) /\ ToSet(Without(hooks, rs)) = ToSet(hooks) \ rs
<1> DEFINE n == Len(hooks)
           Keep(kept, r) == IF r \in rs THEN kept ELSE Append(kept, r)
           F == [p \in Seq(Read) \X (1 .. n) |-> Keep(p[1], hooks[p[2]])]
           It(h) == h = [t \in SUBSET (DOMAIN hooks) |->
                          IF t = {} THEN <<>> ELSE Keep(h[t \ {Max(t)}], hooks[Max(t)])]
           iter == CHOOSE h : It(h)
<1>1. n \in Nat /\ DOMAIN hooks = 1 .. n
  OBVIOUS
<1>2. \A i \in 1 .. n : hooks[i] \in Read
  OBVIOUS
<1>3. F \in [Seq(Read) \X (1 .. n) -> Seq(Read)]
  BY <1>2
<1>4. \A x \in Seq(Read) : \A i \in 1 .. n : F[<<x, i>>] = Keep(x, hooks[i])
  OBVIOUS
<1>5. Without(hooks, rs) = iter[DOMAIN hooks]
  BY DEF Without, FoldLeft, MapThenFoldSet
<1> HIDE DEF F, n
<1>6. PICK g \in [SUBSET (1 .. n) -> Seq(Read)] : Folds(g, F, <<>>, n)
  <2>1. <<>> \in Seq(Read)
    OBVIOUS
  <2> QED BY <1>1, <1>3, <2>1, FoldExists
<1>7. ASSUME NEW t \in SUBSET (1 .. n)
      PROVE  g[t] = IF t = {} THEN <<>> ELSE Keep(g[t \ {Max(t)}], hooks[Max(t)])
  <2>1. CASE t = {}
    BY <1>6, <2>1 DEF Folds
  <2>2. CASE t # {}
    <3>1. Max(t) \in 1 .. n /\ g[t \ {Max(t)}] \in Seq(Read)
      BY <1>1, <1>6, <2>2, MaxIsMember
    <3>2. g[t] = F[<<g[t \ {Max(t)}], Max(t)>>]
      BY <1>6, <2>2 DEF Folds
    <3> HIDE DEF Keep
    <3> QED BY <1>4, <2>2, <3>1, <3>2
  <2> QED BY <2>1, <2>2
<1>8. It(g)
  <2> HIDE DEF Keep
  <2> QED BY <1>1, <1>6, <1>7
<1>9. It(iter)
  <2> HIDE DEF It
  <2> QED BY <1>8
<1>10. iter[{}] = <<>>
  BY <1>9
<1> DEFINE G == [k \in 0 .. n |-> {kept \in Seq(Read) : ToSet(kept) = {hooks[i] : i \in 1 .. k} \ rs}]
<1>11. <<>> \in G[0]
  BY <1>1, SetOfNone
<1>12. ASSUME NEW k \in 1 .. n, iter[1 .. k - 1] \in G[k - 1] PROVE iter[1 .. k] \in G[k]
  <2>1. Max(1 .. k) = k /\ (1 .. k) \ {k} = 1 .. k - 1 /\ 1 .. k # {}
    <3>1. k \in Nat \ {0} /\ 1 .. k \in SUBSET (1 .. k) /\ k \in 1 .. k
      BY <1>1
    <3> QED BY <3>1, TopMax
  <2>2. 1 .. k \in SUBSET (1 .. n) /\ k - 1 \in 0 .. n /\ k \in 0 .. n
    BY <1>1
  <2> DEFINE kept == iter[1 .. k - 1]
  <2>3. iter[1 .. k] = Keep(kept, hooks[k])
    <3> HIDE DEF Keep
    <3> QED BY <1>1, <1>9, <2>1, <2>2
  <2>4. kept \in Seq(Read) /\ ToSet(kept) = {hooks[i] : i \in 1 .. k - 1} \ rs
    <3> HIDE DEF iter
    <3> QED BY <1>12, <2>2
  <2>5. {hooks[i] : i \in 1 .. k} = {hooks[i] : i \in 1 .. k - 1} \cup {hooks[k]}
    <3>1. 1 .. k = (1 .. k - 1) \cup {k}
      BY <1>1
    <3> QED BY <3>1
  <2> HIDE DEF kept, iter
  <2>6. hooks[k] \in Read
    BY <1>2
  <2>7. Keep(kept, hooks[k]) \in Seq(Read)
    BY <2>4, <2>6
  <2>8. ToSet(Keep(kept, hooks[k])) = {hooks[i] : i \in 1 .. k} \ rs
    <3>1. CASE hooks[k] \in rs
      BY <2>4, <2>5, <3>1
    <3>2. CASE hooks[k] \notin rs
      <4>1. ToSet(Append(kept, hooks[k])) = ToSet(kept) \cup {hooks[k]}
        BY <2>4, <2>6, SetOfAppend
      <4> QED BY <2>4, <2>5, <3>2, <4>1
    <3> QED BY <3>1, <3>2
  <2> QED BY <2>2, <2>3, <2>7, <2>8
<1>13. iter[1 .. n] \in G[n]
  <2>1. iter[{}] \in G[0]
    BY <1>10, <1>11
  <2> HIDE DEF G, iter
  <2> QED BY <1>1, <1>12, <2>1, FoldInduction
<1>14. {hooks[i] : i \in 1 .. n} = ToSet(hooks)
  BY <1>1 DEF ToSet
<1>15. n \in 0 .. n
  BY <1>1
<1> HIDE DEF iter
<1> QED BY <1>1, <1>5, <1>13, <1>14, <1>15

LEMMA SetToSeqOfFew ==
    ASSUME NEW T, NEW S \in SUBSET T, \A x, y \in S : x = y
    PROVE  SetToSeq(S) \in Seq(T) /\ ToSet(SetToSeq(S)) \subseteq S
<1>1. \E f \in [1 .. Cardinality(S) -> S] : IsInjective(f)
  <2>1. CASE S = {}
    <3>1. Cardinality(S) = 0
      BY <2>1, FS_EmptySet
    <3> DEFINE f == [i \in 1 .. 0 |-> CHOOSE x : x \in S]
    <3>2. f \in [1 .. 0 -> S] /\ IsInjective(f)
      BY DEF IsInjective
    <3> QED BY <3>1, <3>2
  <2>2. CASE S # {}
    <3>1. PICK x : S = {x}
      BY <2>2
    <3>2. Cardinality(S) = 1
      BY <3>1, FS_Singleton
    <3> DEFINE f == [i \in 1 .. 1 |-> x]
    <3>3. f \in [1 .. 1 -> S] /\ IsInjective(f)
      BY <3>1 DEF IsInjective
    <3> QED BY <3>2, <3>3
  <2> QED BY <2>1, <2>2
<1>2. SetToSeq(S) \in [1 .. Cardinality(S) -> S]
  BY <1>1 DEF SetToSeq
<1>3. Cardinality(S) \in Nat
  <2>1. CASE S = {}
    BY <2>1, FS_EmptySet
  <2>2. CASE S # {}
    <3>1. PICK x : S = {x}
      BY <2>2
    <3>2. Cardinality(S) = 1
      BY <3>1, FS_Singleton
    <3> QED BY <3>2
  <2> QED BY <2>1, <2>2
<1>4. SetToSeq(S) \in Seq(T)
  BY <1>2, <1>3
<1>5. ToSet(SetToSeq(S)) \subseteq S
  BY <1>2 DEF ToSet
<1> QED BY <1>4, <1>5

\* A frame taken from the connection of a reader leaves it with the chunks of its own file.
LEMMA AcceptCollects ==
    ASSUME NEW r \in Read, NEW rec \in ReaderType, NEW f \in FrameType, Size \in Nat,
           Collects(r, rec), Belongs(f.id, f.file)
    PROVE  /\ Accept(rec, f) \in ReaderType /\ Collects(r, Accept(rec, f))
           /\ Accept(rec, f).conn = rec.conn
           /\ rec.st # "streaming" => Accept(rec, f) = rec
           /\ rec.st = "streaming" => Accept(rec, f).st \in {"streaming", "ok", "failed"}
           /\ Accept(rec, f) # rec => f.id = rec.stream /\ rec.st = "streaming"
<1> DEFINE new == Accept(rec, f)
<1>1. CASE rec.st # "streaming" \/ f.id # rec.stream
  <2>1. new = rec
    BY <1>1 DEF Accept
  <2> QED BY <2>1
<1>2. CASE rec.st = "streaming" /\ f.id = rec.stream
  <2>1. f.file = r
    BY <1>2 DEF Collects, Belongs
  <2>2. ASSUME new = Failed(rec) PROVE new \in ReaderType /\ Collects(r, new)
                                       /\ new.conn = rec.conn /\ new.st = "failed"
    <3>1. /\ new \in ReaderType /\ new.st = "failed" /\ new.conn = rec.conn
          /\ new.got = <<>> /\ new.queue = <<>>
      BY <2>2, FailedIsTyped
    <3> HIDE DEF new
    <3>2. Collects(r, new)
      BY <3>1, SetOfNone DEF Collects
    <3> QED BY <3>1, <3>2
  <2>3. CASE f.kind = "chunk" /\ f.n = Len(rec.got)
    <3>1. new = [rec EXCEPT !.got = Append(@, <<f.file, f.n>>)]
      BY <1>2, <2>3 DEF Accept
    <3> DEFINE got == Append(rec.got, <<f.file, f.n>>)
    <3>2. rec.got \in Seq(Read \X Nat) /\ <<f.file, f.n>> \in Read \X Nat
      BY DEF ReaderType, FrameType
    <3>3. got \in Seq(Read \X Nat) /\ Len(got) = Len(rec.got) + 1
      BY <3>2
    <3>4. ASSUME NEW k \in 1 .. Len(got) PROVE got[k] = <<r, k - 1>>
      <4>1. CASE k \in 1 .. Len(rec.got)
        <5>1. got[k] = rec.got[k]
          BY <3>2, <4>1
        <5> QED BY <4>1, <5>1 DEF Collects
      <4>2. CASE k = Len(rec.got) + 1
        <5>1. got[k] = <<f.file, f.n>> /\ k - 1 = Len(rec.got)
          BY <3>2, <4>2
        <5> QED BY <2>1, <2>3, <5>1
      <4> QED BY <3>2, <3>3, <4>1, <4>2
    <3> HIDE DEF got
    <3>5. new = [rec EXCEPT !.got = got]
      BY <3>1 DEF got
    <3> HIDE DEF new
    <3>6. /\ new.got = got /\ new.st = rec.st /\ new.conn = rec.conn /\ new.stream = rec.stream
          /\ new.queue = rec.queue /\ new \in ReaderType
      BY <3>3, <3>5 DEF ReaderType
    <3>7. Collects(r, new)
      BY <1>2, <3>4, <3>6 DEF Collects
    <3> QED BY <1>2, <3>6, <3>7 DEF new
  <2>4. CASE f.kind = "end" /\ Len(rec.got) = Size
    <3>1. new = [rec EXCEPT !.st = "ok"]
      BY <1>2, <2>4 DEF Accept
    <3> HIDE DEF new
    <3>2. /\ new.got = rec.got /\ new.st = "ok" /\ new.conn = rec.conn /\ new.stream = rec.stream
          /\ new.queue = rec.queue /\ new \in ReaderType
      BY <3>1 DEF ReaderType, Settled
    <3>3. Collects(r, new)
      BY <1>2, <2>4, <3>2 DEF Collects
    <3> QED BY <1>2, <3>2, <3>3 DEF new
  <2>5. CASE ~(f.kind = "chunk" /\ f.n = Len(rec.got)) /\ ~(f.kind = "end" /\ Len(rec.got) = Size)
    <3>1. new = Failed(rec)
      BY <1>2, <2>5 DEF Accept
    <3> QED BY <1>2, <2>2, <3>1
  <2> QED BY <2>3, <2>4, <2>5
<1> QED BY <1>1, <1>2 DEF ReaderType

-----------------------------------------------------------------------------
(***************************************************************************)
(* What every step keeps.  A step only adds to what was given out: request *)
(* numbers go up, connections stay opened, streams keep their files, and a *)
(* reader that starts waiting does so under a number never used before.    *)
(***************************************************************************)
Numbers ==
    \A c \in Conns : /\ conn[c].nextId <= conn'[c].nextId
                     /\ conn[c].mux # "none" => conn'[c].mux # "none"

Registers ==
    /\ Len(stream) <= Len(stream')
    /\ \A s \in 1 .. Len(stream) : stream'[s].file = stream[s].file

Waits ==
    \A r \in Read : read'[r].st = "requested" =>
        \/ read[r].st = "requested" /\ read'[r].conn = read[r].conn /\ read'[r].id = read[r].id
        \/ read'[r].id >= conn[read'[r].conn].nextId

LEMMA YoursKept ==
    ASSUME TypeOK, TypeOK', Numbers, Waits,
           NEW c \in Conns, NEW id \in Nat, NEW file, Yours(c, id, file)
    PROVE  Yours(c, id, file)'
<1>1. conn[c].nextId \in Nat /\ conn'[c].nextId \in Nat
  BY DEF TypeOK, ConnType
<1>2. id < conn'[c].nextId
  BY <1>1 DEF Numbers, Yours
<1>3. ASSUME NEW r \in Read, read'[r].st = "requested", read'[r].conn = c, read'[r].id = id
      PROVE  r = file
  BY <1>1, <1>3 DEF Waits, Yours
<1> QED BY <1>2, <1>3 DEF Yours

LEMMA BelongsKept ==
    ASSUME TypeOK, TypeOK', Registers, NEW s, NEW file, Belongs(s, file)
    PROVE  Belongs(s, file)'
<1>1. Len(stream) \in Nat /\ Len(stream') \in Nat
  BY DEF TypeOK
<1> QED BY <1>1 DEF Registers, Belongs

LEMMA CollectsKept ==
    ASSUME TypeOK, TypeOK', Registers, NEW r, NEW rec, Collects(r, rec)
    PROVE  Collects(r, rec)'
BY BelongsKept DEF Collects

LEMMA PlacedKept ==
    ASSUME TypeOK, TypeOK', Numbers, NEW rec \in ReaderType, Placed(rec)
    PROVE  Placed(rec)'
<1>1. CASE rec.st = "idle"
  BY <1>1 DEF Placed
<1>2. CASE rec.st # "idle"
  <2>1. rec.conn \in Conns /\ conn[rec.conn].mux # "none"
    BY <1>2 DEF Placed
  <2>2. conn[rec.conn].nextId \in Nat /\ conn'[rec.conn].nextId \in Nat /\ rec.id \in Nat
    BY <2>1 DEF TypeOK, ConnType, ReaderType
  <2> QED BY <2>1, <2>2 DEF Placed, Numbers
<1> QED BY <1>1, <1>2

LEMMA AskedKept ==
    ASSUME TypeOK, TypeOK', Asked, Numbers, Waits,
           \A c \in Conns : \A f \in ToSet(up'[c]) :
             f.kind = "readFileStream" => f \in ToSet(up[c]) \/ Yours(c, f.id, f.file)',
           \A j \in job' : Yours(j.conn, j.id, j.file)
    PROVE  Asked'
<1>1. ASSUME NEW c \in Conns, NEW f \in ToSet(up'[c]), f.kind = "readFileStream"
      PROVE  Yours(c, f.id, f.file)'
  <2>1. f \in FrameType
    <3>1. up'[c] \in Seq(FrameType)
      BY DEF TypeOK
    <3> QED BY <3>1, SetOfSeq
  <2>2. CASE f \in ToSet(up[c])
    <3>1. f.id \in Nat /\ Yours(c, f.id, f.file)
      BY <1>1, <2>1, <2>2 DEF Asked, FrameType
    <3> QED BY <3>1, YoursKept
  <2> QED BY <1>1, <2>2
<1>2. ASSUME NEW j \in job' PROVE Yours(j.conn, j.id, j.file)'
  <2>1. j.conn \in Conns /\ j.id \in Nat
    BY DEF TypeOK, JobType
  <2> QED BY <2>1, YoursKept
<1> QED BY <1>1, <1>2 DEF Asked

LEMMA GenuineKept ==
    ASSUME TypeOK, TypeOK', Numbers, Registers, Waits,
           NEW c \in Conns, NEW f \in FrameType, Genuine(c, f)
    PROVE  Genuine(c, f)'
<1>1. f.id \in Nat
  BY DEF FrameType
<1> QED BY <1>1, YoursKept, BelongsKept DEF Genuine

LEMMA AnswersKept ==
    ASSUME TypeOK, TypeOK', Answers, Numbers, Registers, Waits,
           \A c \in Conns : \A f \in ToSet(down'[c]) : f \in ToSet(down[c]) \/ Genuine(c, f)'
    PROVE  Answers'
<1> SUFFICES ASSUME NEW c \in Conns, NEW f \in ToSet(down'[c]) PROVE Genuine(c, f)'
  BY DEF Answers
<1>1. f \in FrameType
  <2>1. down'[c] \in Seq(FrameType)
    BY DEF TypeOK
  <2> QED BY <2>1, SetOfSeq
<1>2. CASE f \in ToSet(down[c])
  BY <1>1, <1>2, GenuineKept DEF Answers
<1> QED BY <1>2

LEMMA ReadersKept ==
    ASSUME TypeOK, TypeOK', Readers, Numbers, Registers,
           \A r \in Read : read'[r] = read[r] \/ (Placed(read[r]) /\ Collects(r, read[r]))'
    PROVE  Readers'
<1> SUFFICES ASSUME NEW r \in Read PROVE (Placed(read[r]) /\ Collects(r, read[r]))'
  BY DEF Readers
<1>1. CASE read'[r] = read[r]
  <2>1. PICK rec \in ReaderType : rec = read[r]
    BY DEF TypeOK
  <2>2. Placed(rec) /\ Collects(r, rec)
    BY <2>1 DEF Readers
  <2>3. Placed(rec)' /\ Collects(r, rec)'
    BY <2>2, PlacedKept, CollectsKept
  <2>4. rec = read'[r]
    BY <1>1, <2>1
  <2> QED BY <2>3, <2>4
<1> QED BY <1>1

-----------------------------------------------------------------------------
(***************************************************************************)
(* The client's steps.                                                     *)
(***************************************************************************)

LEMMA Sent ==
    ASSUME TypeOK, NEW c \in Conns, NEW frames \in Seq(FrameType), ToRelay(c, frames)
    PROVE  /\ up' \in [Conns -> Seq(FrameType)]
           /\ \A d \in Conns : ToSet(up'[d]) \subseteq ToSet(up[d]) \cup ToSet(frames)
           /\ \A d \in Conns : d # c => up'[d] = up[d]
<1>1. up \in [Conns -> Seq(FrameType)]
  BY DEF TypeOK
<1>2. CASE up' = up
  BY <1>1, <1>2
<1>3. CASE up' = [up EXCEPT ![c] = @ \o frames]
  <2>1. up[c] \in Seq(FrameType)
    BY <1>1
  <2>2. up[c] \o frames \in Seq(FrameType)
        /\ ToSet(up[c] \o frames) = ToSet(up[c]) \cup ToSet(frames)
    BY <2>1, SetOfConcat
  <2>3. \A d \in Conns : up'[d] = IF d = c THEN up[c] \o frames ELSE up[d]
    BY <1>1, <1>3
  <2>4. up' \in [Conns -> Seq(FrameType)]
    BY <1>1, <1>3, <2>2
  <2> QED BY <2>2, <2>3, <2>4
<1> QED BY <1>2, <1>3 DEF ToRelay

\* The reads rs come to their end, and with them their dispose handlers on the connection.
Unhooks(c, rs) ==
    /\ conn' \in [Conns -> ConnType]
    /\ \A d \in Conns :
         /\ conn'[d].mux = conn[d].mux /\ conn'[d].nextId = conn[d].nextId
         /\ ToSet(conn'[d].hooks) = IF d = c THEN ToSet(conn[d].hooks) \ rs ELSE ToSet(conn[d].hooks)
         /\ conn[d].hooks = <<>> => conn'[d].hooks = <<>>

LEMMA UnhookUnhooks ==
    ASSUME TypeOK, NEW c \in Conns, NEW rs, conn' = Unhook(rs, c)
    PROVE  Unhooks(c, rs)
<1> DEFINE left == Without(conn[c].hooks, rs)
<1>1. conn \in [Conns -> ConnType] /\ conn[c].hooks \in Seq(Read)
  BY DEF TypeOK, ConnType
<1>2. left \in Seq(Read) /\ ToSet(left) = ToSet(conn[c].hooks) \ rs
  BY <1>1, WithoutKeeps
<1>3. conn' = [conn EXCEPT ![c].hooks = left]
  BY DEF Unhook
<1>4. conn[c].hooks = <<>> => left = <<>>
  <2> SUFFICES ASSUME conn[c].hooks = <<>>, left # <<>> PROVE FALSE
    OBVIOUS
  <2>1. ToSet(left) = {}
    BY <1>2, SetOfNone
  <2> HIDE DEF left
  <2>2. Head(left) \in ToSet(left)
    BY <1>2, SetOfTail
  <2> QED BY <2>1, <2>2
<1> HIDE DEF left
<1>5. conn' \in [Conns -> ConnType]
  BY <1>1, <1>2, <1>3 DEF ConnType
<1>6. \A d \in Conns : /\ conn'[d].mux = conn[d].mux /\ conn'[d].nextId = conn[d].nextId
                       /\ conn'[d].hooks = IF d = c THEN left ELSE conn[d].hooks
  BY <1>1, <1>3 DEF ConnType
<1> QED BY <1>2, <1>4, <1>5, <1>6 DEF Unhooks

LEMMA SameUnhooks ==
    ASSUME TypeOK, NEW c \in Conns, conn' = conn
    PROVE  Unhooks(c, {})
BY DEF TypeOK, Unhooks

\* The reads of the connection that come to their end.
Ends(c) ==
    {r \in Read : read[r].conn = c /\ read[r].st \in Active /\ read'[r].st \notin Active}

\* A step of the client that takes readers of one connection forward, unhooks those that end and
\* asks for no file.
LEMMA ClientStep ==
    ASSUME IInv, NEW c \in Conns, UNCHANGED <<job, stream>>,
           read' \in [Read -> ReaderType], Unhooks(c, Ends(c)),
           up' \in [Conns -> Seq(FrameType)], down' \in [Conns -> Seq(FrameType)],
           \A d \in Conns : \A f \in ToSet(up'[d]) : f \in ToSet(up[d]) \/ f.kind # "readFileStream",
           \A d \in Conns : ToSet(down'[d]) \subseteq ToSet(down[d]),
           \A r \in Read : read'[r] # read[r] =>
             /\ read[r].conn = c /\ read[r].st \in Active
             /\ read'[r].conn = c
             /\ \/ read'[r].st \in {"resolved", "streaming", "ok", "failed"}
                \/ read'[r].st = "requested" /\ read[r].st = "requested" /\ read'[r].id = read[r].id
             /\ Collects(r, read'[r])
    PROVE  IInv'
<1>1. TypeOK'
  BY DEF IInv, TypeOK, Unhooks
<1>2. Numbers /\ Registers
  <2>1. \A d \in Conns : conn[d].nextId \in Nat
    BY DEF IInv, TypeOK, ConnType
  <2>2. Numbers
    <3> SUFFICES ASSUME NEW d \in Conns
                 PROVE  /\ conn[d].nextId <= conn'[d].nextId
                        /\ conn[d].mux # "none" => conn'[d].mux # "none"
      BY DEF Numbers
    <3>1. conn'[d].mux = conn[d].mux /\ conn'[d].nextId = conn[d].nextId
      BY DEF Unhooks
    <3> QED BY <2>1, <3>1
  <2>3. Registers
    <3>1. Len(stream) \in Nat /\ stream' = stream
      BY DEF IInv, TypeOK
    <3> QED BY <3>1 DEF Registers
  <2> QED BY <2>2, <2>3
<1>3. Waits
  BY DEF Waits
<1>4. Asked'
  <2>1. \A j \in job' : Yours(j.conn, j.id, j.file)
    BY DEF IInv, Asked
  <2>2. \A d \in Conns : \A f \in ToSet(up'[d]) : f.kind = "readFileStream" => f \in ToSet(up[d])
    OBVIOUS
  <2> QED BY <1>1, <1>2, <1>3, <2>1, <2>2, AskedKept DEF IInv
<1>5. Answers'
  BY <1>1, <1>2, <1>3, AnswersKept DEF IInv
<1>6. Readers'
  <2>1. ASSUME NEW r \in Read, read'[r] # read[r]
        PROVE  (Placed(read[r]) /\ Collects(r, read[r]))'
    <3>1. conn[c].mux # "none"
      BY <2>1 DEF IInv, Readers, Placed, Active
    <3>2. Placed(read[r])'
      <4>1. read'[r].st = "requested" => read'[r].id < conn'[c].nextId
        BY <2>1 DEF IInv, Readers, Placed, Unhooks
      <4> QED BY <1>2, <2>1, <3>1, <4>1 DEF Placed, Numbers
    <3>3. PICK rec : rec = read'[r]
      OBVIOUS
    <3>4. Collects(r, rec)'
      BY <1>1, <1>2, <2>1, <3>3, CollectsKept DEF IInv
    <3>5. Collects(r, read[r])'
      BY <3>3, <3>4
    <3> QED BY <3>2, <3>5
  <2> QED BY <1>1, <1>2, <2>1, ReadersKept DEF IInv
<1>7. Unopened'
  BY DEF IInv, Unopened, Unhooks
<1>8. HandlersMatch'
  <2> SUFFICES ASSUME NEW d \in Conns, conn'[d].mux = "up"
               PROVE  ToSet(conn'[d].hooks) = {r \in Read : read'[r].conn = d /\ read'[r].st \in Active}
    BY DEF HandlersMatch
  <2>1. ToSet(conn[d].hooks) = {r \in Read : read[r].conn = d /\ read[r].st \in Active}
    BY DEF Unhooks, IInv, HandlersMatch
  <2>2. CASE d # c
    <3>1. \A r \in Read : (read'[r].conn = d /\ read'[r].st \in Active)
                          <=> (read[r].conn = d /\ read[r].st \in Active)
      BY <2>2
    <3> QED BY <2>1, <2>2, <3>1 DEF Unhooks
  <2>3. CASE d = c
    <3>1. \A r \in Read : (read'[r].conn = c /\ read'[r].st \in Active)
                          <=> (read[r].conn = c /\ read[r].st \in Active /\ r \notin Ends(c))
      BY DEF Ends
    <3> QED BY <2>1, <2>3, <3>1 DEF Unhooks
  <2> QED BY <2>2, <2>3
<1> QED BY <1>1, <1>4, <1>5, <1>6, <1>7, <1>8 DEF IInv

LEMMA TimeoutKeeps ==
    ASSUME IInv, NEW r \in Read, Timeout(r)
    PROVE  IInv'
<1> DEFINE c == read[r].conn
           new == Failed(read[r])
           frames == <<Frame("cancel", read[r].id, 0, r)>>
<1>1. read[r] \in ReaderType /\ read[r].st = "requested" /\ c \in Conns /\ TypeOK
  BY DEF Timeout, IInv, TypeOK, Readers, Placed
<1>2. /\ new \in ReaderType /\ new.st = "failed" /\ new.conn = c
      /\ new.got = <<>> /\ new.queue = <<>>
  BY <1>1, FailedIsTyped
<1>3. Collects(r, new)
  <2> HIDE DEF new
  <2> QED BY <1>2, SetOfNone DEF Collects
<1>4. read' = [read EXCEPT ![r] = new] /\ ToRelay(c, frames) /\ conn' = Unhook({r}, c)
      /\ UNCHANGED <<down, job, stream>>
  BY DEF Timeout
<1>5. frames \in Seq(FrameType) /\ \A f \in ToSet(frames) : f.kind # "readFileStream"
  <2> DEFINE frame == Frame("cancel", read[r].id, 0, r)
  <2>1. frame \in FrameType /\ frame.kind # "readFileStream"
    BY <1>1, FrameIsTyped DEF Frame, Kinds, ReaderType
  <2> HIDE DEF frame
  <2>2. <<frame>> \in Seq(FrameType) /\ ToSet(<<frame>>) = {frame}
    BY <2>1, SetOfOne
  <2> QED BY <2>1, <2>2 DEF frame
<1> HIDE DEF c, new, frames
<1>6. /\ up' \in [Conns -> Seq(FrameType)]
      /\ \A d \in Conns : \A f \in ToSet(up'[d]) : f \in ToSet(up[d]) \/ f.kind # "readFileStream"
  BY <1>1, <1>4, <1>5, Sent
<1>7. read' \in [Read -> ReaderType]
  BY <1>1, <1>2, <1>4 DEF TypeOK
<1>8. read'[r] = new /\ \A q \in Read : q # r => read'[q] = read[q]
  BY <1>1, <1>4 DEF TypeOK
<1>9. Ends(c) = {r}
  BY <1>1, <1>2, <1>8 DEF Ends, Active, c
<1>10. Unhooks(c, Ends(c))
  BY <1>1, <1>4, <1>9, UnhookUnhooks
<1>11. down' \in [Conns -> Seq(FrameType)] /\ \A d \in Conns : ToSet(down'[d]) \subseteq ToSet(down[d])
  BY <1>1, <1>4 DEF TypeOK
<1>12. \A q \in Read : read'[q] # read[q] =>
             /\ read[q].conn = c /\ read[q].st \in Active
             /\ read'[q].conn = c
             /\ \/ read'[q].st \in {"resolved", "streaming", "ok", "failed"}
                \/ read'[q].st = "requested" /\ read[q].st = "requested" /\ read'[q].id = read[q].id
             /\ Collects(q, read'[q])
  BY <1>1, <1>2, <1>3, <1>8 DEF Active, c
<1> QED BY <1>1, <1>4, <1>6, <1>7, <1>10, <1>11, <1>12, ClientStep

\* An answer resolves or fails the request it is for.
LEMMA ResponseMoves ==
    ASSUME IInv, NEW c \in Conns, NEW f \in FrameType, Genuine(c, f),
           f.kind \in {"metadata", "error"}, NEW r \in Read
    PROVE  /\ Responded(c, f)[r] \in ReaderType
           /\ Responded(c, f)[r] # read[r] =>
                /\ read[r].conn = c /\ read[r].st = "requested" /\ Responded(c, f)[r].conn = c
                /\ Responded(c, f)[r].st \in {"resolved", "failed"}
                /\ Collects(r, Responded(c, f)[r])
<1> DEFINE new == Responded(c, f)[r]
<1>1. read[r] \in ReaderType /\ Collects(r, read[r])
  BY DEF IInv, TypeOK, Readers
<1>2. CASE ~(read[r].conn = c /\ read[r].st = "requested" /\ read[r].id = f.id)
  BY <1>1, <1>2 DEF Responded
<1>3. CASE read[r].conn = c /\ read[r].st = "requested" /\ read[r].id = f.id
  <2>1. CASE f.kind = "error"
    <3>1. new = Failed(read[r])
      BY <1>3, <2>1 DEF Responded
    <3>2. /\ new \in ReaderType /\ new.st = "failed" /\ new.conn = read[r].conn
          /\ new.got = <<>> /\ new.queue = <<>>
      BY <1>1, <3>1, FailedIsTyped
    <3> HIDE DEF new
    <3>3. Collects(r, new)
      BY <3>2, SetOfNone DEF Collects
    <3> QED BY <1>3, <3>2, <3>3 DEF new
  <2>2. CASE f.kind = "metadata"
    <3>1. new = [read[r] EXCEPT !.st = "resolved", !.stream = f.n]
      BY <1>3, <2>2 DEF Responded
    <3>2. f.n # 0 => Belongs(f.n, r)
      BY <1>3, <2>2 DEF Genuine, Yours
    <3> HIDE DEF new
    <3>3. /\ new \in ReaderType /\ new.st = "resolved" /\ new.stream = f.n
          /\ new.conn = read[r].conn /\ new.got = read[r].got /\ new.queue = read[r].queue
      BY <1>1, <3>1 DEF ReaderType, FrameType, Active
    <3>4. Collects(r, new)
      BY <1>1, <3>2, <3>3 DEF Collects
    <3> QED BY <1>3, <3>3, <3>4 DEF new
  <2> QED BY <2>1, <2>2
<1> QED BY <1>2, <1>3

\* A chunk, an end or an error waits in the queue or is taken by the reader of its stream.
LEMMA NoticeMoves ==
    ASSUME IInv, Size \in Nat, NEW c \in Conns, NEW f \in FrameType, Belongs(f.id, f.file),
           NEW r \in Read
    PROVE  /\ Notified(c, f)[r] \in ReaderType
           /\ Notified(c, f)[r] # read[r] =>
                /\ read[r].conn = c /\ read[r].st \in Active /\ Notified(c, f)[r].conn = c
                /\ \/ Notified(c, f)[r].st \in {"resolved", "streaming", "ok", "failed"}
                   \/ /\ Notified(c, f)[r].st = "requested" /\ read[r].st = "requested"
                      /\ Notified(c, f)[r].id = read[r].id
                /\ Notified(c, f)[r].st \in Settled => f.file = r
                /\ Collects(r, Notified(c, f)[r])
<1> DEFINE new == Notified(c, f)[r]
<1>1. read[r] \in ReaderType /\ Collects(r, read[r])
  BY DEF IInv, TypeOK, Readers
<1>2. CASE read[r].conn # c \/ read[r].st \notin Active
  BY <1>1, <1>2 DEF Notified
<1>3. CASE read[r].conn = c /\ read[r].st = "streaming"
  <2>1. new = Accept(read[r], f)
    BY <1>3 DEF Notified, Active
  <2> HIDE DEF new
  <2>2. /\ new \in ReaderType /\ Collects(r, new) /\ new.conn = c
        /\ new.st \in {"streaming", "ok", "failed"}
        /\ new # read[r] => f.id = read[r].stream
    BY <1>1, <1>3, <2>1, AcceptCollects
  <2>3. new # read[r] => f.file = r
    BY <1>1, <1>3, <2>2 DEF Collects, Belongs
  <2> QED BY <1>3, <2>2, <2>3 DEF new, Active
<1>4. CASE read[r].conn = c /\ read[r].st \in {"requested", "resolved"}
  <2> DEFINE queue == Append(read[r].queue, f)
  <2>1. new = [read[r] EXCEPT !.queue = queue]
    BY <1>4 DEF Notified, Active
  <2>2. read[r].queue \in Seq(FrameType)
    BY <1>1 DEF ReaderType
  <2>3. queue \in Seq(FrameType) /\ ToSet(queue) = ToSet(read[r].queue) \cup {f}
    BY <2>2, SetOfAppend
  <2> HIDE DEF new, queue
  <2>4. /\ new \in ReaderType /\ new.st = read[r].st /\ new.conn = c /\ new.id = read[r].id
        /\ new.stream = read[r].stream /\ new.got = read[r].got /\ new.queue = queue
    BY <1>1, <1>4, <2>1, <2>3 DEF ReaderType
  <2>5. Collects(r, new)
    BY <1>1, <2>3, <2>4 DEF Collects
  <2> QED BY <1>4, <2>4, <2>5 DEF new, Active, Settled
<1> QED BY <1>2, <1>3, <1>4 DEF Active

LEMMA ReceiveKeeps ==
    ASSUME IInv, Size \in Nat, NEW c \in Conns, Receive(c)
    PROVE  IInv'
<1> DEFINE f == Head(down[c])
           answer == f.kind \in {"metadata", "error"}
           new == IF answer THEN Responded(c, f) ELSE Notified(c, f)
           cancelled == {q \in EndsIn(new, c) : new[q].st = "failed" /\ read[q].st = "streaming"}
           frames == {Frame("cancelStream", read[q].stream, 0, q) : q \in cancelled}
<1>1. TypeOK /\ down[c] \in Seq(FrameType) /\ down[c] # <<>>
  BY DEF Receive, IInv, TypeOK
<1>2. f \in FrameType /\ f \in ToSet(down[c])
      /\ Tail(down[c]) \in Seq(FrameType) /\ ToSet(Tail(down[c])) \subseteq ToSet(down[c])
  BY <1>1, SetOfTail
<1>3. Genuine(c, f)
  BY <1>2 DEF IInv, Answers
<1>4. /\ read' = new /\ conn' = Unhook(EndsIn(new, c), c) /\ ToRelay(c, CancelFrames(new, c))
      /\ down' = [down EXCEPT ![c] = Tail(@)] /\ UNCHANGED <<job, stream>>
  BY DEF Receive
<1>5. CancelFrames(new, c) = SetToSeq(frames)
  BY DEF CancelFrames
<1> HIDE DEF f
<1>6. ASSUME NEW r \in Read
      PROVE  /\ new[r] \in ReaderType
             /\ new[r] # read[r] =>
                  /\ read[r].conn = c /\ read[r].st \in Active /\ new[r].conn = c
                  /\ \/ new[r].st \in {"resolved", "streaming", "ok", "failed"}
                     \/ new[r].st = "requested" /\ read[r].st = "requested" /\ new[r].id = read[r].id
                  /\ read[r].st = "streaming" /\ new[r].st = "failed" => f.file = r
                  /\ Collects(r, new[r])
  <2>1. CASE answer
    BY <1>2, <1>3, <2>1, ResponseMoves DEF Active
  <2>2. CASE ~answer
    BY <1>2, <1>3, <2>2, NoticeMoves DEF Genuine, Settled
  <2> QED BY <2>1, <2>2
<1>7. new = [r \in Read |-> new[r]]
  BY DEF Responded, Notified
<1> HIDE DEF new, answer
<1>8. \A q \in cancelled : q \in Read /\ q = f.file /\ read[q].stream \in Nat
  <2> SUFFICES ASSUME NEW q \in cancelled PROVE q \in Read /\ q = f.file /\ read[q].stream \in Nat
    OBVIOUS
  <2>1. q \in Read /\ new[q].st = "failed" /\ read[q].st = "streaming"
    BY DEF EndsIn
  <2>2. read[q].stream \in Nat
    BY <1>1, <2>1 DEF TypeOK, ReaderType
  <2> QED BY <1>6, <2>1, <2>2
<1>9. frames \in SUBSET FrameType /\ \A x, y \in frames : x = y
  <2>1. \A q \in cancelled : Frame("cancelStream", read[q].stream, 0, q) \in FrameType
    BY <1>8, FrameIsTyped DEF Kinds
  <2> HIDE DEF cancelled
  <2> QED BY <1>8, <2>1
<1>10. \A x \in frames : x.kind # "readFileStream"
  BY DEF Frame
<1> HIDE DEF frames
<1>11. SetToSeq(frames) \in Seq(FrameType) /\ \A x \in ToSet(SetToSeq(frames)) : x.kind # "readFileStream"
  BY <1>9, <1>10, SetToSeqOfFew
<1>12. /\ up' \in [Conns -> Seq(FrameType)]
       /\ \A d \in Conns : \A x \in ToSet(up'[d]) : x \in ToSet(up[d]) \/ x.kind # "readFileStream"
  BY <1>1, <1>4, <1>5, <1>11, Sent
<1>13. read' \in [Read -> ReaderType]
  BY <1>4, <1>6, <1>7
<1>14. Ends(c) = EndsIn(new, c)
  <2>1. \A r \in Read : new[r] = read[r] \/ new[r].st \in Active \/ new[r].st \in Settled
    BY <1>6 DEF Active, Settled
  <2>2. \A r \in Read : new[r].st \in Settled => new[r].st \notin Active
    BY DEF Active, Settled
  <2> QED BY <1>4, <2>1, <2>2 DEF Ends, EndsIn
<1>15. Unhooks(c, Ends(c))
  BY <1>1, <1>4, <1>14, UnhookUnhooks
<1>16. down' \in [Conns -> Seq(FrameType)] /\ \A d \in Conns : ToSet(down'[d]) \subseteq ToSet(down[d])
  BY <1>1, <1>2, <1>4 DEF TypeOK
<1> QED BY <1>4, <1>6, <1>12, <1>13, <1>15, <1>16, ClientStep

\* What the continuation makes of its reader.
LEMMA MetadataMoves ==
    ASSUME IInv, Size \in Nat, NEW r \in Read, OnMetadata(r)
    PROVE  /\ read' \in [Read -> ReaderType]
           /\ \A q \in Read : q # r => read'[q] = read[q]
           /\ read'[r].conn = read[r].conn /\ read'[r].st \in {"streaming", "ok", "failed"}
           /\ Collects(r, read'[r])
           /\ \/ up' = up
              \/ ToRelay(read[r].conn, <<Frame("cancelStream", read[r].stream, 0, r)>>)
              \/ ToRelay(read[r].conn, <<>>)
<1>1. /\ read \in [Read -> ReaderType] /\ read[r] \in ReaderType /\ read[r].st = "resolved"
      /\ Collects(r, read[r])
  BY DEF OnMetadata, IInv, TypeOK, Readers
<1>2. ASSUME NEW new \in ReaderType, read' = [read EXCEPT ![r] = new],
             new.conn = read[r].conn, new.st \in {"streaming", "ok", "failed"}, Collects(r, new)
      PROVE  /\ read' \in [Read -> ReaderType]
             /\ \A q \in Read : q # r => read'[q] = read[q]
             /\ read'[r].conn = read[r].conn /\ read'[r].st \in {"streaming", "ok", "failed"}
             /\ Collects(r, read'[r])
  <2>1. read'[r] = new
    BY <1>1, <1>2
  <2> QED BY <1>1, <1>2, <2>1
<1>3. CASE /\ read[r].stream = 0
           /\ read' = [read EXCEPT ![r].st = "ok", ![r].queue = <<>>]
           /\ UNCHANGED up
  <2> DEFINE new == [read[r] EXCEPT !.st = "ok", !.queue = <<>>]
             none == <<>>
  <2>1. none \in Seq(FrameType)
    OBVIOUS
  <2> HIDE DEF none
  <2>2. new = [read[r] EXCEPT !.st = "ok", !.queue = none]
    BY DEF none
  <2>3. read' = [read EXCEPT ![r] = new]
    BY <1>1, <1>3
  <2> HIDE DEF new
  <2>4. /\ new \in ReaderType /\ new.st = "ok" /\ new.conn = read[r].conn
        /\ new.stream = 0 /\ new.got = read[r].got /\ new.queue = none
    BY <1>1, <1>3, <2>1, <2>2 DEF ReaderType, Settled
  <2>5. Collects(r, new)
    BY <1>1, <2>4, SetOfNone DEF Collects, none
  <2> QED BY <1>2, <1>3, <2>3, <2>4, <2>5
<1>4. CASE /\ read' = [read EXCEPT ![r] = Failed(@)]
           /\ ToRelay(read[r].conn, <<Frame("cancelStream", read[r].stream, 0, r)>>)
  <2> DEFINE new == Failed(read[r])
  <2>1. /\ new \in ReaderType /\ new.st = "failed" /\ new.conn = read[r].conn
        /\ new.got = <<>> /\ new.queue = <<>>
    BY <1>1, FailedIsTyped
  <2>2. read' = [read EXCEPT ![r] = new]
    BY <1>1, <1>4
  <2> HIDE DEF new
  <2>3. Collects(r, new)
    BY <2>1, SetOfNone DEF Collects
  <2> QED BY <1>2, <1>4, <2>1, <2>2, <2>3
<1>5. CASE /\ read[r].stream # 0
           /\ read' = [read EXCEPT ![r] = FoldLeft(Accept, [read[r] EXCEPT !.st = "streaming",
                                                                           !.queue = <<>>],
                                                   read[r].queue)]
           /\ ToRelay(read[r].conn, IF read'[r].st = "failed"
                            THEN <<Frame("cancelStream", read[r].stream, 0, r)>> ELSE <<>>)
  <2> DEFINE none == <<>>
             start == [read[r] EXCEPT !.st = "streaming", !.queue = <<>>]
             queue == read[r].queue
             P == {x \in ReaderType : /\ Collects(r, x) /\ x.conn = read[r].conn
                                      /\ x.st \in {"streaming", "ok", "failed"}}
             new == FoldLeft(Accept, start, queue)
  <2>1. none \in Seq(FrameType)
    OBVIOUS
  <2> HIDE DEF none
  <2>2. start = [read[r] EXCEPT !.st = "streaming", !.queue = none]
    BY DEF none
  <2>3. read' = [read EXCEPT ![r] = new]
    BY <1>5
  <2>4. queue \in Seq(FrameType) /\ \A f \in ToSet(queue) : Belongs(f.id, f.file)
    BY <1>1 DEF ReaderType, Collects
  <2> HIDE DEF start, queue
  <2>5. /\ start \in ReaderType /\ start.st = "streaming" /\ start.conn = read[r].conn
        /\ start.stream = read[r].stream /\ start.got = read[r].got /\ start.queue = none
    BY <1>1, <2>1, <2>2 DEF ReaderType, Active
  <2>6. start \in P
    BY <1>1, <2>5, SetOfNone DEF Collects, none
  <2>7. ASSUME NEW x \in P, NEW f \in ToSet(queue) PROVE Accept(x, f) \in P
    <3>1. f \in FrameType /\ Belongs(f.id, f.file)
      BY <2>4, SetOfSeq
    <3> QED BY <2>7, <3>1, AcceptCollects
  <2>8. new \in P
    <3> HIDE DEF P
    <3> QED BY <2>4, <2>6, <2>7, DrainKeeps
  <2> HIDE DEF new
  <2> QED BY <1>2, <1>5, <2>3, <2>8
<1> QED BY <1>3, <1>4, <1>5 DEF OnMetadata

LEMMA OnMetadataKeeps ==
    ASSUME IInv, Size \in Nat, NEW r \in Read, OnMetadata(r)
    PROVE  IInv'
<1> DEFINE c == read[r].conn
           frame == Frame("cancelStream", read[r].stream, 0, r)
<1>1. read[r] \in ReaderType /\ read[r].st = "resolved" /\ c \in Conns /\ TypeOK
  BY DEF OnMetadata, IInv, TypeOK, Readers, Placed
<1>2. /\ conn' = IF read'[r].st \in Settled THEN Unhook({r}, c) ELSE conn
      /\ UNCHANGED <<down, job, stream>>
  BY DEF OnMetadata
<1>3. /\ read' \in [Read -> ReaderType]
      /\ \A q \in Read : q # r => read'[q] = read[q]
      /\ read'[r].conn = c /\ read'[r].st \in {"streaming", "ok", "failed"}
      /\ Collects(r, read'[r])
      /\ up' = up \/ ToRelay(c, <<frame>>) \/ ToRelay(c, <<>>)
  BY MetadataMoves
<1>4. frame \in FrameType /\ frame.kind # "readFileStream"
  BY <1>1, FrameIsTyped DEF Frame, Kinds, ReaderType
<1> HIDE DEF frame
<1>5. /\ up' \in [Conns -> Seq(FrameType)]
      /\ \A d \in Conns : \A f \in ToSet(up'[d]) : f \in ToSet(up[d]) \/ f.kind # "readFileStream"
  <2>1. CASE up' = up
    BY <1>1, <2>1 DEF TypeOK
  <2>2. CASE ToRelay(c, <<frame>>)
    <3>1. <<frame>> \in Seq(FrameType) /\ ToSet(<<frame>>) = {frame}
      BY <1>4, SetOfOne
    <3> QED BY <1>1, <1>4, <2>2, <3>1, Sent
  <2>3. CASE ToRelay(c, <<>>)
    <3> DEFINE none == <<>>
    <3>1. none \in Seq(FrameType) /\ ToSet(none) = {}
      BY SetOfNone
    <3>2. ToRelay(c, none)
      BY <2>3
    <3> HIDE DEF none
    <3> QED BY <1>1, <3>1, <3>2, Sent
  <2> QED BY <1>3, <2>1, <2>2, <2>3
<1>6. Unhooks(c, Ends(c))
  <2>1. CASE read'[r].st \in Settled
    <3>1. Ends(c) = {r}
      BY <1>1, <1>3, <2>1 DEF Ends, Active, Settled
    <3> QED BY <1>1, <1>2, <2>1, <3>1, UnhookUnhooks
  <2>2. CASE read'[r].st \notin Settled
    <3>1. Ends(c) = {}
      BY <1>1, <1>3, <2>2 DEF Ends, Active, Settled
    <3> QED BY <1>1, <1>2, <2>2, <3>1, SameUnhooks
  <2> QED BY <2>1, <2>2
<1>7. down' \in [Conns -> Seq(FrameType)] /\ \A d \in Conns : ToSet(down'[d]) \subseteq ToSet(down[d])
  BY <1>1, <1>2 DEF TypeOK
<1>8. \A q \in Read : read'[q] # read[q] =>
             /\ read[q].conn = c /\ read[q].st \in Active
             /\ read'[q].conn = c
             /\ \/ read'[q].st \in {"resolved", "streaming", "ok", "failed"}
                \/ read'[q].st = "requested" /\ read[q].st = "requested" /\ read'[q].id = read[q].id
             /\ Collects(q, read'[q])
  BY <1>1, <1>3 DEF Active
<1> HIDE DEF c
<1> QED BY <1>1, <1>2, <1>3, <1>5, <1>6, <1>7, <1>8, ClientStep

\* The handlers of a disposed multiplexer are gone, whoever was called.
LEMMA DisposeKeeps ==
    ASSUME IInv, NEW c \in Conns, Dispose(c)
    PROVE  IInv'
<1> DEFINE called(r) == \/ read[r].st = "requested"
                        \/ read[r].st \in Active /\ r \in Called(conn[c].hooks)
<1>1. TypeOK /\ conn[c].mux = "up"
  BY DEF Dispose, IInv
<1>2. /\ read' = [r \in Read |-> IF read[r].conn = c /\ called(r) THEN Failed(read[r]) ELSE read[r]]
      /\ conn' = [conn EXCEPT ![c].mux = "disposed", ![c].hooks = <<>>]
      /\ down' = [down EXCEPT ![c] = <<>>]
      /\ UNCHANGED <<up, job, stream>>
  BY DEF Dispose
<1>3. ASSUME NEW r \in Read, read'[r] # read[r]
      PROVE  /\ read[r].conn = c /\ read'[r] \in ReaderType /\ read'[r].st = "failed"
             /\ read'[r].conn = c /\ read'[r].got = <<>> /\ read'[r].queue = <<>>
  <2>1. read[r] \in ReaderType /\ read[r].conn = c /\ read'[r] = Failed(read[r])
    BY <1>1, <1>2, <1>3 DEF TypeOK
  <2> QED BY <2>1, FailedIsTyped
<1>4. read' \in [Read -> ReaderType]
  <2>1. \A r \in Read : read'[r] \in ReaderType
    BY <1>1, <1>3 DEF TypeOK
  <2>2. read' = [r \in Read |-> read'[r]]
    BY <1>2
  <2> QED BY <2>1, <2>2
<1> HIDE DEF called
<1>5. conn' \in [Conns -> ConnType]
  <2> DEFINE none == <<>>
  <2>1. none \in Seq(Read)
    OBVIOUS
  <2> HIDE DEF none
  <2> DEFINE rec == [conn[c] EXCEPT !.mux = "disposed", !.hooks = none]
  <2>2. conn \in [Conns -> ConnType] /\ conn[c] \in ConnType
    BY <1>1 DEF TypeOK
  <2>3. rec \in ConnType
    BY <2>1, <2>2 DEF ConnType
  <2>4. conn' = [conn EXCEPT ![c] = rec]
    BY <1>2, <2>2 DEF none
  <2> HIDE DEF rec
  <2> QED BY <2>2, <2>3, <2>4
<1>6. \A d \in Conns : /\ conn'[d].nextId = conn[d].nextId
                       /\ conn'[d].mux = IF d = c THEN "disposed" ELSE conn[d].mux
                       /\ conn'[d].hooks = IF d = c THEN <<>> ELSE conn[d].hooks
  BY <1>1, <1>2 DEF TypeOK, ConnType
<1>7. /\ down' \in [Conns -> Seq(FrameType)]
      /\ \A d \in Conns : down'[d] = IF d = c THEN <<>> ELSE down[d]
  <2> DEFINE none == <<>>
  <2>1. none \in Seq(FrameType)
    OBVIOUS
  <2> HIDE DEF none
  <2>2. down' = [down EXCEPT ![c] = none]
    BY <1>2 DEF none
  <2> QED BY <1>1, <2>1, <2>2 DEF TypeOK, none
<1>8. TypeOK'
  BY <1>1, <1>2, <1>4, <1>5, <1>7 DEF TypeOK
<1>9. Numbers
  <2>1. \A d \in Conns : conn[d].nextId \in Nat
    BY <1>1 DEF TypeOK, ConnType
  <2> QED BY <1>6, <2>1 DEF Numbers
<1>10. Registers
  <2>1. Len(stream) \in Nat /\ stream' = stream
    BY <1>1, <1>2 DEF TypeOK
  <2> QED BY <2>1 DEF Registers
<1>11. Waits
  BY <1>3 DEF Waits
<1>12. Asked'
  <2>1. \A j \in job' : Yours(j.conn, j.id, j.file)
    BY <1>2 DEF IInv, Asked
  <2>2. up' = up
    BY <1>2
  <2> QED BY <1>1, <1>8, <1>9, <1>11, <2>1, <2>2, AskedKept DEF IInv
<1>13. Answers'
  <2>1. \A d \in Conns : ToSet(down'[d]) \subseteq ToSet(down[d])
    BY <1>7, SetOfNone
  <2> QED BY <1>1, <1>8, <1>9, <1>10, <1>11, <2>1, AnswersKept DEF IInv
<1>14. Readers'
  <2>1. ASSUME NEW r \in Read, read'[r] # read[r]
        PROVE  (Placed(read[r]) /\ Collects(r, read[r]))'
    <3>1. Placed(read[r])'
      BY <1>3, <1>6, <2>1 DEF Placed
    <3>2. PICK rec : rec = read'[r]
      OBVIOUS
    <3>3. Collects(r, rec)'
      BY <1>3, <2>1, <3>2, SetOfNone DEF Collects
    <3> QED BY <3>1, <3>2, <3>3
  <2> QED BY <1>1, <1>8, <1>9, <1>10, <2>1, ReadersKept DEF IInv
<1>15. Unopened'
  BY <1>6 DEF IInv, Unopened
<1>16. HandlersMatch'
  <2> SUFFICES ASSUME NEW d \in Conns, conn'[d].mux = "up"
               PROVE  ToSet(conn'[d].hooks) = {r \in Read : read'[r].conn = d /\ read'[r].st \in Active}
    BY DEF HandlersMatch
  <2>1. d # c /\ conn'[d].hooks = conn[d].hooks
    BY <1>6
  <2>2. ToSet(conn[d].hooks) = {r \in Read : read[r].conn = d /\ read[r].st \in Active}
    BY <1>6, <2>1 DEF IInv, HandlersMatch
  <2>3. \A r \in Read : (read'[r].conn = d /\ read'[r].st \in Active)
                        <=> (read[r].conn = d /\ read[r].st \in Active)
    BY <1>3, <2>1
  <2> QED BY <2>1, <2>2, <2>3
<1> QED BY <1>8, <1>12, <1>13, <1>14, <1>15, <1>16 DEF IInv

\* A read starts under a number that no other request of the connection has.
LEMMA StartKeeps ==
    ASSUME IInv, NEW r \in Read, Start(r)
    PROVE  IInv'
<1>1. TypeOK
  BY DEF IInv
<1>2. PICK c \in Conns :
        /\ conn[c].mux = "up" /\ read[r].st = "idle"
        /\ read' = [read EXCEPT ![r].st = "requested", ![r].conn = c, ![r].id = conn[c].nextId]
        /\ conn' = [conn EXCEPT ![c].nextId = @ + 1, ![c].hooks = Append(@, r)]
        /\ ToRelay(c, <<Frame("readFileStream", conn[c].nextId, 0, r)>>)
        /\ UNCHANGED <<down, job, stream>>
  BY DEF Start
<1>3. PICK id : id = conn[c].nextId
  OBVIOUS
<1>4. PICK frame : frame = Frame("readFileStream", id, 0, r)
  OBVIOUS
<1>5. PICK hooks : hooks = Append(conn[c].hooks, r)
  OBVIOUS
<1>6. PICK new : new = [read[r] EXCEPT !.st = "requested", !.conn = c, !.id = id]
  OBVIOUS
<1>7. conn \in [Conns -> ConnType] /\ id \in Nat /\ conn[c].hooks \in Seq(Read)
      /\ read \in [Read -> ReaderType] /\ read[r] \in ReaderType
  BY <1>1, <1>3 DEF TypeOK, ConnType
<1>8. hooks \in Seq(Read) /\ ToSet(hooks) = ToSet(conn[c].hooks) \cup {r}
  BY <1>7, <1>5, SetOfAppend
<1>9. c \in 0 .. MaxConn
  BY ConstantsAssumption DEF Conns
<1>10. conn' = [conn EXCEPT ![c].nextId = id + 1, ![c].hooks = hooks]
  BY <1>2, <1>3, <1>5
<1>11. read' = [read EXCEPT ![r] = new]
  BY <1>2, <1>7, <1>3, <1>6
<1>12. frame \in FrameType /\ frame.id = id /\ frame.file = r
  BY <1>7, <1>4, FrameIsTyped DEF Frame, Kinds
<1>13. /\ new \in ReaderType /\ new.st = "requested" /\ new.conn = c /\ new.id = id
      /\ new.got = read[r].got /\ new.queue = read[r].queue
  BY <1>7, <1>9, <1>6 DEF ReaderType, Active
<1>14. read'[r] = new /\ (\A q \in Read : q # r => read'[q] = read[q]) /\ read' \in [Read -> ReaderType]
  BY <1>7, <1>11, <1>13
<1>15. /\ conn' \in [Conns -> ConnType]
       /\ \A d \in Conns : /\ conn'[d].nextId = IF d = c THEN id + 1 ELSE conn[d].nextId
                           /\ conn'[d].hooks = IF d = c THEN hooks ELSE conn[d].hooks
                           /\ conn'[d].mux = conn[d].mux
  <2>1. conn' \in [Conns -> ConnType]
    <3> DEFINE rec == [conn[c] EXCEPT !.nextId = id + 1, !.hooks = hooks]
    <3>1. conn[c] \in ConnType /\ id + 1 \in Nat
      BY <1>7
    <3>2. rec \in ConnType
      BY <1>8, <3>1 DEF ConnType
    <3>3. conn' = [conn EXCEPT ![c] = rec]
      BY <1>7, <1>10
    <3> HIDE DEF rec
    <3> QED BY <1>7, <3>2, <3>3
  <2>2. /\ conn'[c].nextId = id + 1 /\ conn'[c].hooks = hooks /\ conn'[c].mux = conn[c].mux
        /\ \A d \in Conns : d # c => conn'[d] = conn[d]
    BY <1>7, <1>10 DEF ConnType
  <2> QED BY <2>1, <2>2
<1>16. /\ up' \in [Conns -> Seq(FrameType)]
       /\ \A d \in Conns : ToSet(up'[d]) \subseteq ToSet(up[d]) \cup {frame}
       /\ \A d \in Conns : d # c => up'[d] = up[d]
  <2>1. <<frame>> \in Seq(FrameType) /\ ToSet(<<frame>>) = {frame}
    BY <1>12, SetOfOne
  <2>2. ToRelay(c, <<frame>>)
    BY <1>2, <1>3, <1>4
  <2> QED BY <1>1, <2>1, <2>2, Sent
<1>17. TypeOK'
  BY <1>1, <1>2, <1>14, <1>15, <1>16 DEF TypeOK
<1>18. Numbers
  <2>1. \A d \in Conns : conn[d].nextId \in Nat
    BY <1>1 DEF TypeOK, ConnType
  <2> QED BY <1>15, <1>3, <2>1 DEF Numbers
<1>19. Registers
  <2>1. Len(stream) \in Nat /\ stream' = stream
    BY <1>1, <1>2 DEF TypeOK
  <2> QED BY <2>1 DEF Registers
<1>20. Waits
  <2>1. read'[r].id >= conn[read'[r].conn].nextId
    BY <1>7, <1>13, <1>14, <1>3
  <2> QED BY <1>14, <2>1 DEF Waits
<1>21. Yours(c, id, r)'
  <2>1. id < conn'[c].nextId
    BY <1>7, <1>15
  <2>2. ASSUME NEW q \in Read, read'[q].st = "requested", read'[q].conn = c, read'[q].id = id
        PROVE  q = r
    <3> SUFFICES ASSUME q # r PROVE FALSE
      OBVIOUS
    <3>1. read[q].st = "requested" /\ read[q].conn = c /\ read[q].id = id
      BY <1>14, <2>2
    <3>2. id < id
      BY <1>3, <3>1 DEF IInv, Readers, Placed
    <3> QED BY <1>7, <3>2
  <2> QED BY <2>1, <2>2 DEF Yours
<1>22. Asked'
  <2>1. \A j \in job' : Yours(j.conn, j.id, j.file)
    BY <1>2 DEF IInv, Asked
  <2>2. ASSUME NEW d \in Conns, NEW f \in ToSet(up'[d])
        PROVE  f \in ToSet(up[d]) \/ Yours(d, f.id, f.file)'
    <3>1. f \in ToSet(up[d]) \/ (d = c /\ f = frame)
      BY <1>16
    <3> QED BY <1>12, <1>21, <3>1
  <2> QED BY <1>1, <1>17, <1>18, <1>20, <2>1, <2>2, AskedKept DEF IInv
<1>23. Answers'
  <2>1. down' = down
    BY <1>2
  <2> QED BY <1>1, <1>17, <1>18, <1>19, <1>20, <2>1, AnswersKept DEF IInv
<1>24. Readers'
  <2>1. Placed(read[r])'
    <3>1. id < conn'[c].nextId /\ conn'[c].mux # "none"
      BY <1>2, <1>7, <1>15
    <3> QED BY <1>13, <1>14, <3>1 DEF Placed
  <2>2. Collects(r, new)
    BY <1>13 DEF IInv, Readers, Collects
  <2>3. Collects(r, new)'
    BY <1>1, <1>17, <1>19, <2>2, CollectsKept
  <2>4. Collects(r, read[r])'
    BY <1>14, <2>3
  <2> QED BY <1>1, <1>14, <1>17, <1>18, <1>19, <2>1, <2>4, ReadersKept DEF IInv
<1>25. Unopened'
  BY <1>2, <1>15 DEF IInv, Unopened
<1>26. HandlersMatch'
  <2> SUFFICES ASSUME NEW d \in Conns, conn'[d].mux = "up"
               PROVE  ToSet(conn'[d].hooks) = {q \in Read : read'[q].conn = d /\ read'[q].st \in Active}
    BY DEF HandlersMatch
  <2>1. ToSet(conn[d].hooks) = {q \in Read : read[q].conn = d /\ read[q].st \in Active}
    BY <1>15 DEF IInv, HandlersMatch
  <2>2. read[r].st \notin Active /\ read'[r].st \in Active /\ read'[r].conn = c
    BY <1>2, <1>13, <1>14 DEF Active
  <2>3. CASE d = c
    BY <1>8, <1>14, <1>15, <2>1, <2>2, <2>3
  <2>4. CASE d # c
    BY <1>14, <1>15, <2>1, <2>2, <2>4
  <2> QED BY <2>3, <2>4
<1> QED BY <1>17, <1>22, <1>23, <1>24, <1>25, <1>26 DEF IInv

-----------------------------------------------------------------------------
(***************************************************************************)
(* The steps of the channel and of the relay.                              *)
(***************************************************************************)

\* A step that leaves the readers and their handlers alone.
LEMMA RelayStep ==
    ASSUME IInv, TypeOK', read' = read, Registers,
           \A c \in Conns : /\ conn'[c].nextId = conn[c].nextId /\ conn'[c].mux = conn[c].mux
                            /\ conn'[c].hooks = conn[c].hooks,
           \A c \in Conns : ToSet(up'[c]) \subseteq ToSet(up[c]),
           \A j \in job' : Yours(j.conn, j.id, j.file),
           \A c \in Conns : \A f \in ToSet(down'[c]) : f \in ToSet(down[c]) \/ Genuine(c, f)'
    PROVE  IInv'
<1>1. TypeOK
  BY DEF IInv
<1>2. Numbers
  <2>1. \A c \in Conns : conn[c].nextId \in Nat
    BY <1>1 DEF TypeOK, ConnType
  <2> QED BY <2>1 DEF Numbers
<1>3. Waits
  BY DEF Waits
<1>4. Asked'
  BY <1>1, <1>2, <1>3, AskedKept DEF IInv
<1>5. Answers'
  BY <1>1, <1>2, <1>3, AnswersKept DEF IInv
<1>6. Readers'
  BY <1>1, <1>2, ReadersKept DEF IInv
<1>7. Unopened'
  BY DEF IInv, Unopened
<1>8. HandlersMatch'
  BY DEF IInv, HandlersMatch
<1> QED BY <1>4, <1>5, <1>6, <1>7, <1>8 DEF IInv

LEMMA SameStreams ==
    ASSUME TypeOK, stream' = stream
    PROVE  Registers
<1>1. Len(stream) \in Nat
  BY DEF TypeOK
<1> QED BY <1>1 DEF Registers

LEMMA LinkBreaksKeeps ==
    ASSUME IInv, NEW c \in Conns, LinkBreaks(c)
    PROVE  IInv'
<1>1. TypeOK /\ conn' = [conn EXCEPT ![c].broken = TRUE] /\ UNCHANGED <<read, up, down, job, stream>>
  BY DEF LinkBreaks, IInv
<1>2. conn' \in [Conns -> ConnType]
      /\ \A d \in Conns : /\ conn'[d].nextId = conn[d].nextId /\ conn'[d].mux = conn[d].mux
                          /\ conn'[d].hooks = conn[d].hooks
  BY <1>1 DEF TypeOK, ConnType
<1>3. TypeOK'
  BY <1>1, <1>2 DEF TypeOK
<1>4. \A j \in job' : Yours(j.conn, j.id, j.file)
  BY <1>1 DEF IInv, Asked
<1> QED BY <1>1, <1>2, <1>3, <1>4, SameStreams, RelayStep

\* A connection that opens has neither handlers nor readers.
LEMMA ReconnectKeeps ==
    ASSUME IInv, NEW c \in Conns, Reconnect(c)
    PROVE  IInv'
<1>1. /\ TypeOK /\ conn[c].mux = "none"
      /\ conn' = [conn EXCEPT ![c].mux = "up", ![c].client = "attached"]
      /\ UNCHANGED <<read, up, down, job, stream>>
  BY DEF Reconnect, IInv
<1>2. conn' \in [Conns -> ConnType]
      /\ \A d \in Conns : /\ conn'[d].nextId = conn[d].nextId
                          /\ conn'[d].mux = IF d = c THEN "up" ELSE conn[d].mux
                          /\ conn'[d].hooks = conn[d].hooks
  <2> DEFINE rec == [conn[c] EXCEPT !.mux = "up", !.client = "attached"]
  <2>1. conn \in [Conns -> ConnType] /\ conn[c] \in ConnType
    BY <1>1 DEF TypeOK
  <2>2. /\ rec \in ConnType /\ rec.mux = "up" /\ rec.nextId = conn[c].nextId
        /\ rec.hooks = conn[c].hooks
    BY <2>1 DEF ConnType
  <2>3. conn' = [conn EXCEPT ![c] = rec]
    BY <1>1, <2>1
  <2> HIDE DEF rec
  <2> QED BY <2>1, <2>2, <2>3
<1>3. TypeOK'
  BY <1>1, <1>2 DEF TypeOK
<1>4. Numbers
  <2>1. \A d \in Conns : conn[d].nextId \in Nat
    BY <1>1 DEF TypeOK, ConnType
  <2> QED BY <1>1, <1>2, <2>1 DEF Numbers
<1>5. Registers
  BY <1>1, SameStreams
<1>6. Waits
  BY <1>1 DEF Waits
<1>7. Asked'
  <2>1. up' = up /\ \A j \in job' : Yours(j.conn, j.id, j.file)
    BY <1>1 DEF IInv, Asked
  <2> QED BY <1>1, <1>3, <1>4, <1>6, <2>1, AskedKept DEF IInv
<1>8. Answers'
  <2>1. down' = down
    BY <1>1
  <2> QED BY <1>1, <1>3, <1>4, <1>5, <1>6, <2>1, AnswersKept DEF IInv
<1>9. Readers'
  BY <1>1, <1>3, <1>4, <1>5, ReadersKept DEF IInv
<1>10. Unopened'
  BY <1>1, <1>2 DEF IInv, Unopened
<1>11. HandlersMatch'
  <2> SUFFICES ASSUME NEW d \in Conns, conn'[d].mux = "up"
               PROVE  ToSet(conn[d].hooks) = {r \in Read : read[r].conn = d /\ read[r].st \in Active}
    BY <1>1, <1>2 DEF HandlersMatch
  <2>1. CASE d # c
    BY <1>2, <2>1 DEF IInv, HandlersMatch
  <2>2. CASE d = c
    <3>1. conn[c].hooks = <<>>
      BY <1>1 DEF IInv, Unopened
    <3>2. \A r \in Read : ~(read[r].conn = c /\ read[r].st \in Active)
      BY <1>1 DEF IInv, Readers, Placed, Active
    <3> QED BY <2>2, <3>1, <3>2, SetOfNone
  <2> QED BY <2>1, <2>2
<1> QED BY <1>3, <1>7, <1>8, <1>9, <1>10, <1>11 DEF IInv

\* The relay takes a frame: the request of a new job is one the client numbered.
LEMMA RelayReceiveKeeps ==
    ASSUME IInv, NEW c \in Conns, RelayReceive(c)
    PROVE  IInv'
<1>1. TypeOK /\ up[c] \in Seq(FrameType) /\ up[c] # <<>>
  BY DEF RelayReceive, IInv, TypeOK
<1>2. PICK f \in FrameType :
        /\ f = Head(up[c]) /\ f \in ToSet(up[c])
        /\ Tail(up[c]) \in Seq(FrameType) /\ ToSet(Tail(up[c])) \subseteq ToSet(up[c])
  BY <1>1, SetOfTail
<1>3. up' = [up EXCEPT ![c] = Tail(@)] /\ UNCHANGED <<read, conn, down>>
  BY DEF RelayReceive
<1>4. CASE /\ f.kind = "readFileStream"
           /\ job' = job \cup {[conn |-> c, id |-> f.id, file |-> f.file, aborted |-> FALSE]}
           /\ UNCHANGED stream
  <2>1. job' \subseteq JobType /\ stream' \in Seq(StreamType)
    <3>1. [conn |-> c, id |-> f.id, file |-> f.file, aborted |-> FALSE] \in JobType
      BY DEF JobType, FrameType
    <3> QED BY <1>1, <1>4, <3>1 DEF TypeOK
  <2>2. \A j \in job' : Yours(j.conn, j.id, j.file)
    BY <1>2, <1>4 DEF IInv, Asked
  <2>3. Registers
    BY <1>1, <1>4, SameStreams
  <2> QED BY <1>1, <1>2, <1>3, <2>1, <2>2, <2>3, RelayStep DEF TypeOK
<1>5. CASE /\ f.kind = "cancel"
           /\ job' = {[j EXCEPT !.aborted = @ \/ (j.conn = c /\ j.id = f.id)] : j \in job}
           /\ UNCHANGED stream
  <2>1. ASSUME NEW k \in job'
        PROVE  k \in JobType /\ Yours(k.conn, k.id, k.file)
    <3>1. PICK j \in job : k = [j EXCEPT !.aborted = @ \/ (j.conn = c /\ j.id = f.id)]
      BY <1>5
    <3>2. k = [j EXCEPT !.aborted = j.aborted \/ (j.conn = c /\ j.id = f.id)] /\ j \in JobType
      BY <1>1, <3>1 DEF TypeOK, JobType
    <3>3. k \in JobType /\ k.conn = j.conn /\ k.id = j.id /\ k.file = j.file
      BY <3>2 DEF JobType
    <3> QED BY <3>3 DEF IInv, Asked
  <2>2. Registers
    BY <1>1, <1>5, SameStreams
  <2> QED BY <1>1, <1>2, <1>3, <1>5, <2>1, <2>2, RelayStep DEF TypeOK
<1>6. CASE /\ stream' = [s \in 1 .. Len(stream) |->
                           [stream[s] EXCEPT !.aborted = @ \/ (stream[s].open /\ s = f.id)]]
           /\ UNCHANGED job
  <2>1. ASSUME NEW s \in 1 .. Len(stream)
        PROVE  stream'[s] \in StreamType /\ stream'[s].file = stream[s].file
    <3>1. stream[s] \in StreamType
      BY <1>1 DEF TypeOK
    <3>2. stream'[s] = [stream[s] EXCEPT !.aborted = stream[s].aborted \/ (stream[s].open /\ s = f.id)]
      BY <1>6
    <3> QED BY <3>1, <3>2 DEF StreamType
  <2>2. Len(stream) \in Nat
    BY <1>1 DEF TypeOK
  <2>3. stream' \in Seq(StreamType) /\ Len(stream') = Len(stream)
    BY <1>6, <2>1, <2>2
  <2>4. Registers
    BY <2>1, <2>2, <2>3 DEF Registers
  <2>5. \A j \in job' : Yours(j.conn, j.id, j.file)
    BY <1>6 DEF IInv, Asked
  <2> QED BY <1>1, <1>2, <1>3, <1>6, <2>3, <2>4, <2>5, RelayStep DEF TypeOK
<1>7. \/ /\ f.kind = "readFileStream"
         /\ job' = job \cup {[conn |-> c, id |-> f.id, file |-> f.file, aborted |-> FALSE]}
         /\ UNCHANGED stream
      \/ /\ f.kind = "cancel"
         /\ job' = {[j EXCEPT !.aborted = @ \/ (j.conn = c /\ j.id = f.id)] : j \in job}
         /\ UNCHANGED stream
      \/ /\ stream' = [s \in 1 .. Len(stream) |->
                         [stream[s] EXCEPT !.aborted = @ \/ (stream[s].open /\ s = f.id)]]
         /\ UNCHANGED job
  BY <1>2 DEF RelayReceive
<1> QED BY <1>4, <1>5, <1>6, <1>7

\* Whatever an answer says goes to the connection that asked.
LEMMA Answered ==
    ASSUME TypeOK, NEW c \in Conns, NEW f \in FrameType, down' = down \/ down' = Answer(c, f)
    PROVE  /\ down' \in [Conns -> Seq(FrameType)]
           /\ \A d \in Conns : \A g \in ToSet(down'[d]) : g \in ToSet(down[d]) \/ (d = c /\ g = f)
<1>1. down \in [Conns -> Seq(FrameType)] /\ down[c] \in Seq(FrameType)
  BY DEF TypeOK
<1>2. CASE down' = down
  BY <1>1, <1>2
<1>3. CASE down' = [down EXCEPT ![c] = Append(down[c], f)]
  <2>1. Append(down[c], f) \in Seq(FrameType)
        /\ ToSet(Append(down[c], f)) = ToSet(down[c]) \cup {f}
    BY <1>1, SetOfAppend
  <2>2. down' \in [Conns -> Seq(FrameType)]
    BY <1>1, <1>3, <2>1
  <2>3. \A d \in Conns : down'[d] = IF d = c THEN Append(down[c], f) ELSE down[d]
    BY <1>1, <1>3
  <2> QED BY <2>1, <2>2, <2>3
<1> QED BY <1>2, <1>3 DEF Answer

LEMMA FileOpenedKeeps ==
    ASSUME IInv, NEW j \in job, FileOpened(j)
    PROVE  IInv'
<1>1. /\ TypeOK /\ j \in JobType /\ job' = job \ {j} /\ UNCHANGED <<read, conn, up>>
      /\ Yours(j.conn, j.id, j.file)
  BY DEF FileOpened, IInv, TypeOK, Asked
<1>2. j.conn \in Conns /\ j.id \in Nat /\ j.file \in Read /\ j.aborted \in BOOLEAN
  BY <1>1 DEF JobType
<1>3. \A k \in job' : Yours(k.conn, k.id, k.file)
  BY <1>1 DEF IInv, Asked
\* An answer under the job's number is about the file of the request.
<1>4. ASSUME NEW kind \in {"metadata", "error"}, NEW n \in Nat, Respond(j, kind, n),
             stream' \in Seq(StreamType), Registers, kind = "metadata" /\ n # 0 => Belongs(n, j.file)'
      PROVE  IInv'
  <2>1. PICK f \in FrameType : f = Frame(kind, j.id, n, j.file)
    BY <1>2, FrameIsTyped DEF Kinds
  <2>2. down' = down \/ down' = Answer(j.conn, f)
    BY <1>4, <2>1 DEF Respond
  <2>3. /\ down' \in [Conns -> Seq(FrameType)]
        /\ \A d \in Conns : \A g \in ToSet(down'[d]) : g \in ToSet(down[d]) \/ (d = j.conn /\ g = f)
    BY <1>1, <1>2, <2>2, Answered
  <2>4. TypeOK'
    BY <1>1, <1>4, <2>3 DEF TypeOK
  <2>5. Yours(j.conn, j.id, j.file)'
    BY <1>1 DEF Yours
  <2>6. f.kind = kind /\ f.id = j.id /\ f.n = n /\ f.file = j.file
    BY <2>1 DEF Frame
  <2>7. Genuine(j.conn, f)'
    BY <1>4, <2>5, <2>6 DEF Genuine
  <2>8. \A d \in Conns : \A g \in ToSet(down'[d]) : g \in ToSet(down[d]) \/ Genuine(d, g)'
    BY <2>3, <2>7
  <2> QED BY <1>1, <1>3, <1>4, <2>4, <2>8, RelayStep
<1>5. CASE UNCHANGED stream /\ (Respond(j, "error", 0) \/ Respond(j, "metadata", 0))
  <2>1. Registers /\ stream' \in Seq(StreamType)
    BY <1>1, <1>5, SameStreams DEF TypeOK
  <2> QED BY <1>4, <1>5, <2>1
<1>6. CASE /\ stream' = Append(stream, [conn |-> j.conn, file |-> j.file, seq |-> 0,
                                        cancelled |-> j.aborted, aborted |-> FALSE, open |-> TRUE])
           /\ Respond(j, "metadata", Len(stream) + 1)
  <2> DEFINE entry == [conn |-> j.conn, file |-> j.file, seq |-> 0,
                       cancelled |-> j.aborted, aborted |-> FALSE, open |-> TRUE]
  <2>1. entry \in StreamType /\ entry.file = j.file
    BY <1>2 DEF StreamType
  <2> HIDE DEF entry
  <2>2. stream \in Seq(StreamType) /\ stream' = Append(stream, entry)
    BY <1>1, <1>6 DEF TypeOK, entry
  <2>3. /\ stream' \in Seq(StreamType) /\ Len(stream') = Len(stream) + 1 /\ Len(stream) \in Nat
        /\ stream'[Len(stream) + 1] = entry /\ \A s \in 1 .. Len(stream) : stream'[s] = stream[s]
    BY <2>1, <2>2
  <2>4. Registers
    BY <2>3 DEF Registers
  <2>5. PICK n \in Nat : n = Len(stream) + 1
    BY <2>3
  <2>6. Belongs(n, j.file)'
    BY <2>1, <2>3, <2>5 DEF Belongs
  <2> QED BY <1>4, <1>6, <2>3, <2>4, <2>5, <2>6
<1> QED BY <1>5, <1>6 DEF FileOpened

LEMMA AdvancedIsTyped ==
    ASSUME NEW entry \in StreamType
    PROVE  Advanced(entry) \in StreamType /\ Advanced(entry).file = entry.file
<1>1. PICK seq \in Nat : seq = entry.seq + 1
  BY DEF StreamType
<1>2. Advanced(entry) = [entry EXCEPT !.seq = seq]
  BY <1>1 DEF Advanced
<1> QED BY <1>2 DEF StreamType

\* What the pump of a stream broadcasts, and the release of its entry.
LEMMA PumpKeeps ==
    ASSUME IInv, NEW s \in 1 .. Len(stream), Pump(s)
    PROVE  IInv'
<1>1. /\ TypeOK /\ stream \in Seq(StreamType) /\ stream[s] \in StreamType
      /\ down \in [Conns -> Seq(FrameType)] /\ UNCHANGED <<read, conn, up, job>>
  BY DEF Pump, IInv, TypeOK
<1>2. PICK file \in Read : file = stream[s].file
  BY <1>1 DEF StreamType
<1>3. ASSUME NEW frames \in Seq(FrameType), \A f \in ToSet(frames) :
                 f.kind \notin {"metadata", "error"} /\ f.id = s /\ f.file = file,
             NEW entry \in StreamType, entry.file = file,
             stream' = [stream EXCEPT ![s] = entry],
             down' = down \/ down' = Broadcast(frames)
      PROVE  IInv'
  <2>1. /\ stream' \in Seq(StreamType) /\ Len(stream') = Len(stream) /\ Len(stream) \in Nat
        /\ stream'[s] = entry /\ \A t \in 1 .. Len(stream) : t # s => stream'[t] = stream[t]
    BY <1>1, <1>3
  <2>2. Registers
    BY <1>2, <1>3, <2>1 DEF Registers
  <2>3. \A d \in Conns : /\ down[d] \o frames \in Seq(FrameType)
                         /\ ToSet(down[d] \o frames) = ToSet(down[d]) \cup ToSet(frames)
    BY <1>1, <1>3, SetOfConcat
  <2>4. \A d \in Conns : down'[d] = down[d] \/ down'[d] = down[d] \o frames
    BY <1>3 DEF Broadcast
  <2>5. down' \in [Conns -> Seq(FrameType)]
    BY <1>1, <1>3, <2>3 DEF Broadcast
  <2>6. TypeOK'
    BY <1>1, <2>1, <2>5 DEF TypeOK
  <2>7. Belongs(s, file)'
    BY <1>3, <2>1 DEF Belongs
  <2>8. ASSUME NEW d \in Conns, NEW f \in ToSet(down'[d])
        PROVE  f \in ToSet(down[d]) \/ Genuine(d, f)'
    <3>1. f \in ToSet(down[d]) \/ f \in ToSet(frames)
      BY <2>3, <2>4
    <3> QED BY <1>3, <2>7, <3>1 DEF Genuine
  <2>9. \A j \in job' : Yours(j.conn, j.id, j.file)
    BY <1>1 DEF IInv, Asked
  <2> QED BY <1>1, <2>2, <2>6, <2>8, <2>9, RelayStep
<1>4. Released(stream[s]) \in StreamType /\ Released(stream[s]).file = file
  BY <1>1, <1>2 DEF Released, StreamType
<1>5. CASE stream' = [stream EXCEPT ![s] = Released(@)] /\ UNCHANGED down
  <2>1. stream' = [stream EXCEPT ![s] = Released(stream[s])]
    BY <1>5
  <2> DEFINE none == <<>>
  <2>2. none \in Seq(FrameType) /\ ToSet(none) = {}
    BY SetOfNone
  <2> HIDE DEF none
  <2> QED BY <1>3, <1>4, <1>5, <2>1, <2>2
<1>6. CASE /\ stream' = [stream EXCEPT ![s] = Released(@)]
           /\ down' = Broadcast(<<Frame("streamError", s, 0, file)>>)
  <2>1. stream' = [stream EXCEPT ![s] = Released(stream[s])]
    BY <1>6
  <2>2. PICK frame \in FrameType : frame = Frame("streamError", s, 0, file)
    BY FrameIsTyped DEF Kinds
  <2>3. <<frame>> \in Seq(FrameType) /\ ToSet(<<frame>>) = {frame}
    BY SetOfOne
  <2>4. frame.kind = "streamError" /\ frame.id = s /\ frame.file = file
    BY <2>2 DEF Frame
  <2> QED BY <1>3, <1>4, <1>6, <2>1, <2>2, <2>3, <2>4
<1>7. PICK chunk \in FrameType : chunk = Frame("chunk", s, stream[s].seq, file)
  <2>1. stream[s].seq \in Nat /\ s \in Nat /\ "chunk" \in Kinds
    BY <1>1 DEF StreamType, Kinds
  <2> QED BY <2>1, FrameIsTyped
<1>8. PICK end \in FrameType : end = Frame("end", s, 0, file)
  BY FrameIsTyped DEF Kinds
<1>9. /\ chunk.kind = "chunk" /\ chunk.id = s /\ chunk.file = file
      /\ end.kind = "end" /\ end.id = s /\ end.file = file
  BY <1>7, <1>8 DEF Frame
<1>10. PICK chunks \in Seq(FrameType) : chunks = <<chunk>> /\ ToSet(chunks) = {chunk}
  BY SetOfOne
<1>11. PICK ends \in Seq(FrameType) : ends = <<end>> /\ ToSet(ends) = {end}
  BY SetOfOne
<1>12. CASE /\ stream' = [stream EXCEPT ![s] = Released(stream[s])]
            /\ down' = Broadcast(chunks \o ends)
  <2>1. chunks \o ends \in Seq(FrameType) /\ ToSet(chunks \o ends) = ToSet(chunks) \cup ToSet(ends)
    BY SetOfConcat
  <2>2. \A f \in ToSet(chunks \o ends) : f = chunk \/ f = end
    BY <1>10, <1>11, <2>1
  <2>3. \A f \in ToSet(chunks \o ends) :
          f.kind \notin {"metadata", "error"} /\ f.id = s /\ f.file = file
    BY <1>9, <2>2
  <2> QED BY <1>3, <1>4, <1>12, <2>1, <2>3
<1>13. CASE /\ stream' = [stream EXCEPT ![s] = Advanced(stream[s])]
            /\ down' = Broadcast(chunks)
  <2>1. Advanced(stream[s]) \in StreamType /\ Advanced(stream[s]).file = stream[s].file
    BY <1>1, AdvancedIsTyped
  <2>2. \A f \in ToSet(chunks) : f.kind \notin {"metadata", "error"} /\ f.id = s /\ f.file = file
    BY <1>9, <1>10
  <2> QED BY <1>2, <1>3, <1>13, <2>1, <2>2
\* The turn of a pump that goes on: how it leaves its entry, and what it sends.
<1> DEFINE last == stream[s].seq + 1 = Size
           left == IF last THEN Released(stream[s]) ELSE Advanced(stream[s])
           said == IF last THEN chunks \o ends ELSE chunks
<1>14. CASE stream' = [stream EXCEPT ![s] = left] /\ down' = Broadcast(said)
  <2>1. CASE last
    <3>1. left = Released(stream[s]) /\ said = chunks \o ends
      BY <2>1
    <3> HIDE DEF left, said
    <3> QED BY <1>12, <1>14, <3>1
  <2>2. CASE ~last
    <3>1. left = Advanced(stream[s]) /\ said = chunks
      BY <2>2
    <3> HIDE DEF left, said
    <3> QED BY <1>13, <1>14, <3>1
  <2> QED BY <2>1, <2>2
<1>15. \/ stream' = [stream EXCEPT ![s] = Released(@)] /\ UNCHANGED down
       \/ /\ stream' = [stream EXCEPT ![s] = Released(@)]
          /\ down' = Broadcast(<<Frame("streamError", s, 0, file)>>)
       \/ stream' = [stream EXCEPT ![s] = left] /\ down' = Broadcast(said)
  BY <1>2, <1>7, <1>8, <1>10, <1>11 DEF Pump
<1> QED BY <1>5, <1>6, <1>14, <1>15

LEMMA DetachKeeps ==
    ASSUME IInv, NEW c \in Conns, Detach(c)
    PROVE  IInv'
<1>1. /\ TypeOK /\ conn' = [conn EXCEPT ![c].client = "gone"]
      /\ job' = {[j EXCEPT !.aborted = @ \/ j.conn = c] : j \in job}
      /\ up' = [up EXCEPT ![c] = <<>>]
      /\ UNCHANGED <<read, down, stream>>
  BY DEF Detach, IInv
<1>2. conn' \in [Conns -> ConnType]
      /\ \A d \in Conns : /\ conn'[d].nextId = conn[d].nextId /\ conn'[d].mux = conn[d].mux
                          /\ conn'[d].hooks = conn[d].hooks
  BY <1>1 DEF TypeOK, ConnType
<1>3. ASSUME NEW k \in job'
      PROVE  k \in JobType /\ Yours(k.conn, k.id, k.file)
  <2>1. PICK j \in job : k = [j EXCEPT !.aborted = @ \/ j.conn = c]
    BY <1>1
  <2>2. k = [j EXCEPT !.aborted = j.aborted \/ j.conn = c] /\ j \in JobType
    BY <1>1, <2>1 DEF TypeOK, JobType
  <2>3. k \in JobType /\ k.conn = j.conn /\ k.id = j.id /\ k.file = j.file
    BY <2>2 DEF JobType
  <2> QED BY <2>3 DEF IInv, Asked
<1>4. PICK none : none = <<>>
  OBVIOUS
<1>5. none \in Seq(FrameType) /\ ToSet(none) = {} /\ up' = [up EXCEPT ![c] = none]
  BY <1>1, <1>4, SetOfNone
<1>6. up' \in [Conns -> Seq(FrameType)] /\ \A d \in Conns : ToSet(up'[d]) \subseteq ToSet(up[d])
  BY <1>1, <1>5 DEF TypeOK
<1>7. TypeOK'
  BY <1>1, <1>2, <1>3, <1>6 DEF TypeOK
<1> QED BY <1>1, <1>2, <1>3, <1>6, <1>7, SameStreams, RelayStep

-----------------------------------------------------------------------------
LEMMA InitIInv == Init => IInv
<1> SUFFICES ASSUME Init PROVE IInv
  OBVIOUS
<1>1. PICK none : none = <<>>
  OBVIOUS
<1>2. /\ none \in Seq(FrameType) /\ none \in Seq(Read) /\ none \in Seq(Read \X Nat)
      /\ none \in Seq(StreamType) /\ ToSet(none) = {} /\ Len(none) = 0
  BY <1>1, SetOfNone
<1>3. 0 \in 0 .. MaxConn
  BY ConstantsAssumption
<1>4. read \in [Read -> ReaderType]
  <2>1. read = [r \in Read |-> [st |-> "idle", conn |-> 0, id |-> 0, stream |-> 0,
                                got |-> none, queue |-> none]]
    BY <1>1 DEF Init
  <2> QED BY <1>2, <1>3, <2>1 DEF ReaderType
<1>5. conn \in [Conns -> ConnType]
  <2>1. conn = [c \in Conns |-> [mux |-> IF c = 1 THEN "up" ELSE "none", nextId |-> 1,
                                 hooks |-> none, broken |-> FALSE,
                                 client |-> IF c = 1 THEN "attached" ELSE "none"]]
    BY <1>1 DEF Init
  <2> QED BY <1>2, <2>1 DEF ConnType
<1>6. up = [c \in Conns |-> none] /\ down = [c \in Conns |-> none] /\ stream = none /\ job = {}
  BY <1>1 DEF Init
<1>7. TypeOK
  BY <1>2, <1>4, <1>5, <1>6 DEF TypeOK
<1>8. \A r \in Read : read[r].st = "idle" /\ read[r].got = none /\ read[r].queue = none
  BY <1>1 DEF Init
<1>9. \A c \in Conns : conn[c].hooks = none
  BY <1>1 DEF Init
<1>10. Asked /\ Answers
  BY <1>2, <1>6 DEF Asked, Answers
<1>11. Readers
  BY <1>2, <1>8 DEF Readers, Placed, Collects
<1>12. Unopened
  BY <1>1, <1>9 DEF Unopened
<1>13. HandlersMatch
  BY <1>2, <1>8, <1>9 DEF HandlersMatch, Active
<1> QED BY <1>7, <1>10, <1>11, <1>12, <1>13 DEF IInv

LEMMA NextIInv == IInv /\ [Next]_vars => IInv'
<1> SUFFICES ASSUME IInv, [Next]_vars PROVE IInv'
  OBVIOUS
<1>1. Size \in Nat
  BY ConstantsAssumption
<1>2. ASSUME NEW r \in Read, Start(r) PROVE IInv'
  BY <1>2, StartKeeps
<1>3. ASSUME NEW c \in Conns, LinkBreaks(c) \/ Reconnect(c) PROVE IInv'
  BY <1>3, LinkBreaksKeeps, ReconnectKeeps
<1>4. ASSUME NEW j \in job, FileOpened(j) PROVE IInv'
  BY <1>4, FileOpenedKeeps
<1>5. ASSUME NEW r \in Read, Timeout(r) \/ OnMetadata(r) PROVE IInv'
  BY <1>1, <1>5, TimeoutKeeps, OnMetadataKeeps
<1>6. ASSUME NEW c \in Conns, Receive(c) \/ Dispose(c) PROVE IInv'
  BY <1>1, <1>6, ReceiveKeeps, DisposeKeeps
<1>7. ASSUME NEW c \in Conns, RelayReceive(c) \/ Detach(c) PROVE IInv'
  BY <1>7, RelayReceiveKeeps, DetachKeeps
<1>8. ASSUME NEW s \in 1 .. Len(stream), Pump(s) PROVE IInv'
  BY <1>8, PumpKeeps
<1>9. CASE UNCHANGED vars
  BY <1>9 DEF vars, IInv, TypeOK, Asked, Answers, Readers, Unopened, HandlersMatch, Genuine, Yours,
     Belongs, Placed, Collects
<1> QED BY <1>2, <1>3, <1>4, <1>5, <1>6, <1>7, <1>8, <1>9 DEF Next, ClientLoop, RelayLoop

LEMMA Invariance == Spec => []IInv
BY InitIInv, NextIInv, PTL DEF Spec

\* A multiplexer holds exactly the dispose handlers of the reads under way on it: none leaks when
\* a read ends, times out or fails, and none is missing when the channel is disposed.
THEOREM HandlersAreKept == Spec => []Sound
<1>1. IInv => Sound
  BY DEF IInv, Sound
<1> QED BY <1>1, Invariance, PTL

\* No answer is taken for the answer to another request, across time-outs, cancelled requests and
\* reconnects: the stream a reader is bound to was opened for its file.
THEOREM AnswersAreMine == Spec => []AnswerIsMine
<1>1. IInv => AnswerIsMine
  BY DEF IInv, Readers, Collects, Belongs, AnswerIsMine
<1> QED BY <1>1, Invariance, PTL

-----------------------------------------------------------------------------
(***************************************************************************)
(* The refinement of FileReads: an event of the relay is none for the      *)
(* callers; an event of the client starts a read, settles one as a success *)
(* or lets some of them fail.                                              *)
(***************************************************************************)

LEMMA OutcomeOf ==
    ASSUME NEW rec \in ReaderType
    PROVE  /\ rec.st = "idle" => Outcome(rec) = "none"
           /\ rec.st \in Active => Outcome(rec) = "pending"
           /\ rec.st \in Settled => Outcome(rec) = rec.st
           /\ rec.st # "ok" => Content(rec) = <<>>
           /\ rec.st = "idle" \/ rec.st \in Active \/ rec.st \in Settled
<1>1. rec.st \in {"idle"} \cup Active \cup Settled
  BY DEF ReaderType
<1>2. CASE rec.st = "idle"
  BY <1>2 DEF Outcome, Content, Active, Settled
<1>3. CASE rec.st \in Active
  BY <1>3 DEF Outcome, Content, Active, Settled
<1>4. CASE rec.st \in Settled
  BY <1>4 DEF Outcome, Content, Active, Settled
<1> QED BY <1>1, <1>2, <1>3, <1>4

\* What a read that succeeds is resolved with.
LEMMA ContentIsWhole ==
    ASSUME NEW r \in Read, NEW rec \in ReaderType, Collects(r, rec), rec.st = "ok"
    PROVE  Content(rec) \in {<<>>, Promise!Whole(r)}
<1>1. CASE rec.stream = 0
  BY <1>1 DEF Content
<1>2. CASE rec.stream # 0
  <2>1. rec.got \in Seq(Read \X Nat)
    BY DEF ReaderType
  <2>2. Len(rec.got) = Size /\ \A k \in 1 .. Size : rec.got[k] = <<r, k - 1>>
    BY <1>2 DEF Collects
  <2>3. rec.got = [k \in 1 .. Size |-> rec.got[k]]
    BY <2>1, <2>2
  <2>4. rec.got = [k \in 1 .. Size |-> <<r, k - 1>>]
    BY <2>2, <2>3
  <2> QED BY <1>2, <2>4 DEF Content, Promise!Whole
<1> QED BY <1>1, <1>2

\* The reads that come to their end in a step.
Settles(r) == read[r].st \in Active /\ read'[r].st \in Settled

LEMMA ClientKeepsPromise ==
    ASSUME TypeOK, TypeOK',
           \A r \in Read : read'[r] # read[r] =>
             read[r].st \in Active /\ read'[r].st \in Active \cup Settled /\ Collects(r, read'[r]),
           \A r, q \in Read : Settles(r) /\ Settles(q) /\ read'[r].st = "ok" => q = r
    PROVE  [Promise!Next]_(Promise!promiseVars)
<1> DEFINE seen == [r \in Read |-> Outcome(read[r])]
           seen1 == [r \in Read |-> Outcome(read'[r])]
           value == [r \in Read |-> Content(read[r])]
           value1 == [r \in Read |-> Content(read'[r])]
<1>1. \A r \in Read : read[r] \in ReaderType /\ read'[r] \in ReaderType
  BY DEF TypeOK
<1>2. \A r \in Read : ~Settles(r) => seen1[r] = seen[r] /\ value1[r] = value[r]
  <2> SUFFICES ASSUME NEW r \in Read, ~Settles(r), read'[r] # read[r]
               PROVE  /\ Outcome(read'[r]) = Outcome(read[r])
                      /\ Content(read'[r]) = Content(read[r])
    OBVIOUS
  <2>1. read[r].st \in Active /\ read'[r].st \in Active
    BY DEF Settles
  <2>2. read[r].st # "ok" /\ read'[r].st # "ok"
    BY <2>1 DEF Active
  <2> QED BY <1>1, <2>1, <2>2, OutcomeOf
<1>3. \A r \in Read : Settles(r) => /\ seen[r] = "pending" /\ seen1[r] = read'[r].st
                                    /\ value[r] = <<>>
                                    /\ read'[r].st = "failed" => value1[r] = <<>>
                                    /\ read'[r].st \in {"ok", "failed"}
  <2> SUFFICES ASSUME NEW r \in Read, Settles(r)
               PROVE  /\ Outcome(read[r]) = "pending" /\ Outcome(read'[r]) = read'[r].st
                      /\ Content(read[r]) = <<>>
                      /\ read'[r].st = "failed" => Content(read'[r]) = <<>>
                      /\ read'[r].st \in {"ok", "failed"}
    OBVIOUS
  <2>1. read[r].st # "ok" /\ read'[r].st \in {"ok", "failed"}
    BY DEF Settles, Active, Settled
  <2> QED BY <1>1, <2>1, OutcomeOf DEF Settles
<1>4. /\ seen1 = [r \in Read |-> seen1[r]] /\ value1 = [r \in Read |-> value1[r]]
      /\ seen = [r \in Read |-> seen[r]] /\ value = [r \in Read |-> value[r]]
  OBVIOUS
<1>5. CASE \E r \in Read : Settles(r) /\ read'[r].st = "ok"
  <2>1. PICK r \in Read : Settles(r) /\ read'[r].st = "ok"
    BY <1>5
  <2>2. \A q \in Read : q # r => seen1[q] = seen[q] /\ value1[q] = value[q]
    BY <1>2, <2>1
  <2>3. read'[r] # read[r]
    BY <2>1 DEF Settles, Active, Settled
  <2>4. value1[r] \in {<<>>, Promise!Whole(r)}
    BY <1>1, <2>1, <2>3, ContentIsWhole
  <2>5. seen[r] = "pending" /\ seen1[r] = "ok"
    BY <1>3, <2>1
  <2> HIDE DEF seen, seen1, value, value1
  <2>6. seen1 = [seen EXCEPT ![r] = "ok"]
    BY <1>4, <2>2, <2>5
  <2>7. value1 = [value EXCEPT ![r] = value1[r]]
    BY <1>4, <2>2
  <2>8. Promise!Succeed(r)
    BY <2>4, <2>5, <2>6, <2>7 DEF Promise!Succeed, Promise!Pending, seen, seen1, value, value1
  <2> QED BY <2>8 DEF Promise!Next
<1>6. CASE \A r \in Read : Settles(r) => read'[r].st # "ok"
  <2> DEFINE rs == {r \in Read : Settles(r)}
  <2>1. \A r \in rs : seen[r] = "pending" /\ seen1[r] = "failed" /\ value1[r] = value[r]
    BY <1>3, <1>6
  <2>2. \A r \in Read : r \notin rs => seen1[r] = seen[r] /\ value1[r] = value[r]
    BY <1>2
  <2>3. rs \in SUBSET Read
    OBVIOUS
  <2> HIDE DEF seen, seen1, value, value1, rs
  <2>4. seen1 = [r \in Read |-> IF r \in rs THEN "failed" ELSE seen[r]]
    BY <1>4, <2>1, <2>2
  <2>5. value1 = value
    BY <1>4, <2>1, <2>2
  <2>6. Promise!Fail(rs)
    BY <2>1, <2>3, <2>4, <2>5 DEF Promise!Fail, Promise!Pending, seen, seen1, value, value1
  <2> QED BY <2>3, <2>6 DEF Promise!Next
<1> QED BY <1>5, <1>6

LEMMA StartKeepsPromise ==
    ASSUME TypeOK, TypeOK', NEW r \in Read, Start(r)
    PROVE  Promise!Next
<1> DEFINE seen == [q \in Read |-> Outcome(read[q])]
           seen1 == [q \in Read |-> Outcome(read'[q])]
           value == [q \in Read |-> Content(read[q])]
           value1 == [q \in Read |-> Content(read'[q])]
<1>1. PICK c, id : /\ read[r].st = "idle"
                   /\ read' = [read EXCEPT ![r].st = "requested", ![r].conn = c, ![r].id = id]
  BY DEF Start
<1>2. read[r] \in ReaderType /\ read'[r] \in ReaderType /\ read \in [Read -> ReaderType]
  BY DEF TypeOK
<1>3. read'[r].st = "requested" /\ \A q \in Read : q # r => read'[q] = read[q]
  BY <1>1, <1>2 DEF ReaderType
<1>4. Outcome(read[r]) = "none" /\ Outcome(read'[r]) = "pending"
      /\ Content(read[r]) = <<>> /\ Content(read'[r]) = <<>>
  BY <1>1, <1>2, <1>3, OutcomeOf DEF Active
<1>5. /\ seen[r] = "none" /\ seen1[r] = "pending" /\ value1[r] = value[r]
      /\ \A q \in Read : q # r => seen1[q] = seen[q] /\ value1[q] = value[q]
  BY <1>3, <1>4
<1>6. /\ seen1 = [q \in Read |-> seen1[q]] /\ value1 = [q \in Read |-> value1[q]]
      /\ seen = [q \in Read |-> seen[q]] /\ value = [q \in Read |-> value[q]]
  OBVIOUS
<1> HIDE DEF seen, seen1, value, value1
<1>7. seen1 = [seen EXCEPT ![r] = "pending"] /\ value1 = value
  BY <1>5, <1>6
<1>8. Promise!Request(r)
  BY <1>5, <1>7 DEF Promise!Request, seen, seen1, value, value1
<1> QED BY <1>8 DEF Promise!Next

\* A disposed multiplexer fails its readers, a time-out its own.
LEMMA FailuresKeepPromise ==
    ASSUME TypeOK, TypeOK',
           \A r \in Read : read'[r] # read[r] => read[r].st \in Active /\ read'[r] = Failed(read[r])
    PROVE  [Promise!Next]_(Promise!promiseVars)
<1>1. ASSUME NEW r \in Read, read'[r] # read[r]
      PROVE  /\ read[r].st \in Active /\ read'[r].st = "failed" /\ Collects(r, read'[r])
  <2>1. /\ read[r] \in ReaderType /\ read[r].st \in Active /\ read'[r] = Failed(read[r])
    BY <1>1 DEF TypeOK
  <2>2. /\ read'[r].st = "failed" /\ read'[r].got = <<>> /\ read'[r].queue = <<>>
    BY <2>1, FailedIsTyped
  <2> QED BY <2>1, <2>2, SetOfNone DEF Collects
<1>2. \A r \in Read : Settles(r) => read'[r].st # "ok"
  BY <1>1 DEF Settles, Active, Settled
<1>3. \A r \in Read : read'[r] # read[r] =>
             read[r].st \in Active /\ read'[r].st \in Active \cup Settled /\ Collects(r, read'[r])
  BY <1>1 DEF Settled
<1> QED BY <1>2, <1>3, ClientKeepsPromise

\* A frame settles the reader it is for: two streams never settle their readers at once.
LEMMA ReceiveKeepsPromise ==
    ASSUME IInv, TypeOK', Size \in Nat, NEW c \in Conns, Receive(c)
    PROVE  [Promise!Next]_(Promise!promiseVars)
<1> DEFINE f == Head(down[c])
           answer == f.kind \in {"metadata", "error"}
<1>1. TypeOK /\ down[c] \in Seq(FrameType) /\ down[c] # <<>>
  BY DEF Receive, IInv, TypeOK
<1>2. f \in FrameType /\ Genuine(c, f)
  <2>1. f \in FrameType /\ f \in ToSet(down[c])
    BY <1>1, SetOfTail
  <2> QED BY <2>1 DEF IInv, Answers
<1>3. read' = IF answer THEN Responded(c, f) ELSE Notified(c, f)
  BY DEF Receive
<1> HIDE DEF f
<1>4. CASE answer
  <2>1. \A r \in Read : read'[r] # read[r] =>
          read[r].st = "requested" /\ read'[r].st \in {"resolved", "failed"} /\ Collects(r, read'[r])
    BY <1>2, <1>3, <1>4, ResponseMoves
  <2>2. \A r \in Read : Settles(r) => read'[r].st # "ok"
    BY <2>1 DEF Settles, Active, Settled
  <2>3. \A r \in Read : read'[r] # read[r] =>
             read[r].st \in Active /\ read'[r].st \in Active \cup Settled /\ Collects(r, read'[r])
    BY <2>1 DEF Active, Settled
  <2> QED BY <1>1, <2>2, <2>3, ClientKeepsPromise
<1>5. CASE ~answer
  <2>1. Belongs(f.id, f.file)
    BY <1>2, <1>5 DEF Genuine
  <2>2. ASSUME NEW r \in Read, read'[r] # read[r]
        PROVE  /\ read[r].st \in Active /\ read'[r].st \in Active \cup Settled
               /\ Collects(r, read'[r])
               /\ read'[r].st \in Settled => r = f.file
    BY <1>2, <1>3, <1>5, <2>1, <2>2, NoticeMoves DEF Active, Settled
  <2>3. \A r \in Read : Settles(r) => read'[r] # read[r]
    BY DEF Settles, Active, Settled
  <2>4. \A r \in Read : Settles(r) => r = f.file
    BY <2>2, <2>3 DEF Settles
  <2>5. \A r, q \in Read : Settles(r) /\ Settles(q) /\ read'[r].st = "ok" => q = r
    BY <2>4
  <2> QED BY <1>1, <2>2, <2>5, ClientKeepsPromise
<1> QED BY <1>4, <1>5

LEMMA OnMetadataKeepsPromise ==
    ASSUME IInv, TypeOK', Size \in Nat, NEW r \in Read, OnMetadata(r)
    PROVE  [Promise!Next]_(Promise!promiseVars)
<1>1. /\ \A q \in Read : q # r => read'[q] = read[q]
      /\ read'[r].st \in {"streaming", "ok", "failed"} /\ Collects(r, read'[r])
  BY MetadataMoves
<1>2. read[r].st = "resolved" /\ TypeOK
  BY DEF OnMetadata, IInv
<1>3. \A q \in Read : read'[q] # read[q] =>
             read[q].st \in Active /\ read'[q].st \in Active \cup Settled /\ Collects(q, read'[q])
  BY <1>1, <1>2 DEF Active, Settled
<1>4. \A q \in Read : Settles(q) => q = r
  BY <1>1 DEF Settles, Active, Settled
<1>5. \A p, q \in Read : Settles(p) /\ Settles(q) /\ read'[p].st = "ok" => q = p
  BY <1>4
<1> QED BY <1>2, <1>3, <1>5, ClientKeepsPromise

\* The reads over the relay implement FileReads: for any files read at once, chunks, reconnects
\* and slots, a read settles once and for all, and a success is its own file, whole.
THEOREM ReadsKeepPromise == Spec => PromiseKept
<1>1. Init => Promise!Init
  <2> SUFFICES ASSUME Init PROVE Promise!Init
    OBVIOUS
  <2>1. \A r \in Read : read[r].st = "idle" /\ read[r] \in ReaderType
    BY InitIInv DEF Init, IInv, TypeOK
  <2>2. \A r \in Read : Outcome(read[r]) = "none" /\ Content(read[r]) = <<>>
    BY <2>1, OutcomeOf
  <2> QED BY <2>2 DEF Promise!Init
<1>2. IInv /\ IInv' /\ [Next]_vars => [Promise!Next]_(Promise!promiseVars)
  <2> SUFFICES ASSUME IInv, IInv', [Next]_vars PROVE [Promise!Next]_(Promise!promiseVars)
    OBVIOUS
  <2>1. TypeOK /\ TypeOK' /\ Size \in Nat
    BY ConstantsAssumption DEF IInv
  <2>2. ASSUME read' = read PROVE UNCHANGED Promise!promiseVars
    BY <2>2 DEF Promise!promiseVars
  <2>3. ASSUME NEW r \in Read, Start(r) PROVE Promise!Next
    BY <2>1, <2>3, StartKeepsPromise
  <2>4. ASSUME NEW r \in Read, Timeout(r) PROVE [Promise!Next]_(Promise!promiseVars)
    <3>1. \A q \in Read : read'[q] # read[q] => read[q].st \in Active /\ read'[q] = Failed(read[q])
      BY <2>1, <2>4 DEF Timeout, TypeOK, Active
    <3> QED BY <2>1, <3>1, FailuresKeepPromise
  <2>5. ASSUME NEW c \in Conns, Dispose(c) PROVE [Promise!Next]_(Promise!promiseVars)
    <3>1. \A q \in Read : read'[q] # read[q] => read[q].st \in Active /\ read'[q] = Failed(read[q])
      BY <2>1, <2>5 DEF Dispose, TypeOK, Active
    <3> QED BY <2>1, <3>1, FailuresKeepPromise
  <2>6. ASSUME NEW c \in Conns, Receive(c) PROVE [Promise!Next]_(Promise!promiseVars)
    BY <2>1, <2>6, ReceiveKeepsPromise
  <2>7. ASSUME NEW r \in Read, OnMetadata(r) PROVE [Promise!Next]_(Promise!promiseVars)
    BY <2>1, <2>7, OnMetadataKeepsPromise
  <2>8. \A c \in Conns : LinkBreaks(c) \/ Reconnect(c) \/ RelayReceive(c) \/ Detach(c) => read' = read
    BY DEF LinkBreaks, Reconnect, RelayReceive, Detach
  <2>9. \A j \in job : FileOpened(j) => read' = read
    BY DEF FileOpened
  <2>10. \A s \in 1 .. Len(stream) : Pump(s) => read' = read
    BY DEF Pump
  <2>11. UNCHANGED vars => read' = read
    BY DEF vars
  <2> QED BY <2>2, <2>3, <2>4, <2>5, <2>6, <2>7, <2>8, <2>9, <2>10, <2>11
          DEF Next, ClientLoop, RelayLoop
<1> QED BY <1>1, <1>2, Invariance, PTL DEF Spec, PromiseKept, Promise!Spec

=============================================================================
