--------------------------- MODULE RpcServerProofs ---------------------------
(***************************************************************************)
(* Proofs about the RPC server, for every set of connections, devices and  *)
(* calls and for every capacity.                                           *)
(***************************************************************************)
EXTENDS RpcServer, FiniteSetTheorems, TLAPS

\* The actions that leave the calls alone.
NetStep ==
    \/ \E n \in Conn : Connect(n)
    \/ \E n \in Ws : WsStep(n)
    \/ \E n \in Unix : IdleTimeout(n)
    \/ \E d \in Device : Revoke(d)
    \/ Sweep \/ Tick

\* The connections that end.
EndStep == \E n \in Conn : sock[n] \in {"open", "dying"} /\ Finalized(n)

\* Next, by what the steps touch.
LEMMA NextCases ==
    ASSUME Next
    PROVE  (\E c \in Call : CallStep(c)) \/ (\E c \in Stream : StreamStep(c)) \/ EndStep \/ NetStep
BY DEF Next, EndStep, NetStep, Dies, PeerCloses

-----------------------------------------------------------------------------
(***************************************************************************)
(* Types.                                                                  *)
(***************************************************************************)

\* A call's step keeps the types.
LEMMA CallTypes ==
    ASSUME TypeOK, NEW c \in Call, CallStep(c)
    PROVE  TypeOK'
<1> USE DEF TypeOK
<1>1. CASE Arrives(c)
  <2>1. c \in Watch \cup Tabs \cup Mirror => c \in Stream
    BY DEF Stream
  <2>2. quiet' \in [Unix -> 0..IdleTicks] /\ alive' \in [Ws -> BOOLEAN]
        /\ UNCHANGED <<sock, silent, client, known, revoked>>
    BY <1>1, RpcAssumption DEF Arrives, Heard
  <2>3. activeLongPolls' \in Nat
    BY <1>1 DEF Arrives
  <2>4. pc' \in [Call -> {"new", "waiting", "setup", "streaming", "done"}]
    BY <1>1 DEF Arrives, Register
  <2>5. entries' \subseteq Stream /\ listening' \subseteq Stream
    BY <1>1, <2>1 DEF Arrives, Register
  <2> QED BY <2>2, <2>3, <2>4, <2>5
<1>2. CASE HandlerEnds(c)
  BY <1>2, RpcAssumption DEF HandlerEnds, GiveBack
<1> QED BY <1>1, <1>2 DEF CallStep

\* A stream's step keeps the types.
LEMMA StreamTypes ==
    ASSUME TypeOK, NEW c \in Stream, StreamStep(c)
    PROVE  TypeOK'
<1> USE DEF TypeOK
<1>1. CASE SetUp(c)
  <2>1. UNCHANGED <<netVars, activeLongPolls>>
    BY <1>1 DEF SetUp
  <2>2. pc' \in [Call -> {"new", "waiting", "setup", "streaming", "done"}]
    BY <1>1 DEF SetUp, Register
  <2> QED BY <1>1, <2>1, <2>2 DEF netVars, SetUp, Register
<1>2. CASE SetUpFails(c)
  <2>1. UNCHANGED <<netVars, activeLongPolls>>
    BY <1>2 DEF SetUpFails
  <2>2. pc' \in [Call -> {"new", "waiting", "setup", "streaming", "done"}]
    BY <1>2 DEF SetUpFails, Cleanup
  <2> QED BY <1>2, <2>1, <2>2 DEF netVars, SetUpFails, Cleanup
<1>3. CASE Unsubscribe(c)
  BY <1>3 DEF Unsubscribe, Cleanup, netVars
<1> QED BY <1>1, <1>2, <1>3 DEF StreamStep

\* The end of a connection keeps the types.
LEMMA EndTypes ==
    ASSUME TypeOK, NEW n \in Conn, Finalized(n)
    PROVE  TypeOK'
<1>1. pc' \in [Call -> {"new", "waiting", "setup", "streaming", "done"}]
      /\ entries' \subseteq Stream /\ listening' \subseteq Stream
  BY DEF TypeOK, Finalized, Cleanup
<1>2. UNCHANGED <<revoked, activeLongPolls>>
      /\ quiet' \in [Unix -> 0..IdleTicks]
      /\ alive' \in [Ws -> BOOLEAN] /\ silent' \in [Ws -> BOOLEAN]
  BY RpcAssumption DEF TypeOK, Finalized
<1>3. sock' \in [Conn -> {"new", "open", "dying", "gone"}]
      /\ client' \in [Ws -> Device \cup {None}] /\ known' \subseteq Device
  BY DEF TypeOK, Finalized
<1> QED BY <1>1, <1>2, <1>3 DEF TypeOK

\* The other steps of the connections keep the types.
LEMMA NetTypes ==
    ASSUME TypeOK, NetStep
    PROVE  TypeOK'
<1> USE DEF TypeOK, callVars
<1>1. ASSUME NEW n \in Conn, Connect(n) PROVE TypeOK'
  BY <1>1 DEF Connect
<1>2. ASSUME NEW n \in Ws, WsStep(n) PROVE TypeOK'
  <2>1. n \in Conn
    BY DEF Conn
  <2>2. CASE Authenticate(n)
    BY <2>2, RpcAssumption DEF Authenticate
  <2>3. CASE Refused(n)
    BY <2>3 DEF Refused, Doomed
  <2>4. CASE Suspends(n)
    BY <2>4 DEF Suspends
  <2>5. CASE Pong(n)
    BY <2>5 DEF Pong
  <2> QED BY <1>2, <2>2, <2>3, <2>4, <2>5 DEF WsStep
<1>3. ASSUME NEW n \in Unix, IdleTimeout(n) PROVE TypeOK'
  BY <1>3 DEF IdleTimeout
<1>4. ASSUME NEW d \in Device, Revoke(d) PROVE TypeOK'
  BY <1>4 DEF Revoke, Doomed
<1>5. CASE Sweep
  BY <1>5 DEF Sweep, Doomed
<1>6. CASE Tick
  BY <1>6, RpcAssumption DEF Tick
<1> QED BY <1>1, <1>2, <1>3, <1>4, <1>5, <1>6 DEF NetStep


\* Every step keeps the types.
LEMMA StepTypes ==
    ASSUME TypeOK, [Next]_vars
    PROVE  TypeOK'
<1>1. CASE UNCHANGED vars
  BY <1>1 DEF TypeOK, vars, netVars
<1>2. CASE Next
  <2>1. ASSUME EndStep PROVE TypeOK'
    BY <2>1, EndTypes DEF EndStep
  <2> QED BY <1>2, <2>1, NextCases, CallTypes, StreamTypes, NetTypes
<1> QED BY <1>1, <1>2

-----------------------------------------------------------------------------
(***************************************************************************)
(* Which calls wait: what happens to streams and connections leaves the    *)
(* set of waiting calls as it is.                                          *)
(***************************************************************************)
Waits == {c \in Wait : Waiting(c)}

\* A clean-up turns no handler into a waiting one and ends no wait.
LEMMA CleanupWaits ==
    ASSUME TypeOK, NEW S, Cleanup(S, pc)
    PROVE  \A c \in Call : Waiting(c)' <=> Waiting(c)
BY DEF TypeOK, Cleanup, Waiting

\* Streams and connections leave the waiting calls alone.
LEMMA OthersKeepWaits ==
    ASSUME TypeOK, (\E c \in Stream : StreamStep(c)) \/ EndStep \/ NetStep
    PROVE  /\ UNCHANGED activeLongPolls
           /\ \A c \in Call : Waiting(c)' <=> Waiting(c)
<1>1. ASSUME NEW c \in Stream, StreamStep(c)
      PROVE  UNCHANGED activeLongPolls /\ \A k \in Call : Waiting(k)' <=> Waiting(k)
  <2>1. c \in Call /\ pc \in [Call -> {"new", "waiting", "setup", "streaming", "done"}]
    BY DEF Call, TypeOK
  <2>2. CASE SetUp(c)
    BY <2>1, <2>2 DEF SetUp, Register, Waiting
  <2>3. CASE SetUpFails(c)
    BY <2>1, <2>3 DEF SetUpFails, Cleanup, Waiting
  <2>4. CASE Unsubscribe(c)
    BY <2>4, CleanupWaits DEF Unsubscribe
  <2> QED BY <1>1, <2>2, <2>3, <2>4 DEF StreamStep
<1>2. ASSUME EndStep
      PROVE  UNCHANGED activeLongPolls /\ \A k \in Call : Waiting(k)' <=> Waiting(k)
  BY <1>2, CleanupWaits DEF EndStep, Finalized
<1>3. ASSUME NetStep
      PROVE  UNCHANGED activeLongPolls /\ \A k \in Call : Waiting(k)' <=> Waiting(k)
  <2>1. UNCHANGED callVars
    BY <1>3 DEF NetStep, Connect, WsStep, Authenticate, Refused, Suspends, Pong, Doomed,
                IdleTimeout, Revoke, Sweep, Tick
  <2> QED BY <2>1 DEF callVars, Waiting
<1> QED BY <1>1, <1>2, <1>3

\* The counter follows the set of waiting calls.
LEMMA StepSlots ==
    ASSUME TypeOK, SlotsExact, [Next]_vars
    PROVE  SlotsExact'
<1> DEFINE W == Waits
<1>1. IsFiniteSet(W) /\ W \subseteq Wait /\ Cardinality(W) = activeLongPolls
  <2>1. W \subseteq Call
    BY DEF Waits, Call
  <2> QED BY <2>1, RpcAssumption, FS_Subset DEF Waits, SlotsExact
<1>2. SUFFICES activeLongPolls' = Cardinality(Waits')
  BY DEF SlotsExact, Waits
<1>3. Wait \subseteq Call /\ pc \in [Call -> {"new", "waiting", "setup", "streaming", "done"}]
      /\ activeLongPolls \in Nat
  BY DEF Call, TypeOK
<1>4. ASSUME UNCHANGED activeLongPolls, \A c \in Call : Waiting(c)' <=> Waiting(c)
      PROVE  activeLongPolls' = Cardinality(Waits')
  <2>1. Waits' = Waits
    BY <1>3, <1>4 DEF Waits
  <2> QED BY <1>1, <1>4, <2>1
<1>5. ASSUME NEW c \in Call, CallStep(c)
      PROVE  activeLongPolls' = Cardinality(Waits')
  <2>1. CASE /\ Arrives(c) /\ c \in Wait /\ activeLongPolls < LongPollCap
             /\ activeLongPolls' = activeLongPolls + 1
    <3>1. pc' = [pc EXCEPT ![c] = "waiting"] /\ pc[c] = "new"
      BY <2>1, RpcAssumption DEF Arrives, Stream
    <3>2. Waits' = W \cup {c} /\ c \notin W
      BY <1>3, <2>1, <3>1 DEF Waits, Waiting
    <3> QED BY <1>1, <1>3, <2>1, <3>2, FS_AddElement
  <2>2. CASE HandlerEnds(c) /\ c \in Wait
    <3>1. Waits' = W \ {c} /\ c \in W
      BY <1>3, <2>2 DEF HandlerEnds, Waits, Waiting
    <3>2. Cardinality(W \ {c}) = Cardinality(W) - 1 /\ Cardinality(W) > 0
      <4>1. Cardinality(W \ {c}) = Cardinality(W) - 1
        BY <1>1, <3>1, FS_RemoveElement
      <4>2. Cardinality(W \ {c}) \in Nat
        BY <1>1, FS_Subset, FS_CardinalityType
      <4> QED BY <1>1, <1>3, <4>1, <4>2
    <3> QED BY <1>1, <1>3, <2>2, <3>1, <3>2 DEF HandlerEnds, GiveBack
  <2>3. CASE HandlerEnds(c) /\ c \notin Wait
    <3>1. Waits' = W
      BY <1>3, <2>3 DEF HandlerEnds, Waits, Waiting
    <3> QED BY <1>1, <2>3, <3>1 DEF HandlerEnds
  <2>4. CASE Arrives(c) /\ activeLongPolls' = activeLongPolls
    <3>1. \A k \in Wait : k # c \/ pc'[k] # "waiting"
      BY <1>3, <2>4, RpcAssumption DEF Arrives, Register, Stream
    <3>2. \A k \in Wait : k # c => (pc'[k] = "waiting" <=> pc[k] = "waiting")
      BY <1>3, <2>4 DEF Arrives, Register
    <3>3. Waits' = W
      BY <2>4, <3>1, <3>2 DEF Waits, Waiting, Arrives
    <3> QED BY <1>1, <2>4, <3>3
  <2>5. Arrives(c) => \/ activeLongPolls' = activeLongPolls
                      \/ /\ c \in Wait /\ activeLongPolls < LongPollCap
                         /\ activeLongPolls' = activeLongPolls + 1
    BY DEF Arrives
  <2>6. CASE Arrives(c)
    BY <2>1, <2>4, <2>5, <2>6
  <2> QED BY <1>5, <2>2, <2>3, <2>6 DEF CallStep
<1>6. CASE UNCHANGED vars
  BY <1>4, <1>6 DEF vars, Waiting
<1>7. CASE Next
  BY <1>4, <1>5, <1>7, NextCases, OthersKeepWaits
<1> QED BY <1>6, <1>7

-----------------------------------------------------------------------------
(***************************************************************************)
(* The idle timer.                                                         *)
(***************************************************************************)

\* A wait keeps its connection's idle count below the limit.
LEMMA StepIdle ==
    ASSUME TypeOK, WaitSurvivesIdle, [Next]_vars
    PROVE  WaitSurvivesIdle'
<1>1. /\ Wait \subseteq Call /\ Unix \subseteq Conn
      /\ pc \in [Call -> {"new", "waiting", "setup", "streaming", "done"}]
      /\ quiet \in [Unix -> 0..IdleTicks] /\ IdleTicks \in Nat \ {0}
  BY RpcAssumption DEF Call, Conn, TypeOK
<1>2. SUFFICES ASSUME NEW n \in Unix, quiet'[n] = IdleTicks,
                      NEW c \in Wait, On[c] = n, Waiting(c)'
               PROVE  FALSE
  BY DEF WaitSurvivesIdle
<1>3. quiet[n] = IdleTicks => ~Waiting(c)
  BY <1>2 DEF WaitSurvivesIdle
<1>4. ASSUME NEW k \in Call, Arrives(k) PROVE FALSE
  <2>1. quiet'[On[k]] = 0 \/ On[k] \notin Unix
    BY <1>1, <1>4 DEF Arrives, Heard
  <2>2. On[k] # n /\ k # c
    BY <1>1, <1>2, <2>1
  <2>3. quiet'[n] = quiet[n]
    BY <1>1, <1>4, <2>2 DEF Arrives, Heard
  <2>4. Waiting(c)
    BY <1>1, <1>2, <1>4, <2>2 DEF Arrives, Register, Waiting
  <2> QED BY <1>2, <1>3, <2>3, <2>4
<1>5. ASSUME NEW k \in Call, HandlerEnds(k) PROVE FALSE
  <2>1. Waiting(c)
    BY <1>1, <1>2, <1>5 DEF HandlerEnds, Waiting
  <2>2. quiet'[n] = quiet[n]
    BY <1>1, <1>2, <1>5 DEF HandlerEnds
  <2> QED BY <1>2, <1>3, <2>1, <2>2
<1>6. CASE (\E k \in Stream : StreamStep(k)) \/ EndStep \/ NetStep
  <2>1. Waiting(c)
    BY <1>1, <1>2, <1>6, OthersKeepWaits
  <2>2. CASE \E k \in Stream : StreamStep(k)
    BY <1>2, <1>3, <2>1, <2>2
       DEF StreamStep, SetUp, SetUpFails, Unsubscribe, netVars
  <2>3. CASE EndStep
    BY <1>1, <1>2, <1>3, <2>1, <2>3 DEF EndStep, Finalized
  <2>4. CASE Tick
    BY <1>1, <1>2, <1>3, <2>1, <2>4 DEF Tick, KeptAlive
  <2>5. CASE NetStep /\ ~Tick
    <3>1. UNCHANGED quiet
      BY <2>5 DEF NetStep, Connect, WsStep, Authenticate, Refused, Suspends, Pong, Doomed,
                  IdleTimeout, Revoke, Sweep
    <3> QED BY <1>2, <1>3, <2>1, <3>1
  <2> QED BY <1>6, <2>2, <2>3, <2>4, <2>5
<1>7. CASE UNCHANGED vars
  BY <1>2, <1>3, <1>7 DEF vars, netVars, Waiting
<1>8. CASE Next
  BY <1>4, <1>5, <1>6, <1>8, NextCases DEF CallStep
<1> QED BY <1>7, <1>8

-----------------------------------------------------------------------------
(***************************************************************************)
(* Listeners: what listens has an entry, and an entry has a connection,    *)
(* session.tabs.subscribe apart.                                           *)
(***************************************************************************)
Backed ==
    /\ listening \subseteq entries
    /\ \A c \in entries \ Tabs : sock[On[c]] # "gone"

\* A stream's own steps keep its entry and its listener together.
LEMMA StreamBacked ==
    ASSUME TypeOK, Backed, NEW c \in Stream, StreamStep(c)
    PROVE  Backed'
<1>1. UNCHANGED sock
  BY DEF StreamStep, SetUp, SetUpFails, Unsubscribe, netVars
<1>2. CASE SetUp(c)
  <2>1. CASE UNCHANGED <<entries, listening>>
    BY <1>1, <2>1 DEF Backed
  <2>2. CASE c \in Mirror /\ c \in entries /\ UNCHANGED entries
             /\ listening' = listening \cup {c}
    BY <1>1, <2>2 DEF Backed
  <2>3. CASE /\ c \notin Mirror /\ ~(c \in Watch /\ Aborted(c))
             /\ entries' = (entries \ (entries \cap {c})) \cup {c}
             /\ listening' = listening \cup {c}
    <3>1. c \in Tabs \/ sock[On[c]] # "gone"
      BY <2>3, RpcAssumption DEF Stream, Aborted, HasSignal
    <3> QED BY <1>1, <2>3, <3>1 DEF Backed
  <2> QED BY <1>2, <2>1, <2>2, <2>3, RpcAssumption DEF SetUp, Register, SameId
<1>3. CASE SetUpFails(c)
  BY <1>1, <1>3 DEF SetUpFails, Cleanup, Backed
<1>4. CASE Unsubscribe(c)
  BY <1>1, <1>4 DEF Unsubscribe, Cleanup, Backed
<1> QED BY <1>2, <1>3, <1>4 DEF StreamStep

\* The sweep of a closing connection takes its entries, and no others lose their socket.
LEMMA EndBacked ==
    ASSUME TypeOK, Backed, NEW n \in Conn, Finalized(n)
    PROVE  Backed'
<1>1. listening' \subseteq entries'
  BY DEF Finalized, Cleanup, Backed
<1>2. ASSUME NEW c \in entries', c \notin Tabs PROVE sock'[On[c]] # "gone"
  <2>1. c \in entries /\ On[c] # n
    BY DEF Finalized, Cleanup
  <2>2. On[c] \in Conn
    BY <2>1, RpcAssumption DEF TypeOK, Call
  <2> QED BY <1>2, <2>1, <2>2 DEF Finalized, Backed, TypeOK
<1> QED BY <1>1, <1>2 DEF Backed

\* No step breaks the bond.
LEMMA StepBacked ==
    ASSUME TypeOK, Backed, [Next]_vars
    PROVE  Backed'
<1>1. ASSUME NEW c \in Call, CallStep(c) PROVE Backed'
  <2>1. CASE HandlerEnds(c)
    BY <2>1 DEF HandlerEnds, Backed
  <2>2. CASE Arrives(c) /\ UNCHANGED <<entries, listening>>
    BY <2>2 DEF Arrives, Heard, Backed
  <2>3. CASE /\ Arrives(c)
             /\ entries' = (entries \ (entries \cap SameId(c))) \cup {c}
             /\ listening' = listening \ (entries \cap SameId(c))
    <3>1. sock[On[c]] # "gone" /\ UNCHANGED sock
      BY <2>3 DEF Arrives, Heard
    <3> QED BY <2>3, <3>1 DEF Backed
  <2> QED BY <1>1, <2>1, <2>2, <2>3 DEF CallStep, Arrives, Register
<1>2. CASE EndStep
  BY <1>2, EndBacked DEF EndStep
<1>3. CASE NetStep
  <2>1. UNCHANGED <<entries, listening>>
    BY <1>3 DEF NetStep, Connect, WsStep, Authenticate, Refused, Suspends, Pong, Doomed,
                IdleTimeout, Revoke, Sweep, Tick, callVars
  <2>2. \A n \in Conn : sock[n] # "gone" => sock'[n] # "gone"
    BY <1>3 DEF NetStep, Connect, WsStep, Authenticate, Refused, Suspends, Pong, Doomed,
                IdleTimeout, Revoke, Sweep, Tick, TypeOK, Conn
  <2>3. \A c \in entries : On[c] \in Conn
    BY RpcAssumption DEF TypeOK, Call
  <2> QED BY <2>1, <2>2, <2>3 DEF Backed
<1>4. CASE UNCHANGED vars
  BY <1>4 DEF vars, netVars, Backed
<1>5. CASE Next
  BY <1>1, <1>2, <1>3, <1>5, NextCases, StreamBacked
<1> QED BY <1>4, <1>5

-----------------------------------------------------------------------------
(***************************************************************************)
(* Client-scoped state.                                                    *)
(***************************************************************************)

\* A device is known exactly while one of its connections carries its id.
LEMMA StepTornDown ==
    ASSUME TypeOK, TornDownWithLast, [Next]_vars
    PROVE  TornDownWithLast'
<1>1. client \in [Ws -> Device \cup {None}] /\ None \notin Device /\ known \subseteq Device
      /\ Ws \subseteq Conn /\ DeviceOf \in [Ws -> Device]
  BY RpcAssumption DEF TypeOK, Conn
<1>2. ASSUME UNCHANGED <<client, known>> PROVE TornDownWithLast'
  BY <1>2 DEF TornDownWithLast
<1>3. ASSUME NEW n \in Ws, Authenticate(n) PROVE TornDownWithLast'
  <2>1. client' = [client EXCEPT ![n] = DeviceOf[n]] /\ client[n] = None
        /\ known' = known \cup {DeviceOf[n]}
    BY <1>3 DEF Authenticate
  <2>2. {client'[m] : m \in Ws} \ {None} = ({client[m] : m \in Ws} \ {None}) \cup {DeviceOf[n]}
    BY <1>1, <2>1
  <2> QED BY <2>1, <2>2 DEF TornDownWithLast
<1>4. ASSUME NEW n \in Conn, Finalized(n) PROVE TornDownWithLast'
  <2>1. client' = [m \in Ws |-> IF m = n THEN None ELSE client[m]]
    BY <1>4 DEF Finalized
  <2>2. CASE n \notin Ws
    <3>1. client' = client /\ known' = known
      BY <1>1, <1>4, <2>1, <2>2 DEF Finalized
    <3> QED BY <1>2, <3>1
  <2>3. CASE n \in Ws /\ HasOtherConnections(n)
    <3>1. known' = known
      BY <1>4, <2>3 DEF Finalized
    <3>2. PICK k \in Ws \ {n} : client[k] = client[n]
      BY <2>3 DEF HasOtherConnections
    <3>3. {client'[m] : m \in Ws} \ {None} = {client[m] : m \in Ws} \ {None}
      BY <2>1, <3>2
    <3> QED BY <3>1, <3>3 DEF TornDownWithLast
  <2>4. CASE n \in Ws /\ ~HasOtherConnections(n)
    <3>1. known' = known \ {client[n]}
      BY <1>4, <2>4 DEF Finalized
    <3>2. client[n] = None \/ \A m \in Ws \ {n} : client[m] # client[n]
      BY <2>4 DEF HasOtherConnections
    <3>3. {client'[m] : m \in Ws} \ {None} = ({client[m] : m \in Ws} \ {None}) \ {client[n]}
      BY <2>1, <2>4, <3>2
    <3> QED BY <3>1, <3>3 DEF TornDownWithLast
  <2> QED BY <2>2, <2>3, <2>4
<1>5. CASE NetStep /\ ~\E n \in Ws : Authenticate(n)
  BY <1>2, <1>5 DEF NetStep, Connect, WsStep, Refused, Suspends, Pong, Doomed,
                    IdleTimeout, Revoke, Sweep, Tick
<1>6. ASSUME NEW c \in Call, CallStep(c) PROVE TornDownWithLast'
  BY <1>2, <1>6 DEF CallStep, Arrives, Heard, HandlerEnds
<1>7. ASSUME NEW c \in Stream, StreamStep(c) PROVE TornDownWithLast'
  BY <1>2, <1>7 DEF StreamStep, SetUp, SetUpFails, Unsubscribe, netVars
<1>8. CASE UNCHANGED vars
  BY <1>2, <1>8 DEF vars, netVars
<1>9. CASE Next
  <2>1. ASSUME EndStep PROVE TornDownWithLast'
    BY <1>4, <2>1 DEF EndStep
  <2> QED BY <1>3, <1>5, <1>6, <1>7, <1>9, <2>1, NextCases
<1> QED BY <1>8, <1>9

-----------------------------------------------------------------------------
(***************************************************************************)
(* Theorems.                                                               *)
(***************************************************************************)
IInv == TypeOK /\ SlotsExact /\ WaitSurvivesIdle /\ Backed /\ TornDownWithLast

\* The server starts without calls, connections or state.
LEMMA InitIInv ==
    ASSUME Init
    PROVE  IInv
<1>1. TypeOK
  BY RpcAssumption DEF Init, TypeOK
<1>2. SlotsExact
  <2>1. {c \in Wait : Waiting(c)} = {}
    BY DEF Init, Waiting, Call
  <2> QED BY <2>1, FS_EmptySet DEF Init, SlotsExact
<1>3. WaitSurvivesIdle /\ Backed /\ TornDownWithLast
  BY RpcAssumption DEF Init, WaitSurvivesIdle, Backed, TornDownWithLast
<1> QED BY <1>1, <1>2, <1>3 DEF IInv

\* The inductive invariant: types, the slot counter, the idle counts, subscription entries
\* bound to connections, and devices known by their connections.
THEOREM Invariance == Spec => []IInv
<1>1. IInv /\ [Next]_vars => IInv'
  BY StepTypes, StepSlots, StepIdle, StepBacked, StepTornDown DEF IInv
<1> QED BY <1>1, InitIInv, PTL DEF Spec

\* The state is well-typed and the counter that the cap is compared with counts the long
\* polls that run, however many connections, calls and slots there are.
THEOREM SlotsCounted == Spec => []Sound
<1>1. IInv => Sound
  BY DEF IInv, Sound
<1> QED BY <1>1, Invariance, PTL

\* No long poll loses its connection to the idle timer.
THEOREM WaitsOutliveIdle == Spec => []WaitSurvivesIdle
<1>1. IInv => WaitSurvivesIdle
  BY DEF IInv
<1> QED BY <1>1, Invariance, PTL

\* A file watch or a terminal subscription leaves no listener behind its connection,
\* wherever in its set-up the connection closes.
THEOREM NoListenerLeaks == Spec => []NoLeakedListener
<1>1. IInv => NoLeakedListener
  BY RpcAssumption DEF IInv, Backed, NoLeakedListener, Listens
<1> QED BY <1>1, Invariance, PTL

\* Client-scoped state goes with the device's last connection and not before.
THEOREM LastTearsDown == Spec => []TornDownWithLast
<1>1. IInv => TornDownWithLast
  BY DEF IInv
<1> QED BY <1>1, Invariance, PTL

=============================================================================
