----------------------------- MODULE RpcServer -----------------------------
(***************************************************************************)
(* The runtime's RPC server (runtime-rpc.ts) over its two transports: the  *)
(* Unix socket the CLI uses and the WebSockets of paired devices.          *)
(*                                                                         *)
(* What outlives a single step here is a call whose handler awaits: a long *)
(* poll that holds one of LongPollCap slots, an ask, or a subscription     *)
(* that is being set up or streams.  Connections end under them: by the    *)
(* peer, by the idle timer of the Unix socket, by the heartbeat sweep, by  *)
(* the pre-authentication timer or by revocation.  A server-side end is    *)
(* two steps: destroy or terminate, and the socket's 'close' event.        *)
(*                                                                         *)
(* A connection is used once; a reconnecting client is another one.  Time  *)
(* on the Unix socket is counted in keepalive intervals (10 s).            *)
(***************************************************************************)
EXTENDS Integers, FiniteSets

CONSTANTS
    Unix, Ws,     \* connections
    Device,       \* paired devices
    Wait,         \* terminal.wait and orchestration.check --wait calls
    Ask,          \* orchestration.ask calls
    Watch,        \* files.watch
    Tabs,         \* session.tabs.subscribe
    Mirror,       \* terminal.subscribe calls of one device for one terminal
    On,           \* the connection of a call
    DeviceOf,     \* the device behind a WebSocket
    LongPollCap,
    IdleTicks,    \* keepalive intervals without traffic until the idle timer fires
    None

Conn == Unix \cup Ws
Stream == Watch \cup Tabs \cup Mirror
Call == Wait \cup Ask \cup Stream

ASSUME RpcAssumption ==
    /\ Unix \cap Ws = {}
    /\ On \in [Call -> Conn] /\ \A c \in Stream : On[c] \in Ws
    /\ DeviceOf \in [Ws -> Device] /\ None \notin Device
    /\ Stream \cap (Wait \cup Ask) = {} /\ Wait \cap Ask = {}
    /\ Watch \cap (Tabs \cup Mirror) = {} /\ Tabs \cap Mirror = {}
    /\ IsFiniteSet(Call)
    /\ LongPollCap \in Nat /\ IdleTicks \in Nat \ {0}

VARIABLES
    sock,            \* state of a connection
    quiet,           \* intervals a Unix socket has carried nothing
    alive,           \* wsAlive: heard from since the last sweep
    silent,          \* the device sleeps: it answers nothing and closes nothing
    client,          \* wsClientIds
    known,           \* devices with client-scoped state in the runtime
    revoked,         \* devices whose token is no longer valid
    activeLongPolls,
    pc,              \* where a call's handler is
    entries,         \* calls whose cleanup is in subscriptionCleanups
    listening        \* calls with a listener on the runtime

netVars == <<sock, quiet, alive, silent, client, known, revoked>>
vars == <<netVars, activeLongPolls, pc, entries, listening>>

TypeOK ==
    /\ sock \in [Conn -> {"new", "open", "dying", "gone"}]
    /\ quiet \in [Unix -> 0..IdleTicks]
    /\ alive \in [Ws -> BOOLEAN] /\ silent \in [Ws -> BOOLEAN]
    /\ client \in [Ws -> Device \cup {None}]
    /\ known \subseteq Device /\ revoked \subseteq Device
    /\ activeLongPolls \in Nat
    /\ pc \in [Call -> {"new", "waiting", "setup", "streaming", "done"}]
    /\ entries \subseteq Stream /\ listening \subseteq Stream

Init ==
    /\ sock = [n \in Conn |-> "new"]
    /\ quiet = [n \in Unix |-> 0]
    /\ alive = [n \in Ws |-> FALSE] /\ silent = [n \in Ws |-> FALSE]
    /\ client = [n \in Ws |-> None]
    /\ known = {} /\ revoked = {}
    /\ activeLongPolls = 0
    /\ pc = [c \in Call |-> "new"]
    /\ entries = {} /\ listening = {}

Waiting(c) == pc[c] = "waiting"

(***************************************************************************)
(* Calls and what their end takes away.                                    *)
(***************************************************************************)
\* Mutated: a WebSocket dispatch gets no signal.
HasSignalUnixOnly(c) == c \in Wait /\ On[c] \in Unix

\* Every WebSocket dispatch gets an abort signal, a Unix one only when it is a long poll.
HasSignal(c) == On[c] \in Ws \/ c \in Wait

Aborted(c) == HasSignal(c) /\ sock[On[c]] = "gone"

\* The subscription ids of two terminal.subscribe calls are equal.
SameId(c) == IF c \in Mirror THEN Mirror ELSE {c}

\* cleanupSubscription for the entries in S, where the handlers p are: a handler whose
\* set-up is still pending notices when it resumes.
Cleanup(S, p) ==
    /\ entries' = entries \ S
    /\ listening' = listening \ S
    /\ pc' = [c \in Call |-> IF c \in S /\ p[c] = "streaming" THEN "done" ELSE p[c]]

\* registerSubscriptionCleanup: an entry with the same id is cleaned up first.
Register(c, p) ==
    LET old == entries \cap SameId(c) IN
    /\ entries' = (entries \ old) \cup {c}
    /\ pc' = [k \in Call |-> IF k \in old /\ p[k] = "streaming" THEN "done" ELSE p[k]]

Heard(n) ==
    /\ quiet' = [m \in Unix |-> IF m = n THEN 0 ELSE quiet[m]]
    /\ alive' = [m \in Ws |-> m = n \/ alive[m]]
    /\ UNCHANGED <<sock, silent, client, known, revoked>>

\* A request arrives: the slot is taken, or refused with runtime_busy.
Arrives(c) ==
    LET n == On[c] IN
    /\ pc[c] = "new" /\ sock[n] = "open"
    /\ n \in Ws => client[n] # None /\ ~silent[n]
    /\ Heard(n)
    /\ \/ /\ c \in Wait /\ activeLongPolls >= LongPollCap
          /\ pc' = [pc EXCEPT ![c] = "done"]
          /\ UNCHANGED <<activeLongPolls, entries, listening>>
       \/ /\ c \in Wait /\ activeLongPolls < LongPollCap
          /\ activeLongPolls' = activeLongPolls + 1
          /\ pc' = [pc EXCEPT ![c] = "waiting"]
          /\ UNCHANGED <<entries, listening>>
       \/ /\ c \in Ask \cup Watch \cup Tabs
          /\ pc' = [pc EXCEPT ![c] = IF c \in Ask THEN "waiting" ELSE "setup"]
          /\ UNCHANGED <<activeLongPolls, entries, listening>>
       \/ /\ c \in Mirror
          /\ Register(c, [pc EXCEPT ![c] = "setup"])
          /\ listening' = listening \ (entries \cap SameId(c))
          /\ UNCHANGED activeLongPolls

\* Math.max(0, activeLongPolls - 1)
GiveBack == IF activeLongPolls > 0 THEN activeLongPolls - 1 ELSE 0

\* Mutated: a handler that its signal ended keeps the slot.
HandlerEndsKeepsSlot(c) ==
    /\ Waiting(c)
    /\ pc' = [pc EXCEPT ![c] = "done"]
    /\ activeLongPolls' = IF c \in Wait /\ ~Aborted(c) THEN GiveBack ELSE activeLongPolls
    /\ quiet' = [m \in Unix |-> IF m = On[c] /\ sock[m] = "open" THEN 0 ELSE quiet[m]]
    /\ UNCHANGED <<sock, alive, silent, client, known, revoked, entries, listening>>

\* The event, the handler's own time-out or its signal: the slot is given back and the
\* answer, if there is still a connection, written.
HandlerEnds(c) ==
    /\ Waiting(c)
    /\ pc' = [pc EXCEPT ![c] = "done"]
    /\ activeLongPolls' = IF c \in Wait THEN GiveBack ELSE activeLongPolls
    /\ quiet' = [m \in Unix |-> IF m = On[c] /\ sock[m] = "open" THEN 0 ELSE quiet[m]]
    /\ UNCHANGED <<sock, alive, silent, client, known, revoked, entries, listening>>

\* Mutated: files.watch registers without a look at its signal.
SetUpUnchecked(c) ==
    /\ pc[c] = "setup"
    /\ IF c \in Mirror /\ c \notin entries
       THEN /\ pc' = [pc EXCEPT ![c] = "done"]
            /\ UNCHANGED <<entries, listening>>
       ELSE /\ Register(c, [pc EXCEPT ![c] = "streaming"])
            /\ listening' = listening \cup {c}
    /\ UNCHANGED <<netVars, activeLongPolls>>

\* The awaits before the stream starts are over.  files.watch looks at its signal,
\* terminal.subscribe at whether its entry was cleaned up, session.tabs.subscribe at
\* nothing.
SetUp(c) ==
    /\ pc[c] = "setup"
    /\ IF (c \in Watch /\ Aborted(c)) \/ (c \in Mirror /\ c \notin entries)
       THEN /\ pc' = [pc EXCEPT ![c] = "done"]
            /\ UNCHANGED <<entries, listening>>
       ELSE /\ IF c \in Mirror
               THEN pc' = [pc EXCEPT ![c] = "streaming"] /\ UNCHANGED entries
               ELSE Register(c, [pc EXCEPT ![c] = "streaming"])
            /\ listening' = listening \cup {c}
    /\ UNCHANGED <<netVars, activeLongPolls>>

\* The set-up fails: terminal.subscribe cleans up by id, whoever owns the entry now.
SetUpFails(c) ==
    /\ pc[c] = "setup"
    /\ IF c \in Mirror
       THEN Cleanup(entries \cap SameId(c), [pc EXCEPT ![c] = "done"])
       ELSE pc' = [pc EXCEPT ![c] = "done"] /\ UNCHANGED <<entries, listening>>
    /\ UNCHANGED <<netVars, activeLongPolls>>

\* An unsubscribe call, or the terminal exits.
Unsubscribe(c) ==
    /\ c \in entries
    /\ Cleanup({c}, pc)
    /\ UNCHANGED <<netVars, activeLongPolls>>

(***************************************************************************)
(* Connections.                                                            *)
(***************************************************************************)
callVars == <<activeLongPolls, pc, entries, listening>>

Connect(n) ==
    /\ sock[n] = "new"
    /\ sock' = [sock EXCEPT ![n] = "open"]
    /\ alive' = [m \in Ws |-> m = n \/ alive[m]]
    /\ UNCHANGED <<quiet, silent, client, known, revoked, callVars>>

\* The E2EE channel is ready: setClientId.
Authenticate(n) ==
    /\ sock[n] = "open" /\ client[n] = None /\ ~silent[n]
    /\ DeviceOf[n] \notin revoked
    /\ client' = [client EXCEPT ![n] = DeviceOf[n]]
    /\ known' = known \cup {DeviceOf[n]}
    /\ alive' = [alive EXCEPT ![n] = TRUE]
    /\ UNCHANGED <<sock, quiet, silent, revoked, callVars>>

\* Mutated: the device's other connections are counted before this one is removed.
HasOtherConnectionsLate(n) == client[n] # None

HasOtherConnections(n) == client[n] # None /\ \E m \in Ws \ {n} : client[m] = client[n]

\* The 'close' event: finalizeConnection and the handler of onConnectionClose.  The
\* signals of its dispatches are aborted with it.  What was known of the socket's traffic
\* no longer matters.
Finalized(n) ==
    /\ sock' = [sock EXCEPT ![n] = "gone"]
    /\ client' = [m \in Ws |-> IF m = n THEN None ELSE client[m]]
    /\ known' = IF n \in Ws /\ ~HasOtherConnections(n) THEN known \ {client[n]} ELSE known
    /\ Cleanup({c \in entries : On[c] = n}, pc)
    /\ quiet' = [m \in Unix |-> IF m = n THEN 0 ELSE quiet[m]]
    /\ alive' = [m \in Ws |-> m # n /\ alive[m]]
    /\ silent' = [m \in Ws |-> m # n /\ silent[m]]
    /\ UNCHANGED <<revoked, activeLongPolls>>

Dies(n) == sock[n] = "dying" /\ Finalized(n)

PeerCloses(n) == sock[n] = "open" /\ (n \in Ws => ~silent[n]) /\ Finalized(n)

Doomed(S) ==
    /\ sock' = [n \in Conn |-> IF n \in S THEN "dying" ELSE sock[n]]
    /\ UNCHANGED <<quiet, silent, client, known, callVars>>

\* No hello, no valid token, or no token in time.
Refused(n) ==
    /\ sock[n] = "open" /\ client[n] = None
    /\ Doomed({n})
    /\ UNCHANGED <<alive, revoked>>

Suspends(n) ==
    /\ sock[n] = "open" /\ ~silent[n]
    /\ silent' = [silent EXCEPT ![n] = TRUE]
    /\ UNCHANGED <<sock, quiet, alive, client, known, revoked, callVars>>

Pong(n) ==
    /\ sock[n] = "open" /\ ~silent[n] /\ ~alive[n]
    /\ alive' = [alive EXCEPT ![n] = TRUE]
    /\ UNCHANGED <<sock, quiet, silent, client, known, revoked, callVars>>

\* Terminate who has not been heard from since the last sweep, ping the others.
Sweep ==
    LET clients == {n \in Ws : sock[n] = "open"} IN
    /\ clients # {}
    /\ Doomed({n \in clients : ~alive[n]})
    /\ alive' = [n \in Ws |-> IF n \in clients THEN FALSE ELSE alive[n]]
    /\ UNCHANGED revoked

Revoke(d) ==
    /\ d \notin revoked
    /\ revoked' = revoked \cup {d}
    /\ Doomed({n \in Ws : client[n] = d /\ sock[n] = "open"})
    /\ UNCHANGED alive

\* Mutated: the keepalive timer is never armed.
KeptAliveNever(n) == n \in Unix /\ FALSE

\* startKeepalive was called for a dispatch that has not replied.
KeptAlive(n) == \E c \in Wait : On[c] = n /\ Waiting(c)

\* A keepalive interval passes on the Unix sockets: a keepalive frame is traffic.
Tick ==
    /\ \E n \in Unix : sock[n] = "open"
    /\ quiet' = [n \in Unix |-> IF sock[n] # "open" THEN quiet[n]
                                ELSE IF KeptAlive(n) THEN 0
                                ELSE IF quiet[n] < IdleTicks THEN quiet[n] + 1
                                ELSE quiet[n]]
    /\ UNCHANGED <<sock, alive, silent, client, known, revoked, callVars>>

IdleTimeout(n) ==
    /\ sock[n] = "open" /\ quiet[n] = IdleTicks
    /\ sock' = [sock EXCEPT ![n] = "dying"]
    /\ UNCHANGED <<quiet, alive, silent, client, known, revoked, callVars>>

CallStep(c) == Arrives(c) \/ HandlerEnds(c)
StreamStep(c) == SetUp(c) \/ SetUpFails(c) \/ Unsubscribe(c)
WsStep(n) == Authenticate(n) \/ Refused(n) \/ Suspends(n) \/ Pong(n)

Next ==
    \/ \E c \in Call : CallStep(c)
    \/ \E c \in Stream : StreamStep(c)
    \/ \E n \in Conn : Connect(n) \/ Dies(n) \/ PeerCloses(n)
    \/ \E n \in Ws : WsStep(n)
    \/ \E n \in Unix : IdleTimeout(n)
    \/ \E d \in Device : Revoke(d)
    \/ Sweep \/ Tick

Spec == Init /\ [][Next]_vars

(***************************************************************************)
(* Fairness: the heartbeat interval fires, a destroyed socket closes, and  *)
(* a handler whose signal is aborted returns.                              *)
(***************************************************************************)
FairSpec ==
    /\ Spec
    /\ WF_vars(Sweep)
    /\ \A n \in Conn : WF_vars(Dies(n))
    /\ \A c \in Wait : WF_vars(Aborted(c) /\ HandlerEnds(c))

-----------------------------------------------------------------------------
(***************************************************************************)
(* Properties.                                                             *)
(***************************************************************************)
\* The counter the cap is compared with is the number of long polls whose handlers run,
\* on whatever way the others ended; it never locks a caller out for nothing.
SlotsExact == activeLongPolls = Cardinality({c \in Wait : Waiting(c)})
Sound == TypeOK /\ SlotsExact

\* The idle timer of a Unix socket never fires under a long poll: a wait may last minutes
\* (unix-socket-transport.ts:98).
WaitSurvivesIdle ==
    \A n \in Unix : quiet[n] = IdleTicks => ~\E c \in Wait : On[c] = n /\ Waiting(c)

\* "the RPC doesn't abort before the runtime's internal timeout resolves"
\* (cli/handlers/orchestration.ts:410): the same of an ask, which waits ten minutes.
AskSurvivesIdle ==
    \A n \in Unix : quiet[n] = IdleTicks => ~\E c \in Ask : On[c] = n /\ Waiting(c)

\* "per-ws listeners ... don't leak across reconnects" (runtime-rpc.ts:738): no listener
\* is left on the runtime once its socket is gone, although the sweep of a connection's
\* subscriptions runs once and a set-up may end after it.
Listens(S) == \A c \in listening \cap S : sock[On[c]] # "gone"
NoLeakedListener == Listens(Watch \cup Mirror)

\* The same of session.tabs.subscribe.
NoLeakedTabsListener == Listens(Tabs)

\* Client-scoped state is torn down with the device's last connection, not with an earlier
\* one, whichever of them are terminated together (runtime-rpc.ts:730).
TornDownWithLast == known = {client[n] : n \in Ws} \ {None}

\* A long poll whose peer is lost gives its slot back, also when the peer never closes.
Lost(n) == sock[n] \in {"dying", "gone"} \/ (n \in Ws /\ silent[n])
SlotsComeBack ==
    \A c \in Wait : (Waiting(c) /\ Lost(On[c])) ~> pc[c] = "done"

=============================================================================
