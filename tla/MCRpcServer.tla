---------------------------- MODULE MCRpcServer ----------------------------
(***************************************************************************)
(* One CLI connection and two sockets of one device: a long poll on each   *)
(* transport that compete for one slot, an ask, a file watch, a session    *)
(* tab subscription, and two subscriptions of one terminal from the two    *)
(* sockets, as after a reconnect.                                          *)
(***************************************************************************)
EXTENDS RpcServer, TLC

CONSTANTS u1, w1, w2, d1, p1, p2, a1, f1, s1, t1, t2

UnixConn == {u1}
WsConn == {w1, w2}
NoConn == {}
OneDevice == {d1}
NoCall == {}
Polls == {p1, p2}
OneAsk == {a1}
OneWatch == {f1}
OneTabs == {s1}
TwoMirrors == {t1, t2}
Home == (p1 :> u1 @@ p2 :> w1 @@ a1 :> u1 @@ f1 :> w1 @@ s1 :> w2 @@ t1 :> w1 @@ t2 :> w2)
OnConn == [c \in Call |-> Home[c]]
DeviceOne == [n \in Ws |-> d1]

=============================================================================
