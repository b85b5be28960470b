----------------------------- MODULE MCMailbox -----------------------------
(***************************************************************************)
(* Model values for checking the mailbox: two check calls, one ask, one    *)
(* type that filtered calls want and one that they do not.                 *)
(***************************************************************************)
EXTENDS Mailbox, TLC

CONSTANTS c1, c2, a1, worker_done, status

TwoChecks == {c1, c2}
OneCheck == {c1}
OneAsk == {a1}
NoAsk == {}
WantedTypes == {worker_done}
OtherTypes == {status}
CheckSymmetry == Permutations(TwoChecks)

=============================================================================
