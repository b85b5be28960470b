--------------------------- MODULE MCRelayStreams ---------------------------
(***************************************************************************)
(* Model values for checking the reads over the SSH relay.                 *)
(***************************************************************************)
EXTENDS RelayStreams

CONSTANTS f1, f2

TwoReads == {f1, f2}

=============================================================================
