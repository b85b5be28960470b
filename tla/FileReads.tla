------------------------------ MODULE FileReads ------------------------------
(***************************************************************************)
(* What readFileViaStream promises its callers: a read, once requested,    *)
(* settles at most once, with an error or with the contents of the file it *)
(* was asked for.  Reads succeed one by one, and fail one by one or, with  *)
(* their connection, together.  Requests, streams, connections and the     *)
(* relay do not appear; RelayStreams shows how they keep the promise.      *)
(***************************************************************************)
EXTENDS Naturals

CONSTANTS Read,   \* files being read, one read each
          Size    \* chunks in a file that is not empty

VARIABLES
    outcome,   \* what became of the promise
    content    \* what it was resolved with

promiseVars == <<outcome, content>>

Pending == {r \in Read : outcome[r] = "pending"}

\* Every chunk of the file, in order.
Whole(r) == [k \in 1 .. Size |-> <<r, k - 1>>]

Init ==
    /\ outcome = [r \in Read |-> "none"]
    /\ content = [r \in Read |-> <<>>]

Request(r) ==
    /\ outcome[r] = "none"
    /\ outcome' = [outcome EXCEPT ![r] = "pending"]
    /\ UNCHANGED content

\* A file may be empty.
Succeed(r) ==
    /\ r \in Pending
    /\ outcome' = [outcome EXCEPT ![r] = "ok"]
    /\ \E value \in {<<>>, Whole(r)} : content' = [content EXCEPT ![r] = value]

Fail(rs) ==
    /\ rs \subseteq Pending
    /\ outcome' = [r \in Read |-> IF r \in rs THEN "failed" ELSE outcome[r]]
    /\ UNCHANGED content

Next ==
    \/ \E r \in Read : Request(r) \/ Succeed(r)
    \/ \E rs \in SUBSET Read : Fail(rs)

Spec == Init /\ [][Next]_promiseVars

=============================================================================
