--------------------------- MODULE MCCoordinator ---------------------------
(***************************************************************************)
(* Model values for checking the coordinator: small DAGs, terminals,       *)
(* loops, and the environments of the runs.                                *)
(***************************************************************************)
EXTENDS Coordinator, TLC

CONSTANTS t1, t2, h1, h2, l1, l2

OneTask == {t1}
TwoTasks == {t1, t2}
TwoHandles == {h1, h2}
OneLoop == {l1}
TwoLoops == {l1, l2}

NoStatus == {}
OnlyDone == {"completed"}

Exits == {"exits"}
ExitsEscalationsStop == {"exits", "escalations", "stop"}
Everything == EnvKind
Resets == {"reset", "exits", "faults"}

HandleSymmetry == Permutations(TwoHandles)
TaskHandleSymmetry == Permutations(TwoTasks) \cup Permutations(TwoHandles)
LoopTaskHandleSymmetry == TaskHandleSymmetry \cup Permutations(TwoLoops)

=============================================================================
