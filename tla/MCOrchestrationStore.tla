------------------------- MODULE MCOrchestrationStore -------------------------
(***************************************************************************)
(* Model values for checking the store: two tasks, two terminals, task ids *)
(* and terminals being interchangeable.                                    *)
(***************************************************************************)
EXTENDS OrchestrationStore, TLC

CONSTANTS t1, t2, h1, h2

MCTask == {t1, t2}
MCHandle == {h1, h2}
FailFromThree == 0..3
FailFromTwo == 0..2
MCAllStatuses == TaskStatus
MCOnlyCompleted == {"completed"}
MCSymmetry == Permutations(MCTask) \cup Permutations(MCHandle)

=============================================================================
