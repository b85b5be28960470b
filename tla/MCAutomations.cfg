SPECIFICATION FairSpec
CONSTANTS
    plain = plain
    checked = checked
    Automation = {plain, checked}
    Prechecked <- MCPrechecked
    Stored <- MCStored
    Schedules <- MCSchedules
    Horizon = 2
    Grace = 0
    Serve = TRUE
    MaxRuns = 3
    MaxEdits = 1
    MaxLosses = 1
CHECK_DEADLOCK FALSE
INVARIANTS
    TypeOK
    OccurrenceLaunchedOnce
    NothingSkipped
PROPERTIES
    DueIsServed
    RunsSettle
