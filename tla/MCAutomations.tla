--------------------------- MODULE MCAutomations ---------------------------
\* Bounds for the runs of Automations: one automation with two occurrences, or
\* two automations that are due together, or late; one of them has a precheck.
EXTENDS Automations, TLC

CONSTANTS plain, checked

MCStored == {plain :> {1, 2}, (plain :> {1}) @@ (checked :> {2})}
MCSchedules == {{2}}
MCPrechecked == {checked}

=============================================================================
