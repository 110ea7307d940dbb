\* A reader and a developer with one task id; the model may leave descendants or
\* ignore SIGTERM, and a launch is interrupted or ended by a signal anywhere.
CONSTANTS
    Launch = {l1, l2}
    NoOne = NoOne
    ReadOnly = {l1}
    Strays = TRUE
SPECIFICATION TaskSpec
CHECK_DEADLOCK FALSE
INVARIANTS
    CompletedIsWhole
    TimedOutHasStopped
