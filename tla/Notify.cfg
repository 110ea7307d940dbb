\* Two processes on one state file, one event, a fault, and outages that fit into the
\* window.
CONSTANTS
    Process = {p1, p2}
    NoOne = NoOne
    MaxEvent = 1
    MaxTime = 11
    Settle = 1
    Overlap = 1
    Interval = 2
    Window = 8
    Keep = 9
    Batch = 1
    MaxDelay = 3
    MaxGap = 2
    MaxFaults = 1
SPECIFICATION FairSpec
CHECK_DEADLOCK FALSE
INVARIANTS
    RepeatsAreInterruptions
    CursorIsHonest
PROPERTIES
    EveryEventArrives
