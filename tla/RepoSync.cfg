\* Two workers, a client, a push, an edit and a fault: a crash, a lease that expires
\* under a live worker, a lost mirror volume or a reader.
CONSTANTS
    Worker = {w1, w2}
    Client = {c1}
    NoOne = NoOne
    Profile = {p1, p2}
    MaxRemote = 1
    MaxUpdates = 1
    MaxFaults = 1
    MaxSkips = 0
SPECIFICATION FairSpec
CHECK_DEADLOCK FALSE
INVARIANTS
    ReadyIsProven
    ReadyIsMirrored
PROPERTIES
    ValidationEnds
