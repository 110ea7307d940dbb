\* The reply of the dispatch prompt is lost; nothing else goes wrong.
CONSTANTS
    Worker = {w1, w2}
    Session = {s1, s2}
    NoWorker = NoWorker
    NoSession = NoSession
    LateCalls = {}
    Disturbances = {}
    MaxCrashes = 0
    MaxPreemptions = 0
SPECIFICATION Spec
SYMMETRY Interchangeable
INVARIANTS
    RejectedStartedNothing
