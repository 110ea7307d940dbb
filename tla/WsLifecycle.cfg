\* Two managers and two faults; trust, binding and directory change from outside, the
\* commit may be too large, and an agent may still edit after its run has ended.
CONSTANTS
    Manager = {m1, m2}
    NoManager = NoManager
    MaxFailures = 2
    Disturbances = {"revoke", "revalidate", "unbind", "tamper", "oversize", "straggler"}
    MaxFaults = 2
SPECIFICATION FairSpec
CHECK_DEADLOCK FALSE
INVARIANTS
    TypeOK
    PhasesAgree
    ProvisionalMeansPending
PROPERTIES
    QueuedOverCleanTree
    KeepsPromise
    
