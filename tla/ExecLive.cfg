\* One worker, a crash, failing calls, late dispatch prompts, a tampered workspace,
\* a restart of OpenCode, and a fresh or a restored row.
CONSTANTS
    Worker = {w1}
    Session = {s1}
    NoWorker = NoWorker
    NoSession = NoSession
    LateCalls = {"dispatch"}
    Disturbances = {"tamper", "restart", "prior"}
    MaxCrashes = 1
    MaxPreemptions = 0
SPECIFICATION FairSpec
INVARIANTS
    CancelledIsQuiet
PROPERTIES
    StoppedRunSettles
