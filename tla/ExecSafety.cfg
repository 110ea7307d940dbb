\* Two workers, a crash, a paused worker, lost replies, late session creations,
\* revoked trust and a restart of OpenCode.
CONSTANTS
    Worker = {w1, w2}
    Session = {s1, s2}
    NoWorker = NoWorker
    NoSession = NoSession
    LateCalls = {"create"}
    Disturbances = {"revoke", "restart"}
    MaxCrashes = 1
    MaxPreemptions = 1
SPECIFICATION Spec
SYMMETRY Interchangeable
INVARIANTS
    TypeOK
    NoOrphanPrompt
    RunningWasPrompted
    PromptStaysAuthorized
    OneWorkerPerGeneration
    SettledIsQuiet
PROPERTIES
    CancelWins
    TerminalIsFinal
    ImplementsLifecycle
