\* One job, two threads, two slots; a crash of the manager, a restart of the daemon, a
\* broken socket or docker error, and an edit.
CONSTANTS
    Job = {j1}
    Thread = {t1, t2}
    Call = {c1, c2}
    NoOne = NoOne
    Slots = 2
    Oversized = {}
    MaxEdits = 1
    MaxCrashes = 1
    MaxRestarts = 1
    MaxHiccups = 1
    MaxPreemptions = 0
SPECIFICATION FairSpec
CHECK_DEADLOCK FALSE
INVARIANTS
    TypeOK
    CompletedIsProven
    ConfirmedIsGone
    NoDuplicateSandbox
PROPERTIES
    JobSettles
