\* Two workers, a takeover, a failing prompt, a stray edit, revoked trust, a damaged
\* workspace and the deadline; three replies over two versions of the sources.
CONSTANTS
    Worker = {w1, w2}
    Commands = {k1}
    MaxSource = 1
    MaxReplies = 3
    MaxCycles = 1
    MaxTakeovers = 1
    MaxHiccups = 1
    MaxStrays = 1
    Disturbances = {"revoke", "damage", "deadline"}
SPECIFICATION FairSpec
CHECK_DEADLOCK FALSE
INVARIANTS
    CompletedIsValidated
    PromptedOnce
PROPERTIES
    CheckpointAnswered
