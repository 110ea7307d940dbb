\* Two workers that are restarted; one crash, one lost or late request, one change of
\* the world.
CONSTANTS
    Worker = {w1, w2}
    MaxCrashes = 1
    MaxTimeouts = 1
    MaxDisturbs = 1
    Punctual = FALSE
SPECIFICATION FairSpec
INVARIANTS
    OneInference
    InferenceIsBacked
PROPERTIES
    SettledIsFinal
    RunSettles
