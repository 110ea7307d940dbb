\* One run, one transaction and the manager.
CONSTANTS
    Task = {t1}
    Repository = {p1}
    Run = {r1}
    Txn = {x1}
    None = None
SPECIFICATION Spec
CHECK_DEADLOCK FALSE
PROPERTIES
    DoneIsFinal
