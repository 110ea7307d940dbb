\* Two transactions at a time, of any kind, over two runs of one task.
CONSTANTS
    Task = {t1}
    Repository = {p1}
    Run = {r1, r2}
    Txn = {x1, x2}
    None = None
SPECIFICATION FairSpec
CHECK_DEADLOCK FALSE
INVARIANTS
    OneActiveRun
    PromptsAreUncut
PROPERTIES
    TransactionsEnd
