SPECIFICATION FairSpec
CONSTANTS
    Threads = {t1, t2}
    MaxCalls = 2
    Levels = {"INFO", "ERROR"}
    Crashes = TRUE
    None = None
INVARIANTS TypeOK RecordsUnmixed LossOnlyUnderWay
PROPERTIES WritesAtomically EveryCallReturns
CHECK_DEADLOCK FALSE
