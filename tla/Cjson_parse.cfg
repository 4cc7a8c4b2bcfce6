CONSTANTS
    Inputs <- MCInputs
    NestingLimit = 2
    AllocFails = TRUE
    Reprinted <- MCReprinted
    Width <- MCWidth
    DefaultSize = 8
    Lengths = {0, 1, 2, 3, 4, 5, 6, 7, 8, 9, 10, 11, 12, 13, 14, 15, 16, 17, 18, 19, 20, 21, 22, 23, 24}
    IntMax = 40
SPECIFICATION PrintSpec
INVARIANTS MemoryOwned ParsesJson WithinBlock PrintsWhatWasRead BlockFreedOnce FailsForReason
CHECK_DEADLOCK FALSE
