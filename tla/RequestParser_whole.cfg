CONSTANTS
    Texts <- MCTexts
    WithColon <- MCWithColon
    WithVersion <- MCWithVersion
    Requests <- MCRequests
    MaxParams = 3
    MaxHeaders = 3
    Slots = 3
    NULL = NULL
SPECIFICATION Spec
INVARIANTS HeadersFromHead OrdinaryParsedWhole SlotsSuffice
CHECK_DEADLOCK FALSE
