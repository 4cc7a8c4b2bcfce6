CONSTANTS
    Texts <- MCTexts
    WithColon <- MCWithColon
    WithVersion <- MCWithVersion
    Requests <- MCRequests
    MaxParams = 3
    MaxHeaders = 4
    Slots = 4
    NULL = NULL
SPECIFICATION Spec
INVARIANT BodyIsSent
CHECK_DEADLOCK FALSE
