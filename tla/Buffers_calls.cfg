SPECIFICATION Spec
CONSTANTS
    MaxText = 7
    LineSize = 3
    StartSize = 3
    Placeholder = 2
    MaxToken = 4
    HeadSize = 2
    ResponseSize = 8
    MaxHeaders = 3
INVARIANTS WithinAllocation  NothingLost
CHECK_DEADLOCK FALSE
