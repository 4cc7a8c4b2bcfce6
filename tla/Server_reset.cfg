CONSTANTS
    Clients = {c1, c2}
    Impatient = {c1}
    Requests <- Ordinary
    OtherSegments = {"favicon.ico"}
    None = None
    Backlog = 0
    BufferSize = 4
    MaxFds = 3
    MaxThreads = 2
    MaxHeap = 4
    HandlersMayDie = FALSE
SPECIFICATION Spec
INVARIANT ErrorStaysOnConnection

CHECK_DEADLOCK FALSE
