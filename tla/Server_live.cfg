CONSTANTS
    Clients = {c1, c2, c3}
    Impatient = {c1}
    Requests <- AllKinds
    OtherSegments = {}
    None = None
    Backlog = 0
    BufferSize = 2
    MaxFds = 2
    MaxThreads = 1
    MaxHeap = 3
    HandlersMayDie = TRUE
SPECIFICATION FairSpec
INVARIANTS TypeOK ActsOnWholeRequests AnswersInOrder NamedIsRouted
PROPERTIES  EveryRequestHandled
CHECK_DEADLOCK FALSE
