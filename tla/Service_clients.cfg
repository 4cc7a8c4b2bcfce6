SPECIFICATION Spec
CONSTANTS
    alice = alice
    nameA = nameA
    nameB = nameB
    g1 = g1
    Null = Null
    None = None
    Clients = {c1, c2, c3}
    c1 = c1
    Impatient = {c1}
    Requests <- MCRequests
    OtherSegments = {}
    Backlog = 0
    BufferSize = 1
    MaxFds = 3
    MaxThreads = 2
    MaxHeap = 3
    HandlersMayDie = TRUE
    Accounts = {alice}
    Logins = {nameA, nameB}
    Wikis = {w1}
    Grants = {g1}
    GrantOwner <- MCGrantOwner
    InitLogin <- MCInitLogin
    Names <- AnyName
    UniqueGithubId = TRUE
    Failures <- SomeFailures
SYMMETRY Symmetry
INVARIANT HeldMeansAnswered
PROPERTY ClientsKeepPromise
CHECK_DEADLOCK FALSE
