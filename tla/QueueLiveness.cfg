SPECIFICATION FairSpec
CHECK_DEADLOCK FALSE
PROPERTIES
    RequestsEnd
    WaitingAreCalled
    ImplementsLine
CONSTANTS
    NoQueue = NoQueue
    Nobody = Nobody
    NoProc = NoProc
    Same = Same
    Queues = {q1, q2}
    MaxItems = 2
    Employees = {e1}
    PoolThreads = {}
    Requests = {"join", "call-next", "close", "reset"}
    StaffStatuses = {}
