SPECIFICATION Spec
SYMMETRY Symmetry
INVARIANTS
    IInv
    ArrivalOrder
    ItemsHaveQueues
    StampsMatchStatus
PROPERTIES
    CallNextKeepsTurn
CONSTANTS
    NoQueue = NoQueue
    Nobody = Nobody
    NoProc = NoProc
    Same = Same
    Queues = {q1, q2}
    MaxItems = 2
    Employees = {e1}
    PoolThreads = {t1}
    Requests = {"join", "call-next", "checkout", "leave", "remove", "reassign", "serve", "reset", "delete", "close", "clock"}
    StaffStatuses = {"completed"}
