SPECIFICATION FairSpec
CHECK_DEADLOCK FALSE
INVARIANTS
    IInv
    PlacesAreKept
PROPERTIES
    PagesCatchUp
    ServedAreLetGo
CONSTANTS
    Browsers = {b1}
    WalkIns = {w1}
    MaxSockets = 1
    PollSlots = {p1, p2}
    MaxChanges = 3
    MaxFaults = 1
