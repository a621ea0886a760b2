SPECIFICATION Spec
CONSTANTS
    Visitors = {v1, v2}
    Emails = {e1}
    Malformed = malformed
    Other = other
    MaxOpen = 2
    MaxChats = 3
    MaxFaults = 1
INVARIANTS
    IInv
    AccountsAreComplete
PROPERTIES
    NobodyIsStranded
