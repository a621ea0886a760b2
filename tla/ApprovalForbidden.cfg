SPECIFICATION Spec
INVARIANTS
    ForbiddenNeverRuns
CONSTANTS
    NoAction = NoAction
    Chats = {c1, c2}
    Actions = {a1}
    PolicyModes = {"forbid"}
    FirstModes = {"forbid"}
    MaxProposals = 2
    MaxRequests = 2
    MaxFailures = 0
