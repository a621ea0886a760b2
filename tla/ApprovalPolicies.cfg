SPECIFICATION Spec
SYMMETRY Symmetry
INVARIANTS
    IInv
    ExecutionsAreGranted
    CardsAreWaitedFor
    OneCardPerAction
PROPERTIES
    ImplementsInbox
CONSTANTS
    NoAction = NoAction
    Chats = {c1, c2}
    Actions = {a1, a2}
    PolicyModes = {"require_approval"}
    FirstModes = {"require_approval", "allow", "forbid", "notify_only"}
    MaxProposals = 2
    MaxRequests = 2
    MaxFailures = 1
