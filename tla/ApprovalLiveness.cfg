SPECIFICATION FairSpec
PROPERTIES
    BlockEnds
CONSTANTS
    NoAction = NoAction
    Chats = {c1, c2}
    Actions = {a1}
    PolicyModes = {"require_approval"}
    FirstModes = {"require_approval", "allow"}
    MaxProposals = 2
    MaxRequests = 2
    MaxFailures = 1
