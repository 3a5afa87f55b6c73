SPECIFICATION Spec
CONSTANTS
    Devices = {d1}
    Users = {alice, bob}
    Polls = {p1, p2}
    Clients = {tv}
    UserCodes = {code}
    DeviceLifespan = 1
    NoDoc = NoDoc
    NoUser = NoUser
    MaxTime = 2
    MaxFaults = 2
SYMMETRY MCSymmetry
CHECK_DEADLOCK FALSE
INVARIANTS
    ExpiredNeverIssues
    ApprovalIsSeen
    ReuseNeedsLostDelete
PROPERTIES
    ImplementsOneTimeGrant
