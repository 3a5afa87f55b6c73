SPECIFICATION Spec
CONSTANTS
    Tokens = {t1}
    Requests = {r1, r2}
    Clients = {app1, app2}
    Users = {alice}
    RefreshLifespan = 1
    AccessLifespan = 1
    NoDoc = NoDoc
    MaxTime = 2
    MaxFaults = 1
SYMMETRY MCSymmetry
CHECK_DEADLOCK FALSE
INVARIANTS
    RevokedForGood
    BoughtByItsClient
    ExpiredIsDead
    LiveTokenWorks
PROPERTIES
    OnlyOwnerRevokes
