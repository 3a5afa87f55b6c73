SPECIFICATION Spec
CONSTANTS
    Devices = {d1, d2}
    Users = {alice, bob}
    Polls = {p1}
    Clients = {tv, car}
    UserCodes = {code, edoc}
    DeviceLifespan = 1
    NoDoc = NoDoc
    NoUser = NoUser
    MaxTime = 0
    MaxFaults = 1
SYMMETRY MCSymmetry
CHECK_DEADLOCK FALSE
INVARIANTS
    IssuedAsAllowed
