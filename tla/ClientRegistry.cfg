SPECIFICATION Spec
CONSTANTS
    Clients = {app1}
    Requests = {r1, r2, r3}
    Secrets = {s1, s2}
    Uris = {u1, u2}
    Scopes = {openid, email}
    NoClient = NoClient
    NoSecret = NoSecret
    MaxFaults = 2
SYMMETRY MCSymmetry
CHECK_DEADLOCK FALSE
INVARIANTS
    StoredAsAsked
    CreationsAreLogged
PROPERTIES
    ImplementsAtomicRegistry
