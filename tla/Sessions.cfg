SPECIFICATION Spec
CONSTANTS
    root = root
    carol = carol
    old = old
    new = new
    Users = {root, alice, carol}
    FirstUsers <- MCFirstUsers
    Sessions = {s1}
    Requests = {r1, r2}
    Passwords = {old}
    SessionLifespan = 1
    NoUser = NoUser
    NoSession = NoSession
    NoPassword = NoPassword
    MaxTime = 2
    MaxFaults = 1
SYMMETRY MCSymmetry
CHECK_DEADLOCK FALSE
INVARIANTS
    DeletedUserIsOut
    LoggedOutIsOut
    OldSessionIsOut
    OnlyAdminsChangeUsers
PROPERTIES
    ImplementsAtomicRegistry
