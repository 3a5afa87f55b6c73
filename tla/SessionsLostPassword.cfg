SPECIFICATION Spec
CONSTANTS
    root = root
    carol = carol
    old = old
    new = new
    Users = {root}
    FirstUsers <- MCFirstUsers
    Sessions = {s1}
    Requests = {r1, r2}
    Passwords = {old, new}
    SessionLifespan = 1
    NoUser = NoUser
    NoSession = NoSession
    NoPassword = NoPassword
    MaxTime = 0
    MaxFaults = 0
CHECK_DEADLOCK FALSE
INVARIANTS
    PasswordKeptUnlessGiven
