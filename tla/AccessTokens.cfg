SPECIFICATION Spec
CONSTANTS
    Clients = {app1}
    Users = {alice}
    Scopes = {"openid", "email"}
    Registrations <- MCRegistrations
    k1 = k1
    Keys = {k1}
    Asked <- MCAsked
    Assertions <- MCAssertions
    Requests = {r1, r2}
    Lifespan = 1
    MaxAge = 1
    None = None
    MaxTime = 1
    MaxRuns = 2
    MaxChanges = 1
    MaxFaults = 1
SYMMETRY MCSymmetry
CHECK_DEADLOCK FALSE
INVARIANTS
    IssuedAsRegistered
    AnswersAreTrue
    LiveTokenAccepted
    RefusalEndsWithMaxAge
