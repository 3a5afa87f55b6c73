SPECIFICATION Spec
CONSTANTS
    Requests = {r1, r2, r3}
    a1 = a1
    a2 = a2
    c1 = c1
    Ips = {a1, a2}
    Clients = {c1}
    Inputs <- MCInputs
    Configs <- MCConfigs
    GlobalBurst = 2
    GlobalRate = 1
    TokenBurst = 1
    TokenRate = 1
    None = None
    MaxTime = 1
    MaxFaults = 1
SYMMETRY MCSymmetry
CHECK_DEADLOCK FALSE
INVARIANTS
    AnswersAreOwn
    LoggedErrorIsConcurrent
    LimitsAreKept
