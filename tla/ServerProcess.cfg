SPECIFICATION Spec
CONSTANTS
    Requests = {r1, r2, c1}
    Checks = {c1}
    Stores = {"mongodb", "redis"}
CHECK_DEADLOCK FALSE
INVARIANTS
    StoresOutliveRequests
    ExitReleasesStores
    CleanExitServedAll
    NoSendAfterClose
    AnswerIsTrue
PROPERTIES
    SignalEndsProcess
    EveryCheckAnswers
