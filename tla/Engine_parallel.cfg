\* Fan-out on two workers in the API's process: b may be retried once, c may fail.
SPECIFICATION FairSpec
CONSTANTS
    a = a
    b = b
    c = c
    w1 = w1
    p0 = p0
    None = None
    Tasks = {a, b, c}
    deps <- FanOut
    max_retries <- RetryB
    allow_failure = {c}
    RowOrders <- Orders
    Workers = {w1, w2}
    Procs = {p0}
    proc <- Inline
    ApiProc = p0
    PoisonMaxAttempts = 2
    MaxJobs = 2
    MaxSlips = 0
    Mortal = {}
    MaxCrashes = 0
    Calls <- NoCalls
INVARIANTS TypeOK DependenciesRespected NoDuplicateExecution
PROPERTIES StatusSettles EventuallyTerminal
CHECK_DEADLOCK FALSE
