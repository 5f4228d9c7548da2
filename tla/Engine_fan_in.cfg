\* Fan-in on two workers, nothing fails: violated.
SPECIFICATION Spec
CONSTANTS
    a = a
    b = b
    c = c
    w1 = w1
    p0 = p0
    None = None
    Tasks = {a, b, c}
    deps <- FanIn
    max_retries <- NoRetries
    allow_failure = {}
    RowOrders <- Orders
    Workers = {w1, w2}
    Procs = {p0}
    proc <- Inline
    ApiProc = p0
    PoisonMaxAttempts = 2
    MaxJobs = 2
    MaxSlips = 0
    Mortal = {}
    MaxCrashes = 0
    Calls <- NoCalls
INVARIANTS NoDuplicateExecution
CHECK_DEADLOCK FALSE
