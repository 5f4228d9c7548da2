\* Two tasks in sequence on two workers: an operator skips b and retries a, and a
\* worker loses a lease and goes on, all at any moment.
SPECIFICATION Spec
CONSTANTS
    a = a
    b = b
    c = c
    w1 = w1
    p0 = p0
    None = None
    Tasks = {a, b}
    deps <- Pair
    max_retries <- NoRetries
    allow_failure = {}
    RowOrders <- PairOrder
    Workers = {w1, w2}
    Procs = {p0}
    proc <- Inline
    ApiProc = p0
    PoisonMaxAttempts = 2
    MaxJobs = 3
    MaxSlips = 1
    Mortal = {}
    MaxCrashes = 0
    Calls <- SkipAndRetry
SYMMETRY MCSymmetry
PROPERTIES ImplementsLifecycle
CHECK_DEADLOCK FALSE
