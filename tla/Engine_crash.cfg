\* Two tasks in sequence on two workers in the API's process, which dies twice, and a
\* cancellation, all at any moment.
SPECIFICATION FairSpec
CONSTANTS
    a = a
    b = b
    c = c
    w1 = w1
    p0 = p0
    None = None
    Tasks = {a, b}
    deps <- Pair
    max_retries <- NoRetries
    allow_failure = {}
    RowOrders <- PairOrder
    Workers = {w1, w2}
    Procs = {p0}
    proc <- Inline
    ApiProc = p0
    PoisonMaxAttempts = 2
    MaxJobs = 2
    MaxSlips = 0
    Mortal = {p0}
    MaxCrashes = 2
    Calls <- CancelOnly
INVARIANTS OutboxComplete NoDuplicateExecution
PROPERTIES ImplementsLifecycle JobsSettle
CHECK_DEADLOCK FALSE
