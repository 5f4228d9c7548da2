\* Three jobs, two workers, one reaping process, no row locks; a job has two attempts.
SPECIFICATION Spec
CONSTANTS
    j1 = j1
    e1 = e1
    f1 = f1
    Jobs = {j1, j2, j3}
    Workers = {w1, w2}
    Reapers = {r1}
    NoJob = NoJob
    NoWorker = NoWorker
    execution_id <- MCOne
    execution_task_id <- MCTask
    workflow_id <- MCWorkflow
    priority <- MCPriority
    Delays = {0}
    LeaseSeconds = 1
    PoisonMaxAttempts = 2
    AgingSeconds = 1
    MaxConcurrent = 1
    Dialect = "sqlite"
    MaxTime = 2
INVARIANTS OvershootBounded
SYMMETRY MCSymmetry
CHECK_DEADLOCK FALSE
