\* Two jobs, two workers, two reaping processes; a job has two attempts.
SPECIFICATION Spec
CONSTANTS
    j1 = j1
    e1 = e1
    f1 = f1
    Jobs = {j1, j2}
    Workers = {w1, w2}
    Reapers = {r1, r2}
    NoJob = NoJob
    NoWorker = NoWorker
    execution_id <- MCOne
    execution_task_id <- MCTask
    workflow_id <- MCWorkflow
    priority <- MCPriority
    Delays = {0}
    LeaseSeconds = 1
    PoisonMaxAttempts = 2
    AgingSeconds = 1
    MaxConcurrent = 1
    Dialect = "postgresql"
    MaxTime = 5
INVARIANTS TypeOK LeaseExclusive SelectionsStable LeaseRecorded AttemptsBounded Quarantine
PROPERTIES SettledFinal ImplementsLifecycle
SYMMETRY MCSymmetry
CHECK_DEADLOCK FALSE
