\* Two API requests at a time that trigger and retry a workflow while it is edited.
SPECIFICATION Spec
CONSTANTS
    None = None
    x = x
    y = y
    n1 = n1
    n2 = n2
    t1 = t1
    t2 = t2
    Ids = {x}
    Names = {n1}
    TaskLists = {t1, t2}
    MaxRevision = 2
    task_names <- MCTaskNames
    Callers = {a1, a2}
    Keys = {k1}
    Replicas = {}
    Schedules = {}
    Cron = {}
    Period = 1
    Quota = 1
    MaxExecutions = 3
    MaxTime = 0
    MaxCrashes = 0
INVARIANTS OneRunPerKey SnapshotMatches QuotaOvershoot
CHECK_DEADLOCK FALSE
