\* Two workflows that may be archived, with a cron and an interval schedule, one at
\* a time or both due together, and two scheduler replicas, one of which may die.
SPECIFICATION ScheduleSpec
CONSTANTS
    None = None
    x = x
    y = y
    n1 = n1
    n2 = n2
    t1 = t1
    t2 = t2
    Ids = {x, y}
    Names = {n1, n2}
    TaskLists = {t1}
    MaxRevision = 1
    task_names <- MCTaskNames
    Callers = {}
    Keys = {}
    Replicas = {r1, r2}
    Schedules = {s1, s2}
    Cron = {s1}
    Period = 2
    Quota = 1
    MaxExecutions = 3
    MaxTime = 4
    MaxCrashes = 1
INVARIANTS TypeOK CronOncePerSlot
 
CHECK_DEADLOCK FALSE
