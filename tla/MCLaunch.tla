------------------------------ MODULE MCLaunch ------------------------------
(***************************************************************************)
(* Launch for TLC: two task lists that have no task in common.  The        *)
(* schedules are run from two states that Init leads to, since two         *)
(* schedules from the beginning are too many for TLC.                      *)
(***************************************************************************)
EXTENDS Launch, TLC

CONSTANTS t1, t2, x, y, n1, n2

MCTaskNames == t1 :> {"a"} @@ t2 :> {"b"}

Created(n) == <<[name |-> n, revision |-> 1, tasks |-> t1]>>

\* Nothing has run yet and nobody is at work, with these workflows and schedules.
Before(workflows, archived, rows, time) ==
    /\ revisions = workflows /\ is_archived = archived
    /\ schedules = rows
    /\ now = time
    /\ executions = <<>> /\ crashes = 0
    /\ tr = [s \in Sessions |-> NoCall] /\ loop = [r \in Replicas |-> NoLoop]

\* One workflow is still to come, the other one is archived.
Alone ==
    Before(x :> <<>> @@ y :> Created(n2), x :> FALSE @@ y :> TRUE, [s \in Schedules |-> None], 0)

\* Two workflows have had a schedule since the beginning, and both are due:
\* replicas find them in one batch, which a refused run, a deletion, an archived
\* workflow or a crash may meet half-way.
Pair ==
    Before(x :> Created(n1) @@ y :> Created(n2), x :> FALSE @@ y :> FALSE,
           [s \in Schedules |-> [wf |-> IF s \in Cron THEN x ELSE y, next_run_at |-> NextRun(s, 0),
                                 is_enabled |-> TRUE, deleted |-> FALSE]],
           MaxTime)

ScheduleSpec == (Alone \/ Pair) /\ [][Next]_vars /\ Fairness
=============================================================================
