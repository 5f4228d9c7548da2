------------------------------- MODULE Launch -------------------------------
(***************************************************************************)
(* How executions come into being while workflows are edited:              *)
(* trigger_workflow, retry_execution and _spawn of                         *)
(* backend/services/execution_service.py, called by API requests and by    *)
(* the scheduler replicas of backend/services/scheduler_service.py.  The   *)
(* lookups, the counts and the insert are separate statements; the unique  *)
(* constraint on (tenant, idempotency_key) and the foreign key on the task *)
(* definitions are what is left when they interleave.                      *)
(***************************************************************************)
EXTENDS Catalog, FiniteSets

CONSTANTS
    task_names,     \* [TaskLists -> SUBSET task names]
    Callers,        \* API requests that trigger or retry
    Keys,           \* idempotency keys clients send
    Replicas,       \* processes that run the scheduler
    Schedules,      \* ids of workflow_schedules rows
    Cron,           \* the schedules with a cron expression; the others have an interval
    Period,         \* the cron expression fires when the clock is a multiple of it,
                    \* and it is the interval of the others
    Quota,          \* settings.max_concurrent_executions_per_tenant
    MaxExecutions,  \* bound on executions
    MaxTime,        \* bound on the clock
    MaxCrashes,     \* bound on crashes of replicas
    None

ASSUME LaunchAssumption ==
    /\ Cron \subseteq Schedules /\ Period \in Nat \ {0} /\ Quota \in Nat \ {0}
    /\ Callers \cap Replicas = {} /\ IsFiniteSet(Callers) /\ IsFiniteSet(Replicas)
    /\ None \notin Keys \cup Schedules /\ None \notin [schedule : Schedules, wf : Ids, slot : Nat]
    /\ MaxRevision \in Nat

VARIABLES
    executions,  \* rows of executions, in the order of their insertion
    schedules,   \* rows of workflow_schedules, None before they are created
    tr,          \* each session's trigger_workflow or retry_execution
    loop,        \* each replica's run_once
    now, crashes

launch == <<executions, schedules, tr, loop, now, crashes>>
vars == <<catalog, launch>>

Sessions == Callers \cup Replicas

NoCall == [pc |-> "idle", wf |-> None, key |-> None, defs |-> 0, names |-> {},
           document |-> None, revision |-> 0, retried |-> FALSE, row |-> 0]

\* run_once: the clock it read, the schedules it still has to go through with
\* the next_run_at it read, the one it triggers, and what its session has
\* changed and not committed.
NoLoop == [at |-> 0, batch |-> {}, current |-> None, pending |-> {}]

Init ==
    /\ CatalogInit
    /\ executions = <<>>
    /\ schedules = [s \in Schedules |-> None]
    /\ tr = [s \in Sessions |-> NoCall]
    /\ loop = [r \in Replicas |-> NoLoop]
    /\ now = 0
    /\ crashes = 0

Rows == DOMAIN executions
Active == {e \in Rows : executions[e].active}
WithKey(k) == {e \in Rows : k # None /\ executions[e].key = k}

(***************************************************************************)
(* Schedules.                                                              *)
(***************************************************************************)

\* MUTANT: every schedule is an interval.
NextRunInterval(s, base) == base + Period

\* compute_next_run.
NextRun(s, base) == IF s \in Cron THEN ((base \div Period) + 1) * Period ELSE base + Period

Live(s) == schedules[s] # None /\ ~schedules[s].deleted

\* create_schedule.  (Bound: a workflow has one schedule at a time.)
CreateSchedule(s, i) ==
    /\ schedules[s] = None
    /\ Exists(i) /\ ~is_archived[i]
    /\ \A t \in Schedules : Live(t) => schedules[t].wf # i
    /\ schedules' = [schedules EXCEPT ![s] =
                        [wf |-> i, next_run_at |-> NextRun(s, now), is_enabled |-> TRUE,
                         deleted |-> FALSE]]
    /\ UNCHANGED <<catalog, executions, tr, loop, now, crashes>>

\* delete_schedule.
DeleteSchedule(s) ==
    /\ Live(s)
    /\ schedules' = [schedules EXCEPT ![s].deleted = TRUE]
    /\ UNCHANGED <<catalog, executions, tr, loop, now, crashes>>

\* What a replica's session writes with its next commit.  An UPDATE that
\* finds no row (the schedule was deleted) raises and takes the transaction
\* with it.
Flushable(P) == \A p \in P : Live(p.schedule)

Flushed(P) ==
    [s \in Schedules |->
        IF \E p \in P : p.schedule = s
        THEN LET p == CHOOSE q \in P : q.schedule = s
             IN IF p.disable THEN [schedules[s] EXCEPT !.is_enabled = FALSE]
                ELSE [schedules[s] EXCEPT !.next_run_at = p.next_run_at]
        ELSE schedules[s]]

Pending(s) == IF s \in Replicas THEN loop[s].pending ELSE {}

(***************************************************************************)
(* trigger_workflow, in session s.                                         *)
(***************************************************************************)


\* The call ends, with an execution or an ApiError (404, 429).  The scheduler
\* moves the schedule on in both cases.
Return(s, ok) ==
    /\ tr' = [tr EXCEPT ![s] = NoCall]
    /\ IF s \in Replicas
       THEN LET c == loop[s].current
            IN loop' = [loop EXCEPT
                   ![s].batch = @ \ {c}, ![s].current = None,
                   ![s].pending = @ \cup
                       {[schedule |-> c.schedule, disable |-> FALSE,
                         next_run_at |-> NextRun(c.schedule, loop[s].at)]}]
       ELSE UNCHANGED loop

\* MUTANT: the iteration goes on with the schedule whose run was rolled back.
AbortRunOnly(s) ==
    /\ tr' = [tr EXCEPT ![s] = NoCall]
    /\ UNCHANGED <<executions, schedules, loop>>

\* The transaction was rolled back.  That expires the scheduler's objects,
\* and the next access to one ends its iteration with nothing committed.
Abort(s) ==
    /\ tr' = [tr EXCEPT ![s] = NoCall]
    /\ loop' = IF s \in Replicas THEN [loop EXCEPT ![s] = NoLoop] ELSE loop
    /\ UNCHANGED <<executions, schedules>>

\* The original execution of the key is returned, if there is one.
Lookup(s) ==
    /\ tr[s].pc = "lookup"
    /\ IF WithKey(tr[s].key) # {}
       THEN Return(s, TRUE)
       ELSE tr' = [tr EXCEPT ![s].pc = "workflow"] /\ UNCHANGED loop
    /\ UNCHANGED <<catalog, executions, schedules, now, crashes>>

\* The workflow and its task definitions ...
LoadWorkflow(s) ==
    LET i == tr[s].wf
    IN /\ tr[s].pc = "workflow"
       /\ IF is_archived[i]
          THEN Return(s, FALSE)
          ELSE /\ tr' = [tr EXCEPT ![s].pc = "revisions", ![s].defs = Len(revisions[i]),
                                   ![s].names = task_names[Latest(i).tasks]]
               /\ UNCHANGED loop
       /\ UNCHANGED <<catalog, executions, schedules, now, crashes>>

\* MUTANT: the number of the row goes with the document of the revision.
LoadRevisionsRowNumber(s) ==
    LET i == tr[s].wf
    IN /\ tr[s].pc = "revisions"
       /\ tr' = [tr EXCEPT ![s].pc = "count", ![s].document = Latest(i),
                           ![s].revision = tr[s].defs]
       /\ UNCHANGED <<catalog, executions, schedules, loop, now, crashes>>

\* ... and, one statement later, its revisions.
LoadRevisions(s) ==
    LET i == tr[s].wf
    IN /\ tr[s].pc = "revisions"
       /\ tr' = [tr EXCEPT ![s].pc = "count", ![s].document = Latest(i),
                           ![s].revision = Len(revisions[i])]
       /\ UNCHANGED <<catalog, executions, schedules, loop, now, crashes>>

\* MUTANT: one too many.
CountActiveOffByOne(s) ==
    /\ tr[s].pc = "count"
    /\ IF Cardinality(Active) > Quota
       THEN Return(s, FALSE)
       ELSE tr' = [tr EXCEPT ![s].pc = "spawn"] /\ UNCHANGED loop
    /\ UNCHANGED <<catalog, executions, schedules, now, crashes>>

\* The tenant's quota.
CountActive(s) ==
    /\ tr[s].pc = "count"
    /\ IF Cardinality(Active) >= Quota
       THEN Return(s, FALSE)
       ELSE tr' = [tr EXCEPT ![s].pc = "spawn"] /\ UNCHANGED loop
    /\ UNCHANGED <<catalog, executions, schedules, now, crashes>>

\* retry_execution of a finished execution: its snapshot, no key, no quota.
RetryExecution(s, e) ==
    /\ tr[s].pc = "idle"
    /\ ~executions[e].active
    /\ tr' = [tr EXCEPT ![s] =
                 [NoCall EXCEPT !.pc = "spawn", !.wf = executions[e].wf,
                                !.defs = Len(revisions[executions[e].wf]),
                                !.names = task_names[Latest(executions[e].wf).tasks],
                                !.document = executions[e].document,
                                !.revision = executions[e].revision, !.retried = TRUE]]
    /\ UNCHANGED <<catalog, executions, schedules, loop, now, crashes>>

\* The new tasks point at the definitions the session read, where the names
\* agree; an update of the workflow has replaced those rows.
DanglingTask(s) ==
    /\ tr[s].defs # Len(revisions[tr[s].wf])
    /\ tr[s].names \cap task_names[tr[s].document.tasks] # {}

\* MUTANT: the lookup is taken for a guarantee.
KeyTakenNever(k) == FALSE

\* The unique constraint on the key.
KeyTaken(k) == WithKey(k) # {}

\* _spawn: the execution and its tasks in one transaction.
Spawn(s) ==
    /\ tr[s].pc = "spawn"
    /\ Len(executions) < MaxExecutions
    /\ IF KeyTaken(tr[s].key) \/ DanglingTask(s) \/ ~Flushable(Pending(s))
       THEN Abort(s)
       ELSE /\ executions' = Append(executions,
                   [wf |-> tr[s].wf, key |-> tr[s].key, document |-> tr[s].document,
                    revision |-> tr[s].revision, retried |-> tr[s].retried,
                    active |-> TRUE, enqueued |-> FALSE])
            /\ schedules' = Flushed(Pending(s))
            /\ tr' = [tr EXCEPT ![s].pc = "enqueue", ![s].row = Len(executions) + 1]
            /\ loop' = IF s \in Replicas THEN [loop EXCEPT ![s].pending = {}] ELSE loop
    /\ UNCHANGED <<catalog, now, crashes>>

\* enqueue_ready_tasks, a transaction of its own: the Engine's first step.
EnqueueFirst(s) ==
    /\ tr[s].pc = "enqueue"
    /\ executions' = [executions EXCEPT ![tr[s].row].enqueued = TRUE]
    /\ Return(s, TRUE)
    /\ UNCHANGED <<catalog, schedules, now, crashes>>

\* A client's call.
Trigger(s, i, k) ==
    /\ tr[s].pc = "idle"
    /\ Exists(i)
    /\ tr' = [tr EXCEPT ![s] = [NoCall EXCEPT !.pc = "lookup", !.wf = i, !.key = k]]
    /\ UNCHANGED <<catalog, executions, schedules, loop, now, crashes>>

TriggerStep(s) ==
    \/ Lookup(s) \/ LoadWorkflow(s) \/ LoadRevisions(s) \/ CountActive(s)
    \/ Spawn(s) \/ EnqueueFirst(s)

(***************************************************************************)
(* run_once, in replica r.                                                 *)
(***************************************************************************)

Due(s) == Live(s) /\ schedules[s].is_enabled /\ schedules[s].next_run_at <= now

\* The clock, and the schedules that are due.
Poll(r) ==
    LET due == {s \in Schedules : Due(s)}
    IN /\ loop[r] = NoLoop
       /\ due # {}
       /\ loop' = [loop EXCEPT ![r].at = now,
                      ![r].batch = {[schedule |-> s, wf |-> schedules[s].wf,
                                     slot |-> schedules[s].next_run_at] : s \in due}]
       /\ UNCHANGED <<catalog, executions, schedules, tr, now, crashes>>

\* The next schedule of the batch: its run is triggered, or the schedule of an
\* archived workflow is disabled.
TakeSchedule(r, c) ==
    /\ loop[r].current = None /\ c \in loop[r].batch
    /\ IF is_archived[c.wf]
       THEN /\ loop' = [loop EXCEPT ![r].batch = @ \ {c},
                           ![r].pending = @ \cup {[schedule |-> c.schedule, disable |-> TRUE,
                                                   next_run_at |-> 0]}]
            /\ UNCHANGED tr
       ELSE /\ loop' = [loop EXCEPT ![r].current = c]
            /\ tr' = [tr EXCEPT ![r] = [NoCall EXCEPT !.pc = "lookup", !.wf = c.wf,
                                            !.key = <<c.schedule, c.slot>>]]
    /\ UNCHANGED <<catalog, executions, schedules, now, crashes>>

\* The commit at the end.
EndLoop(r) ==
    /\ loop[r] # NoLoop /\ loop[r].batch = {}
    /\ schedules' = IF Flushable(loop[r].pending) THEN Flushed(loop[r].pending) ELSE schedules
    /\ loop' = [loop EXCEPT ![r] = NoLoop]
    /\ UNCHANGED <<catalog, executions, tr, now, crashes>>

ReplicaStep(r) ==
    \/ Poll(r)
    \/ \E c \in loop[r].batch : TakeSchedule(r, c)
    \/ TriggerStep(r)
    \/ EndLoop(r)

(***************************************************************************)
(* The environment.                                                        *)
(***************************************************************************)

\* An execution reaches a terminal status (Engine).
Finish(e) ==
    /\ executions[e].active /\ executions[e].enqueued
    /\ executions' = [executions EXCEPT ![e].active = FALSE]
    /\ UNCHANGED <<catalog, schedules, tr, loop, now, crashes>>

Tick ==
    /\ now < MaxTime
    /\ now' = now + 1
    /\ UNCHANGED <<catalog, executions, schedules, tr, loop, crashes>>

\* A scheduler process dies and is started again.
ReplicaCrash(r) ==
    /\ crashes < MaxCrashes
    /\ loop[r] # NoLoop
    /\ crashes' = crashes + 1
    /\ loop' = [loop EXCEPT ![r] = NoLoop]
    /\ tr' = [tr EXCEPT ![r] = NoCall]
    /\ UNCHANGED <<catalog, executions, schedules, now>>

Next ==
    \/ CatalogNext /\ UNCHANGED launch
    \/ \E s \in Schedules : DeleteSchedule(s) \/ \E i \in Ids : CreateSchedule(s, i)
    \/ \E s \in Callers : \/ TriggerStep(s)
                          \/ \E i \in Ids, k \in Keys \cup {None} : Trigger(s, i, k)
                          \/ \E e \in Rows : RetryExecution(s, e)
    \/ \E r \in Replicas : ReplicaStep(r) \/ ReplicaCrash(r)
    \/ \E e \in Rows : Finish(e)
    \/ Tick

Spec == Init /\ [][Next]_vars

\* Replicas poll for ever and go on with what they began.
Fairness == \A r \in Replicas : WF_vars(ReplicaStep(r))

FairSpec == Spec /\ Fairness

(***************************************************************************)
(* Properties.                                                             *)
(***************************************************************************)

\* Types of the tables and of the sessions.
TypeOK ==
    /\ \A e \in Rows : /\ executions[e].wf \in Ids
                       /\ executions[e].document \in Document
                       /\ executions[e].revision \in Nat
    /\ \A s \in Schedules : schedules[s] # None =>
           schedules[s].wf \in Ids /\ schedules[s].next_run_at \in Nat
    /\ \A s \in Sessions : tr[s].pc # "idle" => tr[s].wf \in Ids
    /\ \A r \in Replicas : (tr[r].pc # "idle") <=> (loop[r].current # None)

\* An idempotency key has at most one execution, although the lookup and the
\* insert of two requests or two scheduler replicas may overlap.
OneRunPerKey ==
    \A e, f \in Rows : (executions[e].key # None /\ executions[e].key = executions[f].key) => e = f

\* A cron schedule runs at most once for each time its expression names, and
\* never early, however many replicas race, crash or write back an old slot.
CronOncePerSlot ==
    \A s \in Cron :
        LET runs == {e \in Rows : executions[e].key \in {s} \X Nat}
        IN /\ \A e \in runs : executions[e].key[2] % Period = 0 /\ executions[e].key[2] <= now
           /\ Cardinality(runs) <= now \div Period

\* An execution's snapshot is the document of the revision it records, though
\* the workflow may be edited between the statements that read it.
SnapshotMatches ==
    \A e \in Rows :
        /\ executions[e].revision \in DOMAIN revisions[executions[e].wf]
        /\ executions[e].document = revisions[executions[e].wf][executions[e].revision]

\* Triggers that overlap may each pass the count, but they exceed the quota
\* by less than the number of sessions.  (Retried executions are not counted
\* against it.)
QuotaOvershoot ==
    Cardinality({e \in Active : ~executions[e].retried}) <= Quota - 1 + Cardinality(Sessions)

=============================================================================
