------------------------------- MODULE Engine -------------------------------
(***************************************************************************)
(* One execution of a workflow: the transactions of                        *)
(* backend/services/execution_service.py, run by the workers of            *)
(* backend/workers/runtime.py, by the watchdog of                          *)
(* backend/services/watchdog_service.py and by the API.                    *)
(*                                                                         *)
(* Sessions are created with expire_on_commit=False: a session keeps the   *)
(* attribute values it read first, decides on them, and its UPDATEs carry  *)
(* only the attributes it changed.  A transaction is therefore a load and  *)
(* a commit, with other transactions in between.  The job table follows    *)
(* JobLifecycle; JobQueue shows how the queue implements it.               *)
(***************************************************************************)
EXTENDS Naturals, Sequences, FiniteSets

CONSTANTS
    Tasks,             \* the execution's tasks
    deps,              \* [Tasks -> SUBSET Tasks]: acyclic, checked at creation
    max_retries,       \* [Tasks -> Nat]
    allow_failure,     \* tasks whose failure counts as success
    RowOrders,         \* orders in which a SELECT may return the task rows
    Workers, Procs,
    proc,              \* [Workers -> Procs]: the process a worker runs in
    ApiProc,           \* the process that serves the API
    None,
    PoisonMaxAttempts, \* settings.queue_poison_max_attempts
    MaxJobs,           \* bound on the jobs enqueued per task
    MaxSlips,          \* bound on leases lost by a worker that still runs
    Mortal,            \* the processes that may crash
    MaxCrashes,        \* bound on process crashes
    Calls              \* API calls that may be made: [op, task] records

ASSUME EngineAssumption ==
    /\ IsFiniteSet(Tasks) /\ RowOrders \subseteq Seq(Tasks)
    /\ deps \in [Tasks -> SUBSET Tasks] /\ max_retries \in [Tasks -> Nat]
    /\ allow_failure \subseteq Tasks
    /\ proc \in [Workers -> Procs] /\ ApiProc \in Procs /\ Mortal \subseteq Procs
    /\ PoisonMaxAttempts \in Nat \ {0} /\ MaxJobs \in Nat
    /\ Calls \subseteq [op : {"cancel"}, task : {None}] \cup [op : {"retry", "skip"}, task : Tasks]

VARIABLES
    task,        \* status column of the execution's tasks
    retries,     \* retries column
    status,      \* status column of the execution
    cancel,      \* cancellation_requested column
    outbox,      \* terminal execution.* events written
    jstate, attempts, dead,  \* queue_jobs: state, attempts, dead_lettered
    lapsed,      \* jobs whose holder failed to renew the lease
    wk,          \* each worker's coroutine and session
    cancelling,  \* ExecutionService._cancelling, per process
    buffer,      \* DatabaseJobQueue._dead_letter_buffer, per process
    letters,     \* dead letters taken for handling, per process
    watch,       \* where each process's watchdog is in run_once
    svc,         \* session of handle_dead_letter or finalize, per process
    api,         \* session of the API call in progress
    calls,       \* API calls still to come
    slips, crashes

db == <<task, retries, status, cancel, outbox>>
queue == <<jstate, attempts, dead, lapsed>>
process == <<cancelling, buffer, letters, watch, svc>>
client == <<api, calls>>
budget == <<slips, crashes>>
vars == <<db, queue, wk, process, client, budget>>

(***************************************************************************)
(* States (entities.py) and the sets execution_service.py derives.         *)
(***************************************************************************)
TaskState == {"pending", "queued", "running", "success", "failed", "cancelled", "skipped"}
SATISFIED_STATES == {"success", "skipped"}
ACTIVE_STATES == {"pending", "queued", "running"}
TERMINAL_EXECUTION_STATES == {"success", "failed", "cancelled"}

Jobs == Tasks \X (1..MaxJobs)

\* A worker between jobs, and a session that is not open.
Idle == [pc |-> "idle", job |-> None, seen |-> None, ret |-> 0, ex |-> None,
         out |-> None, tasks |-> None]
Closed == [kind |-> "closed", task |-> None, tasks |-> None, rets |-> None,
           ex |-> None, cancel |-> FALSE]

\* A session that has just read the execution and its tasks.
Opened(kind, t) == [kind |-> kind, task |-> t, tasks |-> task, rets |-> retries,
                    ex |-> status, cancel |-> cancel]

\* The unit of work writes an attribute only where the session changed it.
Written(column, read, new) ==
    [t \in Tasks |-> IF new[t] # read[t] THEN new[t] ELSE column[t]]

(***************************************************************************)
(* Jobs: a task's jobs are <<task, 1>>, <<task, 2>>, ... in the order they *)
(* are enqueued.                                                           *)
(***************************************************************************)
FreshJob(t) == <<t, 1 + Cardinality({n \in 1..MaxJobs : jstate[<<t, n>>] # "absent"})>>

\* The job table after acknowledging the jobs in A and enqueueing a job for
\* each task in Q, all in one transaction.
AckAndEnqueue(A, Q) ==
    [j \in Jobs |-> IF j \in A /\ jstate[j] # "cancelled" THEN "completed"
                    ELSE IF j \in {FreshJob(t) : t \in Q} THEN "queued" ELSE jstate[j]]

RoomFor(Q) == \A t \in Q : FreshJob(t) \in Jobs

(***************************************************************************)
(* The decisions of execution_service.py, on a session's view of the       *)
(* tasks.                                                                  *)
(***************************************************************************)

\* MUTANT: a dependency that is under way counts as satisfied.
AdvanceEarly(ts, t) ==
    IF ts[t] # "pending" THEN ts[t]
    ELSE IF \E d \in deps[t] : ts[d] = "failed" THEN "failed"
    ELSE IF \E d \in deps[t] : ts[d] = "cancelled" THEN "cancelled"
    ELSE "queued"

\* enqueue_ready_tasks, for one pending item of the loop.
Advance(ts, t) ==
    IF ts[t] # "pending" THEN ts[t]
    ELSE IF \E d \in deps[t] : ts[d] = "failed" THEN "failed"
    ELSE IF \E d \in deps[t] : ts[d] = "cancelled" THEN "cancelled"
    ELSE IF \A d \in deps[t] : ts[d] \in SATISFIED_STATES THEN "queued"
    ELSE "pending"

\* ... and for all items, in the order of the rows: one pass, each item seeing
\* what the pass has done to the items before it.
Pass(ts, order) ==
    LET after[n \in 0..Len(order)] ==
            IF n = 0 THEN ts
            ELSE [after[n - 1] EXCEPT ![order[n]] = Advance(after[n - 1], order[n])]
    IN after[Len(order)]

EnqueueReady(ts, cr, order) ==
    IF cr THEN [t \in Tasks |-> IF ts[t] \in ACTIVE_STATES THEN "cancelled" ELSE ts[t]]
    ELSE Pass(ts, order)

\* MUTANT: the loop does not skip the items that are queued already.
NewlyQueuedAgain(before, after) == {t \in Tasks : after[t] = "queued"}

NewlyQueued(before, after) == {t \in Tasks : before[t] = "pending" /\ after[t] = "queued"}

\* _fail_downstream: repeat until no pending task has a failed dependency.
FailDownstream(ts) ==
    LET round[n \in 0..Cardinality(Tasks)] ==
            IF n = 0 THEN ts
            ELSE [t \in Tasks |->
                    IF /\ round[n - 1][t] = "pending"
                       /\ \E d \in deps[t] : round[n - 1][d] = "failed"
                    THEN "failed" ELSE round[n - 1][t]]
    IN round[Cardinality(Tasks)]

\* _downstream_names.
Downstream(t) ==
    LET reach[n \in 0..Cardinality(Tasks)] ==
            IF n = 0 THEN {d \in Tasks : t \in deps[d]}
            ELSE reach[n - 1] \cup {d \in Tasks : deps[d] \cap reach[n - 1] # {}}
    IN reach[Cardinality(Tasks)]

\* _refresh_execution_status: the status the session computes.
Refreshed(ts, cr) ==
    LET states == {ts[t] : t \in Tasks}
    IN IF "failed" \in states THEN "failed"
       ELSE IF cr /\ states \subseteq {"success", "skipped", "cancelled", "failed"} THEN "cancelled"
       ELSE IF states \subseteq SATISFIED_STATES THEN "success"
       ELSE IF "cancelled" \in states /\ states \cap {"pending", "queued", "running"} = {}
            THEN "cancelled"
       ELSE "running"

\* MUTANT: only the end of a running execution is announced.
WriteStatusOnce(read, new) ==
    /\ status' = IF new # read THEN new ELSE status
    /\ outbox' = IF outbox = {} /\ new # read /\ new \in TERMINAL_EXECUTION_STATES
                 THEN {new} ELSE outbox

\* ... and what it writes: the column when it differs from what the session
\* read, and then, if terminal, an outbox event in the same transaction.
WriteStatus(read, new) ==
    /\ status' = IF new # read THEN new ELSE status
    /\ outbox' = IF new # read /\ new \in TERMINAL_EXECUTION_STATES
                 THEN outbox \cup {new} ELSE outbox

Init ==
    /\ task = [t \in Tasks |-> "pending"]
    /\ retries = [t \in Tasks |-> 0]
    /\ status = "running"
    /\ cancel = FALSE
    /\ outbox = {}
    /\ jstate = [j \in Jobs |-> "absent"]
    /\ attempts = [j \in Jobs |-> 0]
    /\ dead = [j \in Jobs |-> FALSE]
    /\ lapsed = {}
    /\ wk = [w \in Workers |-> Idle]
    /\ cancelling = [p \in Procs |-> FALSE]
    /\ buffer = [p \in Procs |-> {}]
    /\ letters = [p \in Procs |-> {}]
    /\ watch = [p \in Procs |-> "rest"]
    /\ svc = [p \in Procs |-> Closed]
    /\ api = Opened("enqueue", None)   \* _spawn has committed, its call goes on
    /\ calls = Calls
    /\ slips = 0
    /\ crashes = 0

(***************************************************************************)
(* The worker: dequeue, execute_task, _run_task, _handle_failure.          *)
(***************************************************************************)
Executing == {"started", "running", "interrupted", "finishing"}

Holds(w, j) == wk[w].pc \notin {"idle", "gone"} /\ wk[w].job = j

Claim(w, j) ==
    /\ wk[w].pc = "idle"
    /\ jstate[j] = "queued"
    /\ jstate' = [jstate EXCEPT ![j] = "leased"]
    /\ attempts' = [attempts EXCEPT ![j] = @ + 1]
    /\ lapsed' = lapsed \ {j}
    /\ wk' = [wk EXCEPT ![w] = [Idle EXCEPT !.pc = "claimed", !.job = j]]
    /\ UNCHANGED <<db, dead, process, client, budget>>

\* execute_task finds a finished task: acknowledge and go on.
LoadTerminal(w) ==
    /\ wk[w].pc = "claimed"
    /\ task[wk[w].job[1]] \notin ACTIVE_STATES
    /\ jstate' = AckAndEnqueue({wk[w].job}, {})
    /\ wk' = [wk EXCEPT ![w] = Idle]
    /\ UNCHANGED <<db, attempts, dead, lapsed, process, client, budget>>

\* execute_task finds cancellation_requested.  The refresh at the end reads
\* execution.execution_tasks, which this session has not loaded and an
\* AsyncSession does not load implicitly: either the transaction commits, or
\* it raises, is rolled back and leaves the job leased.
LoadCancelled(w) ==
    LET t == wk[w].job[1]
        new == [task EXCEPT ![t] = "cancelled"]
    IN /\ wk[w].pc = "claimed"
       /\ task[t] \in ACTIVE_STATES /\ cancel
       /\ \/ /\ task' = new
             /\ WriteStatus(status, Refreshed(new, cancel))
             /\ jstate' = AckAndEnqueue({wk[w].job}, {})
          \/ UNCHANGED <<task, status, outbox, jstate>>
       /\ wk' = [wk EXCEPT ![w] = Idle]
       /\ UNCHANGED <<retries, cancel, attempts, dead, lapsed, process, client, budget>>

\* execute_task finds work to do; the session now holds the task and the
\* execution as they are.
LoadTask(w) ==
    LET t == wk[w].job[1]
    IN /\ wk[w].pc = "claimed"
       /\ task[t] \in ACTIVE_STATES /\ ~cancel
       /\ wk' = [wk EXCEPT ![w].pc = "loaded", ![w].seen = task[t],
                           ![w].ret = retries[t], ![w].ex = status]
       /\ UNCHANGED <<db, queue, process, client, budget>>

\* _run_task marks the task running and commits.
Start(w) ==
    LET t == wk[w].job[1]
    IN /\ wk[w].pc = "loaded"
       /\ task' = [task EXCEPT ![t] = IF wk[w].seen # "running" THEN "running" ELSE @]
       /\ wk' = [wk EXCEPT ![w].pc = "started", ![w].seen = "running"]
       /\ UNCHANGED <<retries, status, cancel, outbox, queue, process, client, budget>>

\* The handler is created and registered in _inflight.
Launch(w) ==
    /\ wk[w].pc = "started"
    /\ wk' = [wk EXCEPT ![w].pc = "running"]
    /\ UNCHANGED <<db, queue, process, client, budget>>

\* The handler returns.  The session's cancellation_requested is the one
\* execute_task read, which was false: success is committed with the
\* acknowledgement; enqueue_ready_tasks follows in a transaction of its own.
HandlerSucceeds(w) ==
    LET t == wk[w].job[1]
    IN /\ wk[w].pc = "running"
       /\ task' = [task EXCEPT ![t] = "success"]
       /\ jstate' = AckAndEnqueue({wk[w].job}, {})
       /\ wk' = [wk EXCEPT ![w].pc = "finishing", ![w].seen = "success", ![w].out = "success"]
       /\ UNCHANGED <<retries, status, cancel, outbox, attempts, dead, lapsed,
                      process, client, budget>>

\* MUTANT: the task is left "retrying".
HandlerRetriesHalf(w) ==
    LET t == wk[w].job[1]
    IN /\ wk[w].pc \in {"started", "running"}
       /\ t \notin allow_failure
       /\ wk[w].ret + 1 <= max_retries[t]
       /\ RoomFor({t})
       /\ task' = [task EXCEPT ![t] = "retrying"]
       /\ retries' = [retries EXCEPT ![t] = wk[w].ret + 1]
       /\ jstate' = AckAndEnqueue({wk[w].job}, {t})
       /\ wk' = [wk EXCEPT ![w] = Idle]
       /\ UNCHANGED <<status, cancel, outbox, attempts, dead, lapsed, process, client, budget>>

\* _handle_failure with an attempt left: acknowledge, queue the task again.
\* (fail_first_n and an unknown handler fail before the handler exists.)
HandlerRetries(w) ==
    LET t == wk[w].job[1]
    IN /\ wk[w].pc \in {"started", "running"}
       /\ t \notin allow_failure
       /\ wk[w].ret + 1 <= max_retries[t]
       /\ RoomFor({t})
       /\ task' = [task EXCEPT ![t] = "queued"]
       /\ retries' = [retries EXCEPT ![t] = wk[w].ret + 1]
       /\ jstate' = AckAndEnqueue({wk[w].job}, {t})
       /\ wk' = [wk EXCEPT ![w] = Idle]
       /\ UNCHANGED <<status, cancel, outbox, attempts, dead, lapsed, process, client, budget>>

\* _handle_failure otherwise: the outcome is decided, the transaction goes on
\* with the execution's tasks.
HandlerFails(w) ==
    LET t == wk[w].job[1]
    IN /\ wk[w].pc \in {"started", "running"}
       /\ t \in allow_failure \/ wk[w].ret + 1 > max_retries[t]
       /\ wk' = [wk EXCEPT ![w].pc = "finishing",
                           ![w].out = IF t \in allow_failure THEN "allowed" ELSE "failed"]
       /\ UNCHANGED <<db, queue, process, client, budget>>

\* The handler was cancelled.  The first one to get here consumes the
\* process's _cancelling mark; without the mark the CancelledError goes up
\* through _run_worker and ends the worker's coroutine.
HandlerInterrupted(w) ==
    LET p == proc[w]
    IN /\ wk[w].pc = "interrupted"
       /\ \/ /\ cancelling[p]
             /\ cancelling' = [cancelling EXCEPT ![p] = FALSE]
             /\ wk' = [wk EXCEPT ![w].pc = "finishing", ![w].out = "cancelled"]
          \/ /\ ~cancelling[p]
             /\ wk' = [wk EXCEPT ![w] = [Idle EXCEPT !.pc = "gone"]]
             /\ UNCHANGED cancelling
       /\ UNCHANGED <<db, queue, buffer, letters, watch, svc, client, budget>>

OutcomeStatus(out) == CASE out \in {"success", "allowed"} -> "success"
                        [] out = "failed" -> "failed"
                        [] out = "cancelled" -> "cancelled"

\* _get_execution_with_tasks: the session reads the other tasks for the first
\* time; its own task and the execution stay as it has them in memory.
Collect(w) ==
    /\ wk[w].pc = "finishing"
    /\ wk' = [wk EXCEPT ![w].pc = "settling",
                        ![w].tasks = [task EXCEPT ![wk[w].job[1]] = OutcomeStatus(wk[w].out)]]
    /\ UNCHANGED <<db, queue, process, client, budget>>

\* The commit that ends _run_task or _handle_failure.  After success the own
\* task and its job are already written.
Settle(w, order) ==
    LET t == wk[w].job[1]
        out == wk[w].out
        mine == wk[w].tasks
        new == CASE out \in {"success", "allowed"} -> EnqueueReady(mine, FALSE, order)
                 [] out = "failed" -> FailDownstream(mine)
                 [] out = "cancelled" -> mine
        first == IF out = "success" THEN mine ELSE [mine EXCEPT ![t] = wk[w].seen]
        Q == NewlyQueued(mine, new)
    IN /\ wk[w].pc = "settling"
       /\ RoomFor(Q)
       /\ task' = Written(task, first, new)
       /\ retries' = IF out = "failed" THEN [retries EXCEPT ![t] = wk[w].ret + 1] ELSE retries
       /\ WriteStatus(wk[w].ex, Refreshed(new, FALSE))
       /\ jstate' = AckAndEnqueue(IF out = "success" THEN {} ELSE {wk[w].job}, Q)
       /\ wk' = [wk EXCEPT ![w] = Idle]
       /\ UNCHANGED <<cancel, attempts, dead, lapsed, process, client, budget>>

(***************************************************************************)
(* Leases and dead letters.                                                *)
(***************************************************************************)

\* The renewal loop of a worker that still runs gives up.
SlipLease(w) ==
    /\ slips < MaxSlips
    /\ Holds(w, wk[w].job) /\ jstate[wk[w].job] = "leased" /\ wk[w].job \notin lapsed
    /\ lapsed' = lapsed \cup {wk[w].job}
    /\ slips' = slips + 1
    /\ UNCHANGED <<db, jstate, attempts, dead, wk, process, client, crashes>>

\* MUTANT: only a worker that still runs can lose a lease.
ExpiredIfHeld == {j \in lapsed : jstate[j] = "leased"}

\* MUTANT: leases are not renewed.
ExpiredAlways == {j \in Jobs : jstate[j] = "leased"}

Expired == {j \in Jobs : /\ jstate[j] = "leased"
                         /\ j \in lapsed \/ ~ \E w \in Workers : Holds(w, j)}

\* MUTANT: one attempt too many.
RequeueOffByOne(p, E) ==
    LET D == {j \in E : attempts[j] > PoisonMaxAttempts}
    IN /\ jstate' = [j \in Jobs |-> IF j \in D THEN "failed"
                                    ELSE IF j \in E THEN "queued" ELSE jstate[j]]
       /\ dead' = [j \in Jobs |-> j \in D \/ dead[j]]
       /\ lapsed' = lapsed \ E
       /\ buffer' = [buffer EXCEPT ![p] = @ \cup D]

\* requeue_stale_jobs in process p.
Requeue(p, E) ==
    LET D == {j \in E : attempts[j] >= PoisonMaxAttempts}
    IN /\ jstate' = [j \in Jobs |-> IF j \in D THEN "failed"
                                    ELSE IF j \in E THEN "queued" ELSE jstate[j]]
       /\ dead' = [j \in Jobs |-> j \in D \/ dead[j]]
       /\ lapsed' = lapsed \ E
       /\ buffer' = [buffer EXCEPT ![p] = @ \cup D]

\* A worker's dequeue runs the reaper.
DequeueRequeue(w) ==
    /\ wk[w].pc = "idle"
    /\ Expired # {}
    /\ Requeue(proc[w], Expired)
    /\ UNCHANGED <<db, attempts, wk, cancelling, letters, watch, svc, client, budget>>

\* _process_dead_letters, at the top of a worker's loop.
ProcessDeadLetters(w) ==
    LET p == proc[w]
    IN /\ wk[w].pc = "idle"
       /\ buffer[p] # {}
       /\ letters' = [letters EXCEPT ![p] = @ \cup {j[1] : j \in buffer[p]}]
       /\ buffer' = [buffer EXCEPT ![p] = {}]
       /\ UNCHANGED <<db, queue, wk, cancelling, watch, svc, client, budget>>

\* handle_dead_letter: a fresh session looks at the task ...
DeadLetterLoad(p, t) ==
    /\ svc[p].kind = "closed"
    /\ t \in letters[p]
    /\ letters' = [letters EXCEPT ![p] = @ \ {t}]
    /\ svc' = [svc EXCEPT ![p] = IF task[t] \in {"success", "failed", "skipped"}
                                 THEN Closed ELSE Opened("dead", t)]
    /\ UNCHANGED <<db, queue, wk, cancelling, buffer, watch, client, budget>>

\* ... and fails it and what depends on it; finalize_execution recomputes only.
ServiceCommit(p) ==
    LET s == svc[p]
        new == IF s.kind = "dead" THEN FailDownstream([s.tasks EXCEPT ![s.task] = "failed"])
               ELSE s.tasks
    IN /\ s.kind # "closed"
       /\ task' = Written(task, s.tasks, new)
       /\ WriteStatus(s.ex, Refreshed(new, s.cancel))
       /\ svc' = [svc EXCEPT ![p] = Closed]
       /\ UNCHANGED <<retries, cancel, queue, wk, cancelling, buffer, letters, watch,
                      client, budget>>

(***************************************************************************)
(* The watchdog: one round of run_once.                                    *)
(***************************************************************************)
Quiet(p) == letters[p] = {} /\ svc[p].kind = "closed"

\* requeue_stale_jobs; run_once goes on to handle the dead letters it returns.
WatchdogRequeue(p) ==
    /\ watch[p] = "rest" /\ Quiet(p)
    /\ Requeue(p, Expired)
    /\ letters' = [letters EXCEPT ![p] =
                      {j[1] : j \in {i \in Expired : attempts[i] >= PoisonMaxAttempts}}]
    /\ watch' = [watch EXCEPT ![p] = "letters"]
    /\ UNCHANGED <<db, attempts, wk, cancelling, svc, client, budget>>

\* drain_dead_letters, with the result ignored: whatever is in the buffer by
\* now is gone.
WatchdogDrain(p) ==
    /\ watch[p] = "letters" /\ Quiet(p)
    /\ buffer' = [buffer EXCEPT ![p] = {}]
    /\ watch' = [watch EXCEPT ![p] = "enforce"]
    /\ UNCHANGED <<db, queue, wk, cancelling, letters, svc, client, budget>>

\* cancel_inflight: cancel the registered handlers of process p.  Cancelling
\* one that is done, but whose worker has not resumed yet, has no effect.
Inflight(p) == {w \in Workers : proc[w] = p /\ wk[w].pc = "running"}

Interrupt(p) ==
    \E S \in SUBSET Inflight(p) :
        wk' = [w \in Workers |-> IF w \in S THEN [wk[w] EXCEPT !.pc = "interrupted"]
                                 ELSE wk[w]]

EnforceCancellations(p) ==
    /\ watch[p] = "enforce"
    /\ watch' = [watch EXCEPT ![p] = "hung"]
    /\ IF cancel /\ status = "running"
       THEN Interrupt(p) /\ cancelling' = [cancelling EXCEPT ![p] = TRUE]
       ELSE UNCHANGED <<wk, cancelling>>
    /\ UNCHANGED <<db, queue, buffer, letters, svc, client, budget>>

\* _reap_hung_tasks: a handler never outlives max_task_timeout_seconds, so a
\* heartbeat older than that belongs to a worker that is gone.
ReapHungTasks(p) ==
    /\ watch[p] = "hung"
    /\ watch' = [watch EXCEPT ![p] = "orphans"]
    /\ letters' = [letters EXCEPT ![p] = @ \cup
           {t \in Tasks : /\ task[t] = "running"
                          /\ ~ \E w \in Workers, n \in 1..MaxJobs : Holds(w, <<t, n>>)}]
    /\ UNCHANGED <<db, queue, wk, cancelling, buffer, svc, client, budget>>

\* MUTANT: executions that were never asked to cancel are left alone.
FinalizeCancelledOnly(p) ==
    /\ watch[p] = "orphans" /\ Quiet(p)
    /\ watch' = [watch EXCEPT ![p] = "rest"]
    /\ svc' = [svc EXCEPT ![p] =
                  IF /\ status = "running" /\ cancel
                     /\ \A t \in Tasks : task[t] \notin ACTIVE_STATES
                  THEN Opened("finalize", None) ELSE Closed]
    /\ UNCHANGED <<db, queue, wk, cancelling, buffer, letters, client, budget>>

\* _finalize_orphaned_executions.
FinalizeOrphaned(p) ==
    /\ watch[p] = "orphans" /\ Quiet(p)
    /\ watch' = [watch EXCEPT ![p] = "rest"]
    /\ svc' = [svc EXCEPT ![p] =
                  IF status = "running" /\ \A t \in Tasks : task[t] \notin ACTIVE_STATES
                  THEN Opened("finalize", None) ELSE Closed]
    /\ UNCHANGED <<db, queue, wk, cancelling, buffer, letters, client, budget>>

(***************************************************************************)
(* The API: cancel_execution, retry_task, skip_task, and the second half   *)
(* of trigger_workflow.                                                    *)
(***************************************************************************)

\* The load, with the early returns and the 409 answers.
ApiCall(c) ==
    /\ api = Closed
    /\ c \in calls
    /\ \/ c.op = "cancel" /\ status \notin TERMINAL_EXECUTION_STATES
       \/ c.op \in {"retry", "skip"} /\ task[c.task] \notin {"success", "skipped", "running"}
    /\ api' = Opened(c.op, c.task)
    /\ calls' = calls \ {c}
    /\ UNCHANGED <<db, queue, wk, process, budget>>

\* cancel_execution's commit, and cancel_inflight in the API's process: the
\* mark stays only if there was a handler to cancel.
CancelCommit ==
    LET new == [t \in Tasks |-> IF api.tasks[t] \in {"pending", "queued"} THEN "cancelled"
                                ELSE api.tasks[t]]
    IN /\ api.kind = "cancel"
       /\ task' = Written(task, api.tasks, new)
       /\ cancel' = (cancel \/ ~api.cancel)
       /\ WriteStatus(api.ex, Refreshed(new, TRUE))
       /\ jstate' = [j \in Jobs |-> IF jstate[j] \in {"queued", "leased"} THEN "cancelled"
                                    ELSE jstate[j]]
       /\ Interrupt(ApiProc)
       /\ cancelling' = [cancelling EXCEPT ![ApiProc] = Inflight(ApiProc) # {}]
       /\ api' = Closed
       /\ UNCHANGED <<retries, attempts, dead, lapsed, buffer, letters, watch, svc, calls, budget>>

\* retry_task's first commit: the task and everything downstream start over.
RetryCommit ==
    LET reset == {t \in Downstream(api.task) \cup {api.task} :
                     api.tasks[t] \in {"failed", "cancelled", "skipped", "pending"}}
        new == [t \in Tasks |-> IF t \in reset THEN "pending" ELSE api.tasks[t]]
        rets == [t \in Tasks |-> IF t \in reset THEN 0 ELSE api.rets[t]]
    IN /\ api.kind = "retry"
       /\ task' = Written(task, api.tasks, new)
       /\ retries' = Written(retries, api.rets, rets)
       /\ cancel' = (cancel /\ ~api.cancel)
       /\ status' = IF api.ex # "running" THEN "running" ELSE status
       /\ api' = [api EXCEPT !.kind = "enqueue", !.tasks = new, !.rets = rets,
                             !.ex = "running", !.cancel = FALSE]
       /\ UNCHANGED <<outbox, queue, wk, process, calls, budget>>

\* MUTANT: cancel_task_jobs without the filter on the state.
SkipCommitAll ==
    LET new == [api.tasks EXCEPT ![api.task] = "skipped"]
    IN /\ api.kind = "skip"
       /\ task' = Written(task, api.tasks, new)
       /\ jstate' = [j \in Jobs |-> IF j[1] = api.task /\ jstate[j] # "absent" THEN "cancelled"
                                    ELSE jstate[j]]
       /\ api' = [api EXCEPT !.kind = "enqueue", !.tasks = new]
       /\ UNCHANGED <<retries, status, cancel, outbox, attempts, dead, lapsed, wk, process,
                      calls, budget>>

\* skip_task's first commit, with cancel_task_jobs.
SkipCommit ==
    LET new == [api.tasks EXCEPT ![api.task] = "skipped"]
    IN /\ api.kind = "skip"
       /\ task' = Written(task, api.tasks, new)
       /\ jstate' = [j \in Jobs |-> IF j[1] = api.task /\ jstate[j] = "queued" THEN "cancelled"
                                    ELSE jstate[j]]
       /\ api' = [api EXCEPT !.kind = "enqueue", !.tasks = new]
       /\ UNCHANGED <<retries, status, cancel, outbox, attempts, dead, lapsed, wk, process,
                      calls, budget>>

\* enqueue_ready_tasks in the same session, on the tasks it read at first.
EnqueueCommit(order) ==
    LET new == EnqueueReady(api.tasks, api.cancel, order)
        Q == NewlyQueued(api.tasks, new)
    IN /\ api.kind = "enqueue"
       /\ RoomFor(Q)
       /\ task' = Written(task, api.tasks, new)
       /\ WriteStatus(api.ex, Refreshed(new, api.cancel))
       /\ jstate' = AckAndEnqueue({}, Q)
       /\ api' = Closed
       /\ UNCHANGED <<retries, cancel, attempts, dead, lapsed, wk, process, calls, budget>>

(***************************************************************************)
(* A process dies and is started again.                                    *)
(***************************************************************************)
Crash(p) ==
    /\ p \in Mortal
    /\ crashes < MaxCrashes
    /\ crashes' = crashes + 1
    /\ wk' = [w \in Workers |-> IF proc[w] = p THEN Idle ELSE wk[w]]
    /\ cancelling' = [cancelling EXCEPT ![p] = FALSE]
    /\ buffer' = [buffer EXCEPT ![p] = {}]
    /\ letters' = [letters EXCEPT ![p] = {}]
    /\ watch' = [watch EXCEPT ![p] = "rest"]
    /\ svc' = [svc EXCEPT ![p] = Closed]
    /\ api' = IF p = ApiProc THEN Closed ELSE api
    /\ UNCHANGED <<db, queue, calls, slips>>

WorkerStep(w) ==
    \/ \E j \in Jobs : Claim(w, j)
    \/ LoadTerminal(w) \/ LoadCancelled(w) \/ LoadTask(w) \/ Start(w) \/ Launch(w)
    \/ HandlerSucceeds(w) \/ HandlerRetries(w) \/ HandlerFails(w) \/ HandlerInterrupted(w)
    \/ Collect(w)
    \/ \E order \in RowOrders : Settle(w, order)
    \/ DequeueRequeue(w) \/ ProcessDeadLetters(w)

LetterStep(p) ==
    \/ \E t \in Tasks : DeadLetterLoad(p, t)
    \/ ServiceCommit(p)

WatchdogStep(p) ==
    \/ WatchdogRequeue(p) \/ WatchdogDrain(p) \/ EnforceCancellations(p)
    \/ ReapHungTasks(p) \/ FinalizeOrphaned(p)

ApiStep ==
    \/ CancelCommit \/ RetryCommit \/ SkipCommit
    \/ \E order \in RowOrders : EnqueueCommit(order)

Next ==
    \/ \E w \in Workers : WorkerStep(w) \/ SlipLease(w)
    \/ \E p \in Procs : LetterStep(p) \/ WatchdogStep(p) \/ Crash(p)
    \/ ApiStep
    \/ \E c \in Calls : ApiCall(c)

Spec == Init /\ [][Next]_vars

\* Worker coroutines poll, handlers end by their timeout, watchdogs loop, and
\* a call the API has accepted runs on; clients and failures owe nothing.
Fairness ==
    /\ \A w \in Workers : WF_vars(WorkerStep(w))
    /\ \A p \in Procs : WF_vars(LetterStep(p)) /\ WF_vars(WatchdogStep(p))
    /\ WF_vars(ApiStep)

FairSpec == Spec /\ Fairness

(***************************************************************************)
(* Properties.                                                             *)
(***************************************************************************)

\* Types of the tables and of the sessions.
TypeOK ==
    /\ task \in [Tasks -> TaskState]
    /\ retries \in [Tasks -> Nat]
    /\ status \in TERMINAL_EXECUTION_STATES \cup {"running"}
    /\ cancel \in BOOLEAN
    /\ outbox \subseteq TERMINAL_EXECUTION_STATES
    /\ lapsed \subseteq Jobs
    /\ \A w \in Workers : wk[w].pc \notin {"idle", "gone"} => wk[w].job \in Jobs

\* Transactional outbox: a terminal status in the table has its event in the
\* outbox, whichever sessions raced to write it.
OutboxComplete == status \in TERMINAL_EXECUTION_STATES => status \in outbox

\* A task is handed to workers only when everything it depends on is done.
DependenciesRespected ==
    \A t \in Tasks : task[t] \in {"queued", "running", "success"} =>
        \A d \in deps[t] : task[d] \in SATISFIED_STATES

\* The execution comes to rest in a terminal status.
EventuallyTerminal == <>[](status \in TERMINAL_EXECUTION_STATES)

\* However the sessions interleave, the status column ends up being what
\* _refresh_execution_status computes from the task rows.
StatusSettles == <>[](status = Refreshed(task, cancel))

\* The queue drains: no job stays queued or leased for ever.
JobsSettle == <>[](\A j \in Jobs : jstate[j] \notin {"queued", "leased"})

\* No task runs twice at the same time.
NoDuplicateExecution ==
    \A v, w \in Workers :
        (v # w /\ wk[v].pc \in Executing /\ wk[w].pc \in Executing) =>
            wk[v].job[1] # wk[w].job[1]

\* The execution's transactions keep every job on its life cycle.
Lifecycle == INSTANCE JobLifecycle WITH
    MaxAttempts <- PoisonMaxAttempts, st <- jstate, tries <- attempts

ImplementsLifecycle == Lifecycle!LSpec
=============================================================================
