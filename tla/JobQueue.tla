------------------------------ MODULE JobQueue ------------------------------
(***************************************************************************)
(* The durable job queue of backend/queue/job_queue.py.                    *)
(*                                                                         *)
(* The queue_jobs table is modelled column by column (one function per     *)
(* column the queue's decisions read).  Every method that writes the table *)
(* is a transaction; a method whose SELECT and write are separate          *)
(* statements is two actions, because other sessions run in between.  On   *)
(* PostgreSQL the SELECTs of claim and of the stale-lease reaper lock the  *)
(* rows they return (FOR UPDATE SKIP LOCKED); on SQLite they lock nothing. *)
(***************************************************************************)
EXTENDS Integers, FiniteSets

CONSTANTS
    Jobs,               \* identifiers of queue_jobs rows
    Workers,            \* worker ids (leased_by)
    Reapers,            \* processes that run requeue_stale_jobs
    NoJob, NoWorker,    \* Python's None where a job or a worker is expected
    execution_id,       \* column written once by enqueue
    execution_task_id,  \* column written once by enqueue
    workflow_id,        \* column written once by enqueue
    priority,           \* column written once by enqueue
    Delays,             \* delays enqueue is called with (delay, backoff)
    LeaseSeconds,       \* settings.queue_lease_seconds
    PoisonMaxAttempts,  \* settings.queue_poison_max_attempts
    AgingSeconds,       \* settings.queue_aging_seconds
    MaxConcurrent,      \* settings.max_concurrent_tasks_per_workflow
    Dialect,            \* "postgresql" or "sqlite"
    MaxTime             \* bound on the clock

\* config.py bounds these settings from below (ge=5, ge=1, ge=1, ge=1).
ASSUME SettingsAssumption ==
    /\ LeaseSeconds \in Nat /\ LeaseSeconds >= 1
    /\ PoisonMaxAttempts \in Nat /\ PoisonMaxAttempts >= 1
    /\ MaxConcurrent \in Nat /\ MaxConcurrent >= 1
    /\ AgingSeconds \in Nat /\ MaxTime \in Nat

ASSUME ColumnsAssumption ==
    /\ NoJob \notin Jobs /\ NoWorker \notin Workers
    /\ priority \in [Jobs -> Int] /\ Delays \subseteq Nat
    /\ Dialect \in {"postgresql", "sqlite"}

ASSUME FiniteAssumption == IsFiniteSet(Jobs) /\ IsFiniteSet(Workers)

VARIABLES
    now,              \* utc_now()
    state,            \* QueueJobState of each row, "absent" before enqueue
    leased_by,
    lease_expires_at,
    attempts,
    dead_lettered,
    available_at,
    created_at,
    pick,             \* row a worker's claim transaction has selected
    pick_at,          \* the utc_now() that claim started from
    held,             \* job whose execute_task a worker is running
    held_until,       \* end of the lease the worker last obtained for it
    reaping,          \* rows a reaper's transaction has selected
    poisoned,         \* those of them it read with attempts >= max_attempts
    buffer,           \* _dead_letter_buffer of each process
    desk,             \* the dead-letter row an operator's session has read
    desk_state        \* the state column as that session read it

columns == <<state, leased_by, lease_expires_at, attempts, dead_lettered,
             available_at, created_at>>
claiming == <<pick, pick_at>>
working == <<held, held_until>>
reaper == <<reaping, poisoned, buffer>>
operator == <<desk, desk_state>>
vars == <<now, columns, claiming, working, reaper, operator>>

NULL == -1
QueueJobState == {"absent", "queued", "leased", "completed", "cancelled", "failed"}
Time == 0..MaxTime

(***************************************************************************)
(* Row locks.  A row selected FOR UPDATE is locked until its transaction   *)
(* ends: writers wait for it and SKIP LOCKED selects pass over it.         *)
(***************************************************************************)
\* MUTANT: the reaper's SELECT without FOR UPDATE.
LockedByClaim(j) == Dialect = "postgresql" /\ \E w \in Workers : pick[w] = j

Locked(j) ==
    /\ Dialect = "postgresql"
    /\ \/ \E w \in Workers : pick[w] = j
       \/ \E r \in Reapers : j \in reaping[r]

Free(S) == \A j \in S : ~Locked(j)

Init ==
    /\ now = 0
    /\ state = [j \in Jobs |-> "absent"]
    /\ leased_by = [j \in Jobs |-> NoWorker]
    /\ lease_expires_at = [j \in Jobs |-> NULL]
    /\ attempts = [j \in Jobs |-> 0]
    /\ dead_lettered = [j \in Jobs |-> FALSE]
    /\ available_at = [j \in Jobs |-> NULL]
    /\ created_at = [j \in Jobs |-> NULL]
    /\ pick = [w \in Workers |-> NoJob]
    /\ pick_at = [w \in Workers |-> NULL]
    /\ held = [w \in Workers |-> NoJob]
    /\ held_until = [w \in Workers |-> NULL]
    /\ reaping = [r \in Reapers |-> {}]
    /\ poisoned = [r \in Reapers |-> {}]
    /\ buffer = [r \in Reapers |-> {}]
    /\ desk = NoJob
    /\ desk_state = "absent"

Tick ==
    /\ now < MaxTime
    /\ now' = now + 1
    /\ UNCHANGED <<columns, claiming, working, reaper, operator>>

\* enqueue: insert a fresh row, delayed by d seconds.
Enqueue(j, d) ==
    /\ state[j] = "absent"
    /\ state' = [state EXCEPT ![j] = "queued"]
    /\ available_at' = [available_at EXCEPT ![j] = now + d]
    /\ created_at' = [created_at EXCEPT ![j] = now]
    /\ UNCHANGED <<now, leased_by, lease_expires_at, attempts, dead_lettered,
                   claiming, working, reaper, operator>>

(***************************************************************************)
(* _claim_next_available.                                                  *)
(***************************************************************************)
Leased(f) == {j \in Jobs : state[j] = "leased" /\ workflow_id[j] = f}

\* MUTANT: the limit is compared with <= instead of <.
CandidatesOffByOne ==
    {j \in Jobs : /\ state[j] = "queued"
                  /\ available_at[j] <= now
                  /\ Cardinality(Leased(workflow_id[j])) <= MaxConcurrent
                  /\ ~Locked(j)}

Candidates ==
    {j \in Jobs : /\ state[j] = "queued"
                  /\ available_at[j] <= now
                  /\ Cardinality(Leased(workflow_id[j])) < MaxConcurrent
                  /\ ~Locked(j)}

Aged(j) == available_at[j] <= now - AgingSeconds

\* Strictly earlier in the ORDER BY of the claim query.
Before(i, j) ==
    \/ Aged(i) /\ ~Aged(j)
    \/ /\ Aged(i) <=> Aged(j)
       /\ \/ priority[i] > priority[j]
          \/ /\ priority[i] = priority[j]
             /\ \/ available_at[i] < available_at[j]
                \/ /\ available_at[i] = available_at[j]
                   /\ created_at[i] < created_at[j]

\* The SELECT ... LIMIT 1; rows that tie come in any order.
ClaimSelect(w, j) ==
    /\ pick[w] = NoJob /\ held[w] = NoJob
    /\ j \in Candidates
    /\ \A i \in Candidates : ~Before(i, j)
    /\ pick' = [pick EXCEPT ![w] = j]
    /\ pick_at' = [pick_at EXCEPT ![w] = now]
    /\ UNCHANGED <<now, columns, working, reaper, operator>>

\* The UPDATE ... WHERE state = 'queued' and the commit: the worker has the
\* job, with a lease counted from the time the claim started.
ClaimUpdate(w, j) ==
    /\ pick[w] = j
    /\ state[j] = "queued"
    /\ state' = [state EXCEPT ![j] = "leased"]
    /\ leased_by' = [leased_by EXCEPT ![j] = w]
    /\ lease_expires_at' = [lease_expires_at EXCEPT ![j] = pick_at[w] + LeaseSeconds]
    /\ attempts' = [attempts EXCEPT ![j] = @ + 1]
    /\ held' = [held EXCEPT ![w] = j]
    /\ held_until' = [held_until EXCEPT ![w] = pick_at[w] + LeaseSeconds]
    /\ pick' = [pick EXCEPT ![w] = NoJob]
    /\ pick_at' = [pick_at EXCEPT ![w] = NULL]
    /\ UNCHANGED <<now, dead_lettered, available_at, created_at, reaper, operator>>

\* The UPDATE found no queued row, or the database raised: rollback, no job.
ClaimRollback(w) ==
    /\ pick[w] # NoJob
    /\ pick' = [pick EXCEPT ![w] = NoJob]
    /\ pick_at' = [pick_at EXCEPT ![w] = NULL]
    /\ UNCHANGED <<now, columns, working, reaper, operator>>

(***************************************************************************)
(* What a worker does with the job it holds.                               *)
(***************************************************************************)

\* MUTANT: the WHERE clause forgets the owner.
RenewLeaseUnowned(w, j, t) ==
    /\ held[w] = j
    /\ t <= now /\ held_until[w] <= t + LeaseSeconds
    /\ state[j] = "leased"
    /\ Free({j})
    /\ lease_expires_at' = [lease_expires_at EXCEPT ![j] = t + LeaseSeconds]
    /\ held_until' = [held_until EXCEPT ![w] = t + LeaseSeconds]
    /\ UNCHANGED <<now, state, leased_by, attempts, dead_lettered, available_at,
                   created_at, held, claiming, reaper, operator>>

\* renew_lease: t is the utc_now() the renewal started from, which may be
\* some time ago but not before the worker's previous renewal or claim.
RenewLease(w, j, t) ==
    /\ held[w] = j
    /\ t <= now /\ held_until[w] <= t + LeaseSeconds
    /\ state[j] = "leased" /\ leased_by[j] = w
    /\ Free({j})
    /\ lease_expires_at' = [lease_expires_at EXCEPT ![j] = t + LeaseSeconds]
    /\ held_until' = [held_until EXCEPT ![w] = t + LeaseSeconds]
    /\ UNCHANGED <<now, state, leased_by, attempts, dead_lettered, available_at,
                   created_at, held, claiming, reaper, operator>>

\* MUTANT: the WHERE clause forgets the test for a cancelled row.
AcknowledgeCancelled(w, j) ==
    /\ held[w] = j
    /\ Free({j})
    /\ state' = [state EXCEPT ![j] = "completed"]
    /\ leased_by' = [leased_by EXCEPT ![j] = NoWorker]
    /\ lease_expires_at' = [lease_expires_at EXCEPT ![j] = NULL]
    /\ held' = [held EXCEPT ![w] = NoJob]
    /\ held_until' = [held_until EXCEPT ![w] = NULL]
    /\ UNCHANGED <<now, attempts, dead_lettered, available_at, created_at,
                   claiming, reaper, operator>>

\* acknowledge: the WHERE clause tests neither the owner nor the lease, so a
\* worker that outlived its lease acknowledges all the same.
Acknowledge(w, j) ==
    /\ held[w] = j
    /\ Free({j})
    /\ IF state[j] = "cancelled"
       THEN UNCHANGED columns
       ELSE /\ state' = [state EXCEPT ![j] = "completed"]
            /\ leased_by' = [leased_by EXCEPT ![j] = NoWorker]
            /\ lease_expires_at' = [lease_expires_at EXCEPT ![j] = NULL]
            /\ UNCHANGED <<attempts, dead_lettered, available_at, created_at>>
    /\ held' = [held EXCEPT ![w] = NoJob]
    /\ held_until' = [held_until EXCEPT ![w] = NULL]
    /\ UNCHANGED <<now, claiming, reaper, operator>>

\* execute_task raised, or the worker died: nothing is written, an open claim
\* transaction is rolled back, and a leased row is left to expire.
WorkerLoss(w) ==
    /\ pick[w] # NoJob \/ held[w] # NoJob
    /\ pick' = [pick EXCEPT ![w] = NoJob]
    /\ pick_at' = [pick_at EXCEPT ![w] = NULL]
    /\ held' = [held EXCEPT ![w] = NoJob]
    /\ held_until' = [held_until EXCEPT ![w] = NULL]
    /\ UNCHANGED <<now, columns, reaper, operator>>

(***************************************************************************)
(* Cancellation: conditional UPDATEs that wait for locked rows.            *)
(***************************************************************************)
Cancel(S) ==
    /\ Free(S)
    /\ state' = [j \in Jobs |-> IF j \in S THEN "cancelled" ELSE state[j]]
    /\ UNCHANGED <<now, leased_by, attempts, dead_lettered, available_at,
                   created_at, claiming, working, reaper, operator>>

CancelExecutionJobs(e) ==
    LET S == {j \in Jobs : execution_id[j] = e /\ state[j] \in {"queued", "leased"}}
    IN /\ S # {}
       /\ Cancel(S)
       /\ lease_expires_at' =
              [j \in Jobs |-> IF j \in S THEN NULL ELSE lease_expires_at[j]]

CancelTaskJobs(t) ==
    LET S == {j \in Jobs : execution_task_id[j] = t /\ state[j] = "queued"}
    IN /\ S # {}
       /\ Cancel(S)
       /\ UNCHANGED lease_expires_at

(***************************************************************************)
(* requeue_stale_jobs, run by every dequeue and by every watchdog.         *)
(***************************************************************************)
\* MUTANT: a lease is stale in the very second it still covers.
ExpiredTooEarly(j) ==
    /\ state[j] = "leased"
    /\ lease_expires_at[j] # NULL
    /\ lease_expires_at[j] <= now

Expired(j) ==
    /\ state[j] = "leased"
    /\ lease_expires_at[j] # NULL
    /\ lease_expires_at[j] < now

\* MUTANT: a job is poison only after one attempt too many.
ReapSelectOffByOne(r) ==
    LET S == {j \in Jobs : Expired(j) /\ ~Locked(j)}
    IN /\ reaping[r] = {} /\ S # {}
       /\ reaping' = [reaping EXCEPT ![r] = S]
       /\ poisoned' = [poisoned EXCEPT ![r] =
                           {j \in S : attempts[j] > PoisonMaxAttempts}]
       /\ UNCHANGED <<now, columns, claiming, working, buffer, operator>>

\* The SELECT: the expired rows (on PostgreSQL the ones nobody has locked).
ReapSelect(r) ==
    LET S == {j \in Jobs : Expired(j) /\ ~Locked(j)}
    IN /\ reaping[r] = {} /\ S # {}
       /\ reaping' = [reaping EXCEPT ![r] = S]
       /\ poisoned' = [poisoned EXCEPT ![r] =
                           {j \in S : attempts[j] >= PoisonMaxAttempts}]
       /\ UNCHANGED <<now, columns, claiming, working, buffer, operator>>

\* The flush and commit: UPDATE ... WHERE id, whatever the row says by now.
\* Dead letters then go to the process's buffer.
ReapCommit(r) ==
    LET S == reaping[r]
        Dead == poisoned[r]
    IN /\ S # {}
       /\ state' = [j \in Jobs |-> IF j \in Dead THEN "failed"
                                   ELSE IF j \in S THEN "queued" ELSE state[j]]
       /\ dead_lettered' = [j \in Jobs |-> j \in Dead \/ dead_lettered[j]]
       /\ leased_by' = [j \in Jobs |-> IF j \in S \ Dead THEN NoWorker ELSE leased_by[j]]
       /\ lease_expires_at' = [j \in Jobs |-> IF j \in S THEN NULL ELSE lease_expires_at[j]]
       /\ reaping' = [reaping EXCEPT ![r] = {}]
       /\ poisoned' = [poisoned EXCEPT ![r] = {}]
       /\ buffer' = [buffer EXCEPT ![r] = @ \cup Dead]
       /\ UNCHANGED <<now, attempts, available_at, created_at, claiming, working, operator>>

\* drain_dead_letters: the caller takes the buffer.
DrainDeadLetters(r) ==
    /\ buffer[r] # {}
    /\ buffer' = [buffer EXCEPT ![r] = {}]
    /\ UNCHANGED <<now, columns, claiming, working, reaping, poisoned, operator>>

\* MUTANT: the rollback leaves the list of poisoned jobs behind.
ReaperCrashLeftover(r) ==
    /\ reaping[r] # {} \/ buffer[r] # {}
    /\ reaping' = [reaping EXCEPT ![r] = {}]
    /\ buffer' = [buffer EXCEPT ![r] = {}]
    /\ UNCHANGED <<now, columns, claiming, working, poisoned, operator>>

\* The process dies: its transaction is rolled back, its buffer is gone.
ReaperCrash(r) ==
    /\ reaping[r] # {} \/ buffer[r] # {}
    /\ reaping' = [reaping EXCEPT ![r] = {}]
    /\ poisoned' = [poisoned EXCEPT ![r] = {}]
    /\ buffer' = [buffer EXCEPT ![r] = {}]
    /\ UNCHANGED <<now, columns, claiming, working, operator>>

(***************************************************************************)
(* Operators: read a dead-lettered row, then write it back by id.  No lock *)
(* is taken in between; one operator is at the desk at a time.             *)
(***************************************************************************)
DeskSelect(j) ==
    /\ desk = NoJob
    /\ dead_lettered[j]
    /\ desk' = j
    /\ desk_state' = state[j]
    /\ UNCHANGED <<now, columns, claiming, working, reaper>>

\* MUTANT: the replayed row keeps its dead-letter flag.
ReplayDeadLetterFlagged(j) ==
    /\ desk = j
    /\ Free({j})
    /\ state' = [state EXCEPT ![j] = "queued"]
    /\ attempts' = [attempts EXCEPT ![j] = 0]
    /\ available_at' = [available_at EXCEPT ![j] = now]
    /\ desk' = NoJob
    /\ desk_state' = "absent"
    /\ UNCHANGED <<now, leased_by, lease_expires_at, dead_lettered, created_at,
                   claiming, working, reaper>>

ReplayDeadLetter(j) ==
    /\ desk = j
    /\ Free({j})
    /\ state' = [state EXCEPT ![j] = "queued"]
    /\ dead_lettered' = [dead_lettered EXCEPT ![j] = FALSE]
    /\ attempts' = [attempts EXCEPT ![j] = 0]
    /\ available_at' = [available_at EXCEPT ![j] = now]
    /\ desk' = NoJob
    /\ desk_state' = "absent"
    /\ UNCHANGED <<now, leased_by, lease_expires_at, created_at, claiming, working, reaper>>

\* The session writes only the columns it changed: a row it read as completed
\* keeps the state it has.
ResolveDeadLetter(j) ==
    /\ desk = j
    /\ Free({j})
    /\ state' = [state EXCEPT ![j] = IF desk_state = "completed" THEN @ ELSE "completed"]
    /\ dead_lettered' = [dead_lettered EXCEPT ![j] = FALSE]
    /\ desk' = NoJob
    /\ desk_state' = "absent"
    /\ UNCHANGED <<now, leased_by, lease_expires_at, attempts, available_at, created_at,
                   claiming, working, reaper>>

Next ==
    \/ Tick
    \/ \E j \in Jobs : \E d \in Delays : Enqueue(j, d)
    \/ \E w \in Workers : \E j \in Jobs : ClaimSelect(w, j)
    \/ \E w \in Workers : \E j \in Jobs : ClaimUpdate(w, j)
    \/ \E w \in Workers : ClaimRollback(w)
    \/ \E w \in Workers : \E j \in Jobs : \E t \in Time : RenewLease(w, j, t)
    \/ \E w \in Workers : \E j \in Jobs : Acknowledge(w, j)
    \/ \E w \in Workers : WorkerLoss(w)
    \/ \E j \in Jobs : CancelExecutionJobs(execution_id[j])
    \/ \E j \in Jobs : CancelTaskJobs(execution_task_id[j])
    \/ \E r \in Reapers : ReapSelect(r)
    \/ \E r \in Reapers : ReapCommit(r)
    \/ \E r \in Reapers : DrainDeadLetters(r)
    \/ \E r \in Reapers : ReaperCrash(r)
    \/ \E j \in Jobs : DeskSelect(j)
    \/ \E j \in Jobs : ReplayDeadLetter(j)
    \/ \E j \in Jobs : ResolveDeadLetter(j)

Spec == Init /\ [][Next]_vars

(***************************************************************************)
(* Properties.                                                             *)
(***************************************************************************)

\* Types of the columns and of the sessions' local state; a reaper's list of
\* poisoned jobs is always part of the rows it has selected.
TypeOK ==
    /\ now \in Nat
    /\ state \in [Jobs -> QueueJobState]
    /\ leased_by \in [Jobs -> Workers \cup {NoWorker}]
    /\ lease_expires_at \in [Jobs -> Int]
    /\ attempts \in [Jobs -> Nat]
    /\ dead_lettered \in [Jobs -> BOOLEAN]
    /\ available_at \in [Jobs -> Int]
    /\ created_at \in [Jobs -> Int]
    /\ pick \in [Workers -> Jobs \cup {NoJob}]
    /\ pick_at \in [Workers -> Int]
    /\ held \in [Workers -> Jobs \cup {NoJob}]
    /\ held_until \in [Workers -> Int]
    /\ reaping \in [Reapers -> SUBSET Jobs]
    /\ poisoned \in [Reapers -> SUBSET Jobs]
    /\ \A r \in Reapers : poisoned[r] \subseteq reaping[r]
    /\ buffer \in [Reapers -> SUBSET Jobs]
    /\ desk \in Jobs \cup {NoJob}
    /\ desk_state \in QueueJobState

\* No two workers ever hold an unexpired lease on the same job, although the
\* reaper, late renewals and replays all hand jobs from worker to worker.
LeaseExclusive ==
    \A v, w \in Workers :
        (held[v] = held[w] /\ held[v] # NoJob /\ held_until[v] >= now /\ held_until[w] >= now)
            => v = w

\* A row selected FOR UPDATE is still what the SELECT saw when its transaction
\* writes: a picked row is queued, a reaped row is leased, expired and as
\* poisoned as it was, and no two transactions have selected the same row.
SelectionsStable ==
    /\ \A w \in Workers : pick[w] # NoJob =>
           /\ state[pick[w]] = "queued"
           /\ pick_at[w] <= now
           /\ \A v \in Workers : pick[v] = pick[w] => v = w
    /\ \A r \in Reapers : \A j \in reaping[r] :
           /\ state[j] = "leased"
           /\ lease_expires_at[j] < now
           /\ j \in poisoned[r] <=> attempts[j] >= PoisonMaxAttempts
           /\ \A q \in Reapers : j \in reaping[q] => q = r

\* A worker with time left on its lease finds that lease in the table, unless
\* the job was cancelled or acknowledged behind its back.
LeaseRecorded ==
    \A w \in Workers : \A j \in Jobs :
        (held[w] = j /\ held_until[w] >= now) =>
            \/ /\ state[j] = "leased"
               /\ leased_by[j] = w
               /\ lease_expires_at[j] = held_until[w]
            \/ state[j] = "cancelled"
            \/ state[j] = "completed" /\ ~dead_lettered[j]

\* A job is never delivered more often than queue_poison_max_attempts: a row
\* that can still be claimed has an attempt left.
AttemptsBounded ==
    \A j \in Jobs :
        /\ state[j] = "queued" => attempts[j] < PoisonMaxAttempts
        /\ attempts[j] <= PoisonMaxAttempts

\* A dead-lettered row is out of reach of the claim query, has used up its
\* attempts, and no worker still has time left on a lease for it.
Quarantine ==
    \A j \in Jobs : dead_lettered[j] =>
        /\ state[j] \in {"failed", "completed"}
        /\ attempts[j] >= PoisonMaxAttempts
        /\ \A w \in Workers : held[w] = j => held_until[w] < now

\* Cancelled jobs, and acknowledged jobs that are not dead letters, are never
\* brought back by a late acknowledgement, a stale reaper or an operator.
SettledFinal ==
    [][\A j \in Jobs :
          (state[j] = "cancelled" \/ (state[j] = "completed" /\ ~dead_lettered[j]))
              => state'[j] = state[j]]_vars

\* Claims that overlap may each pass the count in the claim query, but they
\* exceed the limit by less than the number of workers.
OvershootBounded ==
    \A j \in Jobs :
        Cardinality(Leased(workflow_id[j])) <= MaxConcurrent - 1 + Cardinality(Workers)

\* A row nobody inserted is untouched, a job somebody works on has a row, and
\* the row at an operator's desk is still a dead letter.
RowsExist ==
    /\ \A j \in Jobs : state[j] = "absent" => attempts[j] = 0
    /\ \A w \in Workers : held[w] # NoJob => state[held[w]] # "absent"
    /\ desk # NoJob =>
           /\ dead_lettered[desk]
           /\ desk_state = "completed" => state[desk] = "completed"

\* The life of every job is the one JobLifecycle describes.
Lifecycle == INSTANCE JobLifecycle WITH
    MaxAttempts <- PoisonMaxAttempts, st <- state, tries <- attempts, dead <- dead_lettered

\* The queue implements the life cycle: no interleaving of claims, renewals,
\* acknowledgements, cancellations, reapers and operators takes a job off it.
ImplementsLifecycle == Lifecycle!LSpec
=============================================================================
