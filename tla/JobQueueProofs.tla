--------------------------- MODULE JobQueueProofs ---------------------------
(***************************************************************************)
(* Proofs about JobQueue, for any number of jobs, workers and reapers, any *)
(* settings and any length of time.                                        *)
(***************************************************************************)
EXTENDS JobQueue, TLAPS, FiniteSetTheorems

\* Every action keeps the types of the columns and of the sessions' state.
LEMMA TypeStep == TypeOK /\ [Next]_vars => TypeOK'
<1> SUFFICES ASSUME TypeOK, [Next]_vars PROVE TypeOK'
  OBVIOUS
<1> USE SettingsAssumption, ColumnsAssumption DEF TypeOK, Time, NULL, QueueJobState
<1>1. CASE Tick
  BY <1>1 DEF Tick, columns, claiming, working, reaper, operator
<1>2. ASSUME NEW j \in Jobs, NEW d \in Delays, Enqueue(j, d) PROVE TypeOK'
  BY <1>2 DEF Enqueue, claiming, working, reaper, operator
<1>3. ASSUME NEW w \in Workers, NEW j \in Jobs, ClaimSelect(w, j) PROVE TypeOK'
  BY <1>3 DEF ClaimSelect, columns, working, reaper, operator
<1>4. ASSUME NEW w \in Workers, NEW j \in Jobs, ClaimUpdate(w, j) PROVE TypeOK'
  BY <1>4 DEF ClaimUpdate, reaper, operator
<1>5. ASSUME NEW w \in Workers, ClaimRollback(w) PROVE TypeOK'
  BY <1>5 DEF ClaimRollback, columns, working, reaper, operator
<1>6. ASSUME NEW w \in Workers, NEW j \in Jobs, NEW t \in Time, RenewLease(w, j, t)
      PROVE TypeOK'
  BY <1>6 DEF RenewLease, claiming, reaper, operator
<1>7. ASSUME NEW w \in Workers, NEW j \in Jobs, Acknowledge(w, j) PROVE TypeOK'
  BY <1>7 DEF Acknowledge, columns, claiming, reaper, operator
<1>8. ASSUME NEW w \in Workers, WorkerLoss(w) PROVE TypeOK'
  BY <1>8 DEF WorkerLoss, columns, reaper, operator
<1>9. ASSUME NEW j \in Jobs, CancelExecutionJobs(execution_id[j]) PROVE TypeOK'
  BY <1>9 DEF CancelExecutionJobs, Cancel, claiming, working, reaper, operator
<1>10. ASSUME NEW j \in Jobs, CancelTaskJobs(execution_task_id[j]) PROVE TypeOK'
  BY <1>10 DEF CancelTaskJobs, Cancel, claiming, working, reaper, operator
<1>11. ASSUME NEW r \in Reapers, ReapSelect(r) PROVE TypeOK'
  BY <1>11 DEF ReapSelect, columns, claiming, working, operator
<1>12. ASSUME NEW r \in Reapers, ReapCommit(r) PROVE TypeOK'
  BY <1>12 DEF ReapCommit, claiming, working, operator
<1>13. ASSUME NEW r \in Reapers, DrainDeadLetters(r) PROVE TypeOK'
  BY <1>13 DEF DrainDeadLetters, columns, claiming, working, operator
<1>14. ASSUME NEW r \in Reapers, ReaperCrash(r) PROVE TypeOK'
  BY <1>14 DEF ReaperCrash, columns, claiming, working, operator
<1>15. ASSUME NEW j \in Jobs, DeskSelect(j) PROVE TypeOK'
  BY <1>15 DEF DeskSelect, columns, claiming, working, reaper
<1>16. ASSUME NEW j \in Jobs, ReplayDeadLetter(j) PROVE TypeOK'
  BY <1>16 DEF ReplayDeadLetter, claiming, working, reaper
<1>17. ASSUME NEW j \in Jobs, ResolveDeadLetter(j) PROVE TypeOK'
  BY <1>17 DEF ResolveDeadLetter, claiming, working, reaper
<1>18. CASE UNCHANGED vars
  BY <1>18 DEF vars, columns, claiming, working, reaper, operator
<1> QED
  BY <1>1, <1>2, <1>3, <1>4, <1>5, <1>6, <1>7, <1>8, <1>9, <1>10, <1>11, <1>12,
     <1>13, <1>14, <1>15, <1>16, <1>17, <1>18 DEF Next

\* Type correctness of the queue_jobs columns, on either dialect.
THEOREM TypeCorrect == Spec => []TypeOK
<1>1. Init => TypeOK
  BY SettingsAssumption, ColumnsAssumption DEF Init, TypeOK, NULL, QueueJobState
<1> QED
  BY <1>1, TypeStep, PTL DEF Spec

-----------------------------------------------------------------------------
(***************************************************************************)
(* The inductive invariant on PostgreSQL.  Exclusive leases rest on two    *)
(* facts that are not visible in LeaseExclusive: that what a transaction   *)
(* selected under lock is still so when it writes, and that a lease with   *)
(* time left is on record; a row somebody may claim or replay is then one  *)
(* whose former holders have all run out of time.                          *)
(***************************************************************************)
Inv ==
    /\ TypeOK
    /\ SelectionsStable
    /\ LeaseRecorded
    /\ LeaseExclusive
    /\ AttemptsBounded
    /\ Quarantine
    /\ RowsExist

\* The empty queue satisfies the invariant.
LEMMA InvInit == Init => Inv
BY SettingsAssumption, ColumnsAssumption
   DEF Init, Inv, TypeOK, SelectionsStable, LeaseRecorded, LeaseExclusive, AttemptsBounded,
       Quarantine, RowsExist, NULL, QueueJobState

\* With row locks, no action of the queue breaks the invariant.
LEMMA InvStep ==
    ASSUME Dialect = "postgresql", Inv, [Next]_vars
    PROVE  Inv'
<1>0. TypeOK'
  BY TypeStep DEF Inv
<1> USE SettingsAssumption, ColumnsAssumption, <1>0 DEF TypeOK, NULL
<1>1. CASE Tick
  BY <1>1 DEF Inv, SelectionsStable, LeaseRecorded, LeaseExclusive, AttemptsBounded,
     Quarantine, RowsExist, Tick, columns, claiming, working, reaper, operator
<1>2. ASSUME NEW j \in Jobs, NEW d \in Delays, Enqueue(j, d)
      PROVE  Inv'
  <2>1. (SelectionsStable /\ LeaseRecorded /\ LeaseExclusive /\ Quarantine /\ RowsExist)'
    BY <1>2 DEF Inv, SelectionsStable, LeaseRecorded, LeaseExclusive, Quarantine,
       RowsExist, Enqueue, claiming, working, reaper, operator
  <2>2. AttemptsBounded'
    BY <1>2 DEF Inv, AttemptsBounded, RowsExist, Enqueue, claiming, working, reaper,
       operator
  <2> QED
    BY <2>1, <2>2 DEF Inv
<1>3. ASSUME NEW w \in Workers, NEW j \in Jobs, ClaimSelect(w, j)
      PROVE  Inv'
  BY <1>3 DEF Inv, SelectionsStable, LeaseRecorded, LeaseExclusive, AttemptsBounded,
     Quarantine, RowsExist, ClaimSelect, Candidates, Locked, columns, working, reaper,
     operator
<1>4. ASSUME NEW w \in Workers, NEW j \in Jobs, ClaimUpdate(w, j)
      PROVE  Inv'
  <2>1. (SelectionsStable /\ LeaseRecorded /\ AttemptsBounded /\ Quarantine /\ RowsExist)'
    BY <1>4 DEF Inv, SelectionsStable, LeaseRecorded, AttemptsBounded, Quarantine,
       RowsExist, ClaimUpdate, reaper, operator
  <2>2. LeaseExclusive'
    BY <1>4 DEF Inv, LeaseExclusive, LeaseRecorded, ClaimUpdate, reaper, operator
  <2> QED
    BY <2>1, <2>2 DEF Inv
<1>5. ASSUME NEW w \in Workers, ClaimRollback(w)
      PROVE  Inv'
  BY <1>5 DEF Inv, SelectionsStable, LeaseRecorded, LeaseExclusive, AttemptsBounded,
     Quarantine, RowsExist, ClaimRollback, columns, working, reaper, operator
<1>6. ASSUME NEW w \in Workers, NEW j \in Jobs, NEW t \in Time, RenewLease(w, j, t)
      PROVE  Inv'
  <2>1. (SelectionsStable /\ LeaseRecorded /\ AttemptsBounded /\ Quarantine /\ RowsExist)'
    BY <1>6 DEF Inv, SelectionsStable, LeaseRecorded, AttemptsBounded, Quarantine,
       RowsExist, RenewLease, Free, Locked, claiming, reaper, operator
  <2>2. LeaseExclusive'
    BY <1>6 DEF Inv, LeaseExclusive, LeaseRecorded, RenewLease, claiming, reaper,
       operator
  <2> QED
    BY <2>1, <2>2 DEF Inv
<1>7. ASSUME NEW w \in Workers, NEW j \in Jobs, Acknowledge(w, j)
      PROVE  Inv'
  <2>1. (LeaseExclusive /\ AttemptsBounded /\ Quarantine /\ RowsExist)'
    BY <1>7 DEF Inv, LeaseExclusive, AttemptsBounded, Quarantine, RowsExist,
       Acknowledge, columns, claiming, reaper, operator
  <2>2. SelectionsStable'
    BY <1>7 DEF Inv, SelectionsStable, Acknowledge, Free, Locked, columns, claiming,
       reaper, operator
  <2>3. LeaseRecorded'
    BY <1>7 DEF Inv, LeaseRecorded, Quarantine, Acknowledge, columns, claiming, reaper,
       operator
  <2> QED
    BY <2>1, <2>2, <2>3 DEF Inv
<1>8. ASSUME NEW w \in Workers, WorkerLoss(w)
      PROVE  Inv'
  BY <1>8 DEF Inv, SelectionsStable, LeaseRecorded, LeaseExclusive, AttemptsBounded,
     Quarantine, RowsExist, WorkerLoss, columns, reaper, operator
<1>9. ASSUME NEW j \in Jobs, CancelExecutionJobs(execution_id[j])
      PROVE  Inv'
  BY <1>9 DEF Inv, SelectionsStable, LeaseRecorded, LeaseExclusive, AttemptsBounded,
     Quarantine, RowsExist, CancelExecutionJobs, Cancel, Free, Locked, claiming,
     working, reaper, operator
<1>10. ASSUME NEW j \in Jobs, CancelTaskJobs(execution_task_id[j])
      PROVE  Inv'
  BY <1>10 DEF Inv, SelectionsStable, LeaseRecorded, LeaseExclusive, AttemptsBounded,
     Quarantine, RowsExist, CancelTaskJobs, Cancel, Free, Locked, claiming, working,
     reaper, operator
<1>11. ASSUME NEW r \in Reapers, ReapSelect(r)
      PROVE  Inv'
  BY <1>11 DEF Inv, SelectionsStable, LeaseRecorded, LeaseExclusive, AttemptsBounded,
     Quarantine, RowsExist, ReapSelect, Expired, Locked, columns, claiming, working,
     operator
<1>12. ASSUME NEW r \in Reapers, ReapCommit(r)
      PROVE  Inv'
  <2>1. (SelectionsStable /\ LeaseExclusive /\ RowsExist)'
    BY <1>12 DEF Inv, SelectionsStable, LeaseExclusive, RowsExist, ReapCommit,
       claiming, working, operator
  <2>2. LeaseRecorded'
    BY <1>12 DEF Inv, LeaseRecorded, SelectionsStable, ReapCommit, claiming, working,
       operator
  <2>3. AttemptsBounded'
    BY <1>12 DEF Inv, AttemptsBounded, SelectionsStable, ReapCommit, claiming, working,
       operator
  <2>4. Quarantine'
    <3>1. \A j \in reaping[r] : state[j] = "leased" /\ lease_expires_at[j] < now
      BY DEF Inv, SelectionsStable
    <3>2. /\ UNCHANGED <<now, attempts, held, held_until>>
          /\ \A j \in Jobs : /\ j \notin reaping[r] => state'[j] = state[j]
                             /\ j \in poisoned[r] => state'[j] = "failed"
                             /\ dead_lettered'[j] = (j \in poisoned[r] \/ dead_lettered[j])
      BY <1>12 DEF ReapCommit, claiming, working, operator, Inv
    <3>3. \A j \in poisoned[r] : j \in reaping[r] /\ attempts[j] >= PoisonMaxAttempts
      BY DEF Inv, SelectionsStable, TypeOK
    <3> SUFFICES ASSUME NEW j \in Jobs, dead_lettered'[j]
                 PROVE  /\ state'[j] \in {"failed", "completed"}
                        /\ attempts[j] >= PoisonMaxAttempts
                        /\ \A w \in Workers : held[w] = j => held_until[w] < now
      BY <3>2 DEF Quarantine
    <3>4. CASE j \in poisoned[r]
      <4> SUFFICES ASSUME NEW w \in Workers, held[w] = j PROVE held_until[w] < now
        BY <3>2, <3>3, <3>4
      <4>1. state[j] = "leased" /\ lease_expires_at[j] < now
        BY <3>1, <3>3, <3>4
      <4>2. held_until[w] >= now => lease_expires_at[j] = held_until[w]
        BY <4>1 DEF Inv, LeaseRecorded
      <4>3. held_until[w] \in Int /\ now \in Int
        BY DEF Inv, TypeOK
      <4> QED
        BY <4>1, <4>2, <4>3
    <3>5. CASE j \notin poisoned[r]
      <4>1. dead_lettered[j]
        BY <3>2, <3>5
      <4>2. state[j] \in {"failed", "completed"} /\ j \notin reaping[r]
        BY <3>1, <4>1 DEF Inv, Quarantine
      <4> QED
        BY <3>2, <4>1, <4>2 DEF Inv, Quarantine
    <3> QED
      BY <3>4, <3>5
  <2> QED
    BY <2>1, <2>2, <2>3, <2>4 DEF Inv
<1>13. ASSUME NEW r \in Reapers, DrainDeadLetters(r)
      PROVE  Inv'
  BY <1>13 DEF Inv, SelectionsStable, LeaseRecorded, LeaseExclusive, AttemptsBounded,
     Quarantine, RowsExist, DrainDeadLetters, columns, claiming, working, operator
<1>14. ASSUME NEW r \in Reapers, ReaperCrash(r)
      PROVE  Inv'
  BY <1>14 DEF Inv, SelectionsStable, LeaseRecorded, LeaseExclusive, AttemptsBounded,
     Quarantine, RowsExist, ReaperCrash, columns, claiming, working, operator
<1>15. ASSUME NEW j \in Jobs, DeskSelect(j)
      PROVE  Inv'
  BY <1>15 DEF Inv, SelectionsStable, LeaseRecorded, LeaseExclusive, AttemptsBounded,
     Quarantine, RowsExist, DeskSelect, columns, claiming, working, reaper
<1>16. ASSUME NEW j \in Jobs, ReplayDeadLetter(j)
      PROVE  Inv'
  <2>1. (LeaseExclusive /\ AttemptsBounded /\ Quarantine /\ RowsExist)'
    BY <1>16 DEF Inv, LeaseExclusive, AttemptsBounded, Quarantine, RowsExist,
       ReplayDeadLetter, claiming, working, reaper
  <2>2. SelectionsStable'
    BY <1>16 DEF Inv, SelectionsStable, Quarantine, RowsExist, ReplayDeadLetter,
       claiming, working, reaper
  <2>3. LeaseRecorded'
    BY <1>16 DEF Inv, LeaseRecorded, Quarantine, RowsExist, ReplayDeadLetter, claiming,
       working, reaper
  <2> QED
    BY <2>1, <2>2, <2>3 DEF Inv
<1>17. ASSUME NEW j \in Jobs, ResolveDeadLetter(j)
      PROVE  Inv'
  <2>1. (LeaseRecorded /\ LeaseExclusive /\ AttemptsBounded /\ Quarantine /\ RowsExist)'
    BY <1>17 DEF Inv, LeaseRecorded, LeaseExclusive, AttemptsBounded, Quarantine,
       RowsExist, ResolveDeadLetter, claiming, working, reaper
  <2>2. SelectionsStable'
    BY <1>17 DEF Inv, SelectionsStable, Quarantine, RowsExist, ResolveDeadLetter,
       claiming, working, reaper
  <2> QED
    BY <2>1, <2>2 DEF Inv
<1>18. CASE UNCHANGED vars
  BY <1>18 DEF vars, columns, claiming, working, reaper, operator, Inv,
     SelectionsStable, LeaseRecorded, LeaseExclusive, AttemptsBounded, Quarantine,
     RowsExist
<1> QED
  BY <1>1, <1>2, <1>3, <1>4, <1>5, <1>6, <1>7, <1>8, <1>9, <1>10, <1>11, <1>12, <1>13,
     <1>14, <1>15, <1>16, <1>17, <1>18 DEF Next

\* On PostgreSQL the invariant holds in every reachable state.
THEOREM InvHolds ==
    ASSUME Dialect = "postgresql"
    PROVE  Spec => []Inv
BY InvInit, InvStep, PTL DEF Spec

\* Leases are exclusive on PostgreSQL: between claim, renewal, reaper and
\* replay, two workers never have time left on the same job.
THEOREM LeasesExclusive ==
    ASSUME Dialect = "postgresql"
    PROVE  Spec => []LeaseExclusive
<1>1. Inv => LeaseExclusive
  BY DEF Inv
<1> QED
  BY <1>1, InvHolds, PTL

\* What a transaction selected under FOR UPDATE is still so when it writes:
\* claims and reapers on PostgreSQL act on rows that are as they read them.
THEOREM SelectionsHold ==
    ASSUME Dialect = "postgresql"
    PROVE  Spec => []SelectionsStable
<1>1. Inv => SelectionsStable
  BY DEF Inv
<1> QED
  BY <1>1, InvHolds, PTL

\* On PostgreSQL a worker that believes in its lease finds it in the table, or
\* finds the job cancelled or acknowledged.
THEOREM LeasesOnRecord ==
    ASSUME Dialect = "postgresql"
    PROVE  Spec => []LeaseRecorded
<1>1. Inv => LeaseRecorded
  BY DEF Inv
<1> QED
  BY <1>1, InvHolds, PTL

\* The poison limit holds on PostgreSQL: no job is delivered more often than
\* queue_poison_max_attempts, whichever reapers race.
THEOREM PoisonLimit ==
    ASSUME Dialect = "postgresql"
    PROVE  Spec => []AttemptsBounded
<1>1. Inv => AttemptsBounded
  BY DEF Inv
<1> QED
  BY <1>1, InvHolds, PTL

\* A dead letter on PostgreSQL is out of circulation until an operator acts.
THEOREM DeadLettersQuarantined ==
    ASSUME Dialect = "postgresql"
    PROVE  Spec => []Quarantine
<1>1. Inv => Quarantine
  BY DEF Inv
<1> QED
  BY <1>1, InvHolds, PTL

-----------------------------------------------------------------------------
(***************************************************************************)
(* The queue implements the life cycle of a job.                           *)
(***************************************************************************)

\* One step of the queue moves every job along its life cycle.
LEMMA LifecycleStep ==
    ASSUME Dialect = "postgresql", Inv, [Next]_vars
    PROVE  [Lifecycle!LNext]_<<state, attempts, dead_lettered>>
<1> USE SettingsAssumption, ColumnsAssumption
    DEF Inv, TypeOK, Lifecycle!LNext, Lifecycle!Moves, Lifecycle!Stays, Lifecycle!Keeps
<1> DEFINE Goal == [Lifecycle!LNext]_<<state, attempts, dead_lettered>>
<1>1. ASSUME UNCHANGED <<state, attempts, dead_lettered>> PROVE Goal
  BY <1>1
<1>2. ASSUME NEW j \in Jobs, NEW d \in Delays, Enqueue(j, d) PROVE Goal
  BY <1>2 DEF Enqueue, Lifecycle!Enters
<1>3. ASSUME NEW w \in Workers, NEW j \in Jobs, ClaimUpdate(w, j) PROVE Goal
  BY <1>3 DEF ClaimUpdate, Lifecycle!IsDelivered, AttemptsBounded
<1>4. ASSUME NEW w \in Workers, NEW j \in Jobs, Acknowledge(w, j) PROVE Goal
  BY <1>4 DEF Acknowledge, columns, Lifecycle!IsSettled, RowsExist, QueueJobState
<1>5. ASSUME NEW j \in Jobs, CancelExecutionJobs(execution_id[j]) PROVE Goal
  BY <1>5 DEF CancelExecutionJobs, Cancel, Lifecycle!IsCancelled
<1>6. ASSUME NEW j \in Jobs, CancelTaskJobs(execution_task_id[j]) PROVE Goal
  BY <1>6 DEF CancelTaskJobs, Cancel, Lifecycle!IsCancelled
<1>7. ASSUME NEW r \in Reapers, ReapCommit(r) PROVE Goal
  <2>1. ASSUME NEW j \in Jobs, j \in poisoned[r] PROVE Lifecycle!IsQuarantined(j)
    BY <1>7, <2>1 DEF ReapCommit, Lifecycle!IsQuarantined, SelectionsStable
  <2>2. ASSUME NEW j \in Jobs, j \in reaping[r], j \notin poisoned[r]
        PROVE  Lifecycle!IsGivenBack(j)
    BY <1>7, <2>2 DEF ReapCommit, Lifecycle!IsGivenBack, SelectionsStable
  <2>3. ASSUME NEW j \in Jobs, j \notin reaping[r] PROVE Lifecycle!Stays(j)
    BY <1>7, <2>3 DEF ReapCommit
  <2> QED
    BY <2>1, <2>2, <2>3
<1>8. ASSUME NEW j \in Jobs, ReplayDeadLetter(j) PROVE Goal
  <2>1. Lifecycle!IsReplayed(j)
    BY <1>8 DEF ReplayDeadLetter, Lifecycle!IsReplayed, RowsExist
  <2>2. ASSUME NEW i \in Jobs, i # j PROVE Lifecycle!Stays(i)
    BY <1>8, <2>2 DEF ReplayDeadLetter
  <2> QED
    BY <2>1, <2>2
<1>9. ASSUME NEW j \in Jobs, ResolveDeadLetter(j) PROVE Goal
  <2>1. Lifecycle!IsResolved(j)
    BY <1>9 DEF ResolveDeadLetter, Lifecycle!IsResolved, RowsExist, Quarantine
  <2>2. ASSUME NEW i \in Jobs, i # j PROVE Lifecycle!Stays(i)
    BY <1>9, <2>2 DEF ResolveDeadLetter
  <2> QED
    BY <2>1, <2>2
<1> QED
  BY <1>1, <1>2, <1>3, <1>4, <1>5, <1>6, <1>7, <1>8, <1>9
     DEF Next, vars, columns, Tick, ClaimSelect, ClaimRollback, RenewLease, WorkerLoss,
         ReapSelect, DrainDeadLetters, ReaperCrash, DeskSelect

\* On PostgreSQL the queue implements JobLifecycle.
THEOREM Refinement ==
    ASSUME Dialect = "postgresql"
    PROVE  Spec => ImplementsLifecycle
<1>1. Init => Lifecycle!LInit
  BY DEF Init, Lifecycle!LInit
<1>2. Inv /\ [Next]_vars => [Lifecycle!LNext]_(Lifecycle!lifecycle)
  BY LifecycleStep DEF Lifecycle!lifecycle
<1> QED
  BY <1>1, <1>2, InvHolds, PTL DEF Spec, ImplementsLifecycle, Lifecycle!LSpec

\* On PostgreSQL a cancelled job, and an acknowledged one that is no dead
\* letter, is never brought back.
THEOREM SettledForever ==
    ASSUME Dialect = "postgresql"
    PROVE  Spec => SettledFinal
<1> DEFINE Kept == \A j \in Jobs :
          (state[j] = "cancelled" \/ (state[j] = "completed" /\ ~dead_lettered[j]))
              => state'[j] = state[j]
<1>1. ASSUME Inv, [Next]_vars PROVE [Kept]_vars
  <2>1. CASE UNCHANGED state
    BY <2>1
  <2>2. CASE Lifecycle!LNext
    BY <1>1, <2>2
       DEF Inv, Quarantine, TypeOK, Lifecycle!LNext, Lifecycle!Moves, Lifecycle!Stays,
           Lifecycle!Enters, Lifecycle!IsDelivered, Lifecycle!IsGivenBack,
           Lifecycle!IsQuarantined, Lifecycle!IsSettled, Lifecycle!IsCancelled,
           Lifecycle!IsReplayed, Lifecycle!IsResolved
  <2> QED
    BY <1>1, <2>1, <2>2, LifecycleStep
<1> QED
  BY <1>1, InvHolds, PTL DEF Spec, SettledFinal

-----------------------------------------------------------------------------
(***************************************************************************)
(* The concurrency limit, on either dialect.  The inductive invariant also *)
(* counts the claims that have passed the test and not yet written.        *)
(***************************************************************************)
Picks(f) == {w \in Workers : pick[w] # NoJob /\ workflow_id[pick[w]] = f}

OvershootInv ==
    \A j \in Jobs :
        Cardinality(Leased(workflow_id[j])) + Cardinality(Picks(workflow_id[j]))
            <= MaxConcurrent - 1 + Cardinality(Workers)

\* Leased jobs and open claims of a workflow can be counted.
LEMMA CountsAreNaturals ==
    ASSUME NEW f
    PROVE  /\ IsFiniteSet(Leased(f)) /\ Cardinality(Leased(f)) \in Nat
           /\ IsFiniteSet(Picks(f)) /\ Cardinality(Picks(f)) \in Nat
           /\ Cardinality(Picks(f)) <= Cardinality(Workers)
           /\ Cardinality(Workers) \in Nat
BY FiniteAssumption, FS_Subset, FS_CardinalityType DEF Leased, Picks

\* Fewer leased jobs and fewer open claims keep the count.
LEMMA FewerIsFine ==
    ASSUME OvershootInv,
           \A f : Leased(f)' \subseteq Leased(f) /\ Picks(f)' \subseteq Picks(f)
    PROVE  OvershootInv'
<1> SUFFICES ASSUME NEW j \in Jobs
             PROVE  Cardinality(Leased(workflow_id[j])') + Cardinality(Picks(workflow_id[j])')
                        <= MaxConcurrent - 1 + Cardinality(Workers)
  BY DEF OvershootInv
<1> DEFINE f == workflow_id[j]
<1>1. Cardinality(Leased(f)') <= Cardinality(Leased(f)) /\ Cardinality(Leased(f)') \in Nat
  BY CountsAreNaturals, FS_Subset, FS_CardinalityType
<1>2. Cardinality(Picks(f)') <= Cardinality(Picks(f)) /\ Cardinality(Picks(f)') \in Nat
  BY CountsAreNaturals, FS_Subset, FS_CardinalityType
<1>3. Cardinality(Leased(f)) + Cardinality(Picks(f)) <= MaxConcurrent - 1 + Cardinality(Workers)
  BY DEF OvershootInv
<1> QED
  BY <1>1, <1>2, <1>3, CountsAreNaturals, SettingsAssumption

\* The SELECT of a claim: the count was below the limit, and no more claims
\* can be open than there are workers.
LEMMA OvershootSelect ==
    ASSUME TypeOK, OvershootInv, NEW w \in Workers, NEW j \in Jobs, ClaimSelect(w, j)
    PROVE  OvershootInv'
<1> SUFFICES ASSUME NEW i \in Jobs
             PROVE  Cardinality(Leased(workflow_id[i])') + Cardinality(Picks(workflow_id[i])')
                        <= MaxConcurrent - 1 + Cardinality(Workers)
  BY DEF OvershootInv
<1>1. Leased(workflow_id[i])' = Leased(workflow_id[i])
  BY DEF Leased, ClaimSelect, columns
<1>2. CASE workflow_id[i] = workflow_id[j]
  <2>1. Cardinality(Leased(workflow_id[i])) < MaxConcurrent
    BY <1>2 DEF ClaimSelect, Candidates
  <2>2. Cardinality(Picks(workflow_id[i])') <= Cardinality(Workers)
        /\ Cardinality(Picks(workflow_id[i])') \in Nat
    BY FiniteAssumption, FS_Subset, FS_CardinalityType DEF Picks
  <2> QED
    BY <1>1, <2>1, <2>2, CountsAreNaturals, SettingsAssumption
<1>3. CASE workflow_id[i] # workflow_id[j]
  <2>1. Picks(workflow_id[i])' = Picks(workflow_id[i])
    BY <1>3 DEF Picks, ClaimSelect, TypeOK
  <2> QED
    BY <1>1, <2>1 DEF OvershootInv
<1> QED
  BY <1>2, <1>3

\* The UPDATE of a claim: one more leased job, one open claim less.
LEMMA OvershootUpdate ==
    ASSUME TypeOK, OvershootInv, NEW w \in Workers, NEW j \in Jobs, ClaimUpdate(w, j)
    PROVE  OvershootInv'
<1> SUFFICES ASSUME NEW i \in Jobs
             PROVE  Cardinality(Leased(workflow_id[i])') + Cardinality(Picks(workflow_id[i])')
                        <= MaxConcurrent - 1 + Cardinality(Workers)
  BY DEF OvershootInv
<1> DEFINE f == workflow_id[i]
<1>0. Cardinality(Leased(f)) + Cardinality(Picks(f)) <= MaxConcurrent - 1 + Cardinality(Workers)
  BY DEF OvershootInv
<1>1. CASE f = workflow_id[j]
  <2>1. Leased(f)' = Leased(f) \cup {j} /\ j \notin Leased(f)
    BY <1>1 DEF Leased, ClaimUpdate, TypeOK
  <2>2. Picks(f)' = Picks(f) \ {w} /\ w \in Picks(f)
    BY <1>1, ColumnsAssumption DEF Picks, ClaimUpdate, TypeOK
  <2>3. Cardinality(Leased(f)') = Cardinality(Leased(f)) + 1
    BY <2>1, CountsAreNaturals, FS_AddElement
  <2>4. Cardinality(Picks(f)') = Cardinality(Picks(f)) - 1
    <3>1. IsFiniteSet(Picks(f))
      BY CountsAreNaturals
    <3> QED BY <2>2, <3>1, FS_RemoveElement
  <2>5. /\ Cardinality(Leased(f)) \in Nat /\ Cardinality(Picks(f)) \in Nat
        /\ Cardinality(Workers) \in Nat /\ MaxConcurrent \in Nat
    BY CountsAreNaturals, SettingsAssumption
  <2> QED
    BY <1>0, <2>3, <2>4, <2>5
<1>2. CASE f # workflow_id[j]
  <2>1. Leased(f)' = Leased(f)
    BY <1>2 DEF Leased, ClaimUpdate, TypeOK
  <2>2. Picks(f)' = Picks(f)
    BY <1>2 DEF Picks, ClaimUpdate, TypeOK
  <2> QED
    BY <1>0, <2>1, <2>2
<1> QED
  BY <1>1, <1>2

\* Every step keeps the count of leased jobs and open claims of a workflow.
LEMMA OvershootStep == TypeOK /\ OvershootInv /\ [Next]_vars => OvershootInv'
<1> SUFFICES ASSUME TypeOK, OvershootInv, [Next]_vars PROVE OvershootInv'
  OBVIOUS
<1> DEFINE Fewer == \A f : Leased(f)' \subseteq Leased(f) /\ Picks(f)' \subseteq Picks(f)
<1>1. ASSUME UNCHANGED <<state, pick>> PROVE Fewer
  BY <1>1 DEF Leased, Picks
<1>2. ASSUME NEW w \in Workers, ClaimRollback(w) \/ WorkerLoss(w) PROVE Fewer
  BY <1>2, ColumnsAssumption DEF ClaimRollback, WorkerLoss, columns, Leased, Picks, TypeOK
<1>3. ASSUME NEW j \in Jobs, NEW d \in Delays, Enqueue(j, d) PROVE Fewer
  BY <1>3 DEF Enqueue, claiming, Leased, Picks, TypeOK
<1>4. ASSUME NEW w \in Workers, NEW j \in Jobs, Acknowledge(w, j) PROVE Fewer
  BY <1>4 DEF Acknowledge, columns, claiming, Leased, Picks, TypeOK
<1>5. ASSUME NEW S, Cancel(S) PROVE Fewer
  BY <1>5 DEF Cancel, claiming, Leased, Picks, TypeOK
<1>6. ASSUME NEW r \in Reapers, ReapCommit(r) PROVE Fewer
  BY <1>6 DEF ReapCommit, claiming, Leased, Picks, TypeOK
<1>7. ASSUME NEW j \in Jobs, ReplayDeadLetter(j) \/ ResolveDeadLetter(j) PROVE Fewer
  BY <1>7 DEF ReplayDeadLetter, ResolveDeadLetter, claiming, Leased, Picks, TypeOK
<1>8. ASSUME NEW w \in Workers, NEW j \in Jobs, ClaimSelect(w, j) \/ ClaimUpdate(w, j)
      PROVE  OvershootInv'
  BY <1>8, OvershootSelect, OvershootUpdate
<1>9. Fewer \/ (\E w \in Workers : \E j \in Jobs : ClaimSelect(w, j) \/ ClaimUpdate(w, j))
  BY <1>1, <1>2, <1>3, <1>4, <1>5, <1>6, <1>7
     DEF Next, vars, columns, claiming, Tick, RenewLease, CancelExecutionJobs, CancelTaskJobs,
         ReapSelect, DrainDeadLetters, ReaperCrash, DeskSelect
<1> QED
  BY <1>8, <1>9, FewerIsFine

\* On either dialect a workflow exceeds max_concurrent_tasks_per_workflow by
\* less than the number of workers, however many claims overlap.
THEOREM OvershootIsBounded == Spec => []OvershootBounded
<1>1. Init => OvershootInv
  <2> SUFFICES ASSUME Init, NEW j \in Jobs
               PROVE  Cardinality(Leased(workflow_id[j])) + Cardinality(Picks(workflow_id[j]))
                          <= MaxConcurrent - 1 + Cardinality(Workers)
    BY DEF OvershootInv
  <2>1. Leased(workflow_id[j]) = {} /\ Picks(workflow_id[j]) = {}
    BY DEF Init, Leased, Picks
  <2> QED
    BY <2>1, FS_EmptySet, CountsAreNaturals, SettingsAssumption
<1>2. OvershootInv => OvershootBounded
  BY CountsAreNaturals, SettingsAssumption DEF OvershootInv, OvershootBounded
<1> QED
  BY <1>1, <1>2, TypeCorrect, OvershootStep, PTL DEF Spec
=============================================================================
