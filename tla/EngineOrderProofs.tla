-------------------------- MODULE EngineOrderProofs --------------------------
(***************************************************************************)
(* When the engine keeps the order of the tasks.                           *)
(*                                                                         *)
(* NoDuplicateExecution and DependenciesRespected fail on some graphs and  *)
(* under some failures.  Here they are proved where they hold: for any     *)
(* number of tasks, workers and processes on the graphs that run in stages *)
(* (a task that something depends on has its stage to itself, so that no   *)
(* two sessions can release the same task), and on every graph for a       *)
(* single worker.  What holds on every graph for any number of workers is  *)
(* that a job is in one worker's hands.                                    *)
(***************************************************************************)
EXTENDS EngineProofs

\* Tasks run in stages, and what others wait for is alone in its stage: a chain,
\* which may skip links, that ends in any number of parallel tasks.
Staged(stage) ==
    /\ stage \in [Tasks -> Nat]
    /\ \A t \in Tasks : \A d \in deps[t] : stage[d] < stage[t]
    /\ \A t \in Tasks : stage[t] > 0 => \E d \in deps[t] : stage[d] = stage[t] - 1
    /\ \A t, u, c \in Tasks : t \in deps[c] /\ stage[u] = stage[t] => u = t

\* A SELECT returns every row of the execution's tasks.
AllRows == \A order \in RowOrders : \A t \in Tasks : \E n \in 1..Len(order) : order[n] = t

\* A worker that still runs renews its leases, and nobody retries or skips a
\* task by hand.  Crashes, restarts, retries by the engine and cancellations
\* may come at any moment.
Undisturbed == MaxSlips = 0 /\ \A c \in Calls : c.op = "cancel"

-----------------------------------------------------------------------------
(***************************************************************************)
(* The invariant.  A job is live while it is queued or leased or a worker  *)
(* has it in hand: a worker goes on after its job is cancelled, and        *)
(* between the commit of a success and the release of what follows.        *)
(***************************************************************************)
Enqueued(t) == \E n \in 1..MaxJobs : jstate[<<t, n>>] # "absent"

Live(j) == jstate[j] \in {"queued", "leased"} \/ \E w \in Workers : Holds(w, j)

\* A job is in one worker's hands, and not in the queue.
Held ==
    \A w \in Workers, j \in Jobs : Holds(w, j) =>
        /\ jstate[j] \in {"leased", "cancelled", "completed"}
        /\ \A v \in Workers : Holds(v, j) => v = w

\* A task has one live job.
OneLive == \A i, j \in Jobs : Live(i) /\ Live(j) /\ i[1] = j[1] => i = j

\* The live jobs are those of the last stage reached.
Front(stage) ==
    \A j \in Jobs, t \in Tasks : Live(j) /\ Enqueued(t) => stage[t] <= stage[j[1]]

\* What is still pending lies after every stage reached.
Ahead(stage) ==
    \A t, u \in Tasks : task[t] = "pending" /\ Enqueued(u) => stage[u] < stage[t]

\* The stages before the last one reached are over.
Behind(stage) ==
    \A t, u \in Tasks : stage[t] < stage[u] /\ Enqueued(u) => task[t] \notin ACTIVE_STATES

\* A task gets under way by a job only.
ByJob ==
    \A t \in Tasks : task[t] \in {"queued", "running", "success", "skipped"} => Enqueued(t)

\* The view of the session that follows a handler is good enough to release
\* from: what it shows pending lies ahead of the worker's task, what lies
\* behind is over, and nothing ahead is satisfied.
Views(stage) ==
    \A w \in Workers : wk[w].pc = "settling" =>
        \A t \in Tasks :
            /\ wk[w].tasks[t] = "pending" => stage[wk[w].job[1]] < stage[t]
            /\ stage[t] < stage[wk[w].job[1]] => wk[w].tasks[t] \notin ACTIVE_STATES
            /\ wk[w].tasks[t] \in SATISFIED_STATES => stage[t] <= stage[wk[w].job[1]]
            /\ task[t] = "pending" => wk[w].tasks[t] = "pending"

\* ... and shows the outcome of the worker's task.
OwnOutcome ==
    \A w \in Workers : wk[w].pc = "settling" =>
        wk[w].tasks[wk[w].job[1]] = OutcomeStatus(wk[w].out)

\* What a session remembers of its own rows: the task as it last wrote it, and
\* the job it has acknowledged.
Remembered ==
    \A w \in Workers :
        /\ \/ wk[w].pc \in {"started", "running"}
           \/ wk[w].pc \in {"finishing", "settling"} /\ wk[w].out \in {"allowed", "failed"}
           => wk[w].seen = "running"
        /\ wk[w].pc \in {"finishing", "settling"} /\ wk[w].out = "success" =>
               jstate[wk[w].job] \in {"completed", "cancelled"}

\* A task whose handler has returned successfully does not get active again.
Returned ==
    \A w \in Workers : wk[w].pc \in {"finishing", "settling"} /\ wk[w].out = "success" =>
        task[wk[w].job[1]] \notin ACTIVE_STATES

\* The call that spawned the execution has not enqueued the first tasks yet.
Spawning ==
    /\ api.kind \in {"closed", "cancel", "enqueue"}
    /\ api.kind = "enqueue" =>
           ~api.cancel /\ \A t \in Tasks : api.tasks[t] = "pending" /\ ~Enqueued(t)

\* No lease has run out under a worker that still runs.
LeasesKept == lapsed = {} /\ slips = 0

\* The inductive invariant.
Order(stage) ==
    /\ Held /\ OneLive /\ Front(stage) /\ Ahead(stage) /\ Behind(stage) /\ ByJob
    /\ Views(stage) /\ OwnOutcome /\ Remembered /\ Returned /\ Spawning /\ LeasesKept

-----------------------------------------------------------------------------
(***************************************************************************)
(* The pass of enqueue_ready_tasks over all rows.                          *)
(***************************************************************************)

\* A pass over all rows decides every pending task whose dependencies are over.
LEMMA PassDecides ==
    ASSUME NEW ts \in View, NEW order \in Seq(Tasks), NEW t \in Tasks,
           \E n \in 1..Len(order) : order[n] = t,
           \A d \in deps[t] : ts[d] \notin ACTIVE_STATES
    PROVE  Pass(ts, order)[t] # "pending"
<1> DEFINE L == Len(order)
<1>1. PICK f \in [0..L -> View] :
         /\ f[0] = ts
         /\ \A n \in 1..L : f[n] = [f[n - 1] EXCEPT ![order[n]] = Advance(f[n - 1], order[n])]
         /\ Pass(ts, order) = f[L]
  BY PassRounds
<1>2. PICK m \in 1..L : order[m] = t
  OBVIOUS
<1>3. L \in Nat /\ m \in Nat /\ 0 < m /\ m <= L /\ deps[t] \subseteq Tasks
  BY <1>2, EngineAssumption
<1> DEFINE Over(x) == \A d \in deps[t] : x[d] = ts[d]
           S == {n \in 0..L : Over(f[n]) /\ (m <= n => f[n][t] # "pending")}
<1>4. 0 \in S
  BY <1>1, <1>3
<1>5. ASSUME NEW n \in 1..L, n - 1 \in S PROVE n \in S
  <2> DEFINE x == f[n - 1]
             u == order[n]
  <2>1. x \in View /\ u \in Tasks /\ n \in 0..L /\ Over(x) /\ n \in Nat /\ n - 1 \in Nat
    BY <1>3, <1>5
  <2>2. (m <= n - 1 => x[t] # "pending") /\ (n = m => u = t)
    BY <1>2, <1>5
  <2>3. f[n] = [x EXCEPT ![u] = Advance(x, u)]
    BY <1>1
  <2> HIDE DEF x, u, L
  <2>4. \A v \in Tasks : f[n][v] = IF v = u THEN Advance(x, u) ELSE x[v]
    BY <2>1, <2>3 DEF View
  <2>5. Advance(x, u) # x[u] => x[u] = "pending"
    BY DEF Advance
  <2>6. Over(f[n])
    BY <1>3, <2>1, <2>4, <2>5 DEF ACTIVE_STATES
  <2>7. \A d \in deps[t] : x[d] \in {"failed", "cancelled"} \cup SATISFIED_STATES
    BY <1>3, <2>1 DEF View, TaskState, ACTIVE_STATES, SATISFIED_STATES
  <2>8. Advance(x, t) # "pending"
    BY <2>7 DEF Advance
  <2>9. Advance(x, u) = "pending" => x[u] = "pending"
    BY DEF Advance
  <2>10. m <= n => f[n][t] # "pending"
    <3>1. CASE n = m
      BY <2>2, <2>4, <2>8, <3>1
    <3>2. CASE m <= n - 1
      BY <2>2, <2>4, <2>9, <3>2
    <3> QED BY <1>3, <2>1, <3>1, <3>2
  <2> QED BY <2>1, <2>6, <2>10
<1> HIDE DEF S
<1>6. 0..L \subseteq S
  BY <1>3, <1>4, <1>5, IntervalInduction
<1>7. L \in S
  BY <1>3, <1>6
<1> QED BY <1>1, <1>3, <1>7 DEF S

\* No set of tasks waits for itself.
Grounded == \A S \in SUBSET Tasks : S # {} => \E t \in S : deps[t] \cap S = {}

\* The engine gets on: where no set of tasks waits for itself, which is what
\* DagService.validate makes sure of, and nothing is queued or running, a pass
\* over all rows decides at least one pending task.
THEOREM PassProgress ==
    ASSUME Grounded,
           NEW ts \in View, NEW order \in Seq(Tasks),
           \A t \in Tasks : \E n \in 1..Len(order) : order[n] = t,
           \A t \in Tasks : ts[t] \notin {"queued", "running"},
           \E t \in Tasks : ts[t] = "pending"
    PROVE  \E t \in Tasks : ts[t] = "pending" /\ Pass(ts, order)[t] # "pending"
<1>1. PICK t \in {u \in Tasks : ts[u] = "pending"} :
         deps[t] \cap {u \in Tasks : ts[u] = "pending"} = {}
  BY DEF Grounded
<1>2. t \in Tasks /\ deps[t] \subseteq Tasks
  BY EngineAssumption
<1>3. \A d \in deps[t] : ts[d] \notin ACTIVE_STATES
  BY <1>1, <1>2 DEF ACTIVE_STATES
<1>4. ts[t] = "pending" /\ \E n \in 1..Len(order) : order[n] = t
  BY <1>1, <1>2
<1>5. Pass(ts, order)[t] # "pending"
  BY <1>2, <1>3, <1>4, PassDecides
<1> QED BY <1>2, <1>4, <1>5

-----------------------------------------------------------------------------
(***************************************************************************)
(* What a step does to the jobs and to the workers that hold them.         *)
(***************************************************************************)

\* Acknowledging the jobs in A and enqueueing the tasks in Q: the job of each
\* is new and queued, and the acknowledged ones are out of the queue.
LEMMA AckAndEnqueueJobs ==
    ASSUME JobRows, NEW A \in SUBSET Jobs, NEW Q \in SUBSET Tasks, RoomFor(Q),
           jstate' = AckAndEnqueue(A, Q)
    PROVE  /\ \A t \in Q : /\ FreshJob(t) \in Jobs /\ FreshJob(t)[1] = t
                           /\ jstate[FreshJob(t)] = "absent"
           /\ \A j \in Jobs : jstate'[j] # jstate[j] =>
                  \/ j \in A /\ jstate'[j] = "completed"
                  \/ \E t \in Q : j = FreshJob(t) /\ jstate'[j] = "queued"
           /\ \A j \in A : jstate'[j] \in {"completed", "cancelled"}
<1>1. ASSUME NEW t \in Q
      PROVE  FreshJob(t) \in Jobs /\ FreshJob(t)[1] = t /\ jstate[FreshJob(t)] = "absent"
  <2>1. FreshJob(t) \in Jobs
    BY DEF RoomFor
  <2>2. PICK k \in 1..MaxJobs : FreshJob(t) = <<t, k>> /\ jstate[<<t, k>>] = "absent"
    BY <2>1, FreshJobIsNew
  <2> QED BY <2>1, <2>2
<1>2. \A j \in Jobs : jstate'[j] = IF j \in A /\ jstate[j] # "cancelled" THEN "completed"
                                  ELSE IF j \in {FreshJob(t) : t \in Q} THEN "queued"
                                  ELSE jstate[j]
  BY DEF AckAndEnqueue
<1>3. \A j \in {FreshJob(t) : t \in Q} : jstate[j] = "absent"
  BY <1>1
<1>4. \A j \in A : jstate'[j] \in {"completed", "cancelled"}
  BY <1>2, <1>3
<1> QED BY <1>1, <1>2, <1>4

\* What a step may do to one worker's coroutine: each handler of the worker's
\* loop, an interruption or a crash, and what the session remembers after it.
Turn(w) ==
    LET r == wk[w]
        n == wk'[w]
    IN \/ n = r
       \/ /\ n.pc \in {"idle", "gone"}
          /\ \/ LoadTerminal(w) \/ LoadCancelled(w) \/ HandlerRetries(w)
             \/ \E order \in RowOrders : Settle(w, order)
             \/ HandlerInterrupted(w) \/ Crash(proc[w])
       \/ \E j \in Jobs : Claim(w, j) /\ n.pc = "claimed" /\ n.job = j
       \/ /\ r.pc \notin {"idle", "gone"} /\ n.job = r.job
          /\ \/ LoadTask(w) /\ n.pc = "loaded"
             \/ Start(w) /\ n.pc = "started" /\ n.seen = "running"
             \/ Launch(w) /\ n.pc = "running" /\ n.seen = r.seen
             \/ (EnforceCancellations(proc[w]) \/ CancelCommit) /\ n.pc = "interrupted"
             \/ HandlerSucceeds(w) /\ n.pc = "finishing" /\ n.out = "success"
             \/ /\ HandlerFails(w) /\ n.pc = "finishing" /\ n.out \in {"allowed", "failed"}
                /\ n.seen = r.seen
             \/ HandlerInterrupted(w) /\ n.pc = "finishing" /\ n.out = "cancelled"
             \/ /\ Collect(w) /\ n.pc = "settling" /\ n.out = r.out /\ n.seen = r.seen
                /\ n.tasks = [task EXCEPT ![r.job[1]] = OutcomeStatus(r.out)]

\* Every step of the engine is such a turn of every worker.
LEMMA WorkersTurn == ASSUME Inv, [Next]_vars, NEW w \in Workers PROVE Turn(w)
<1>0. wk \in [Workers -> Coroutine] /\ wk[w] \in Coroutine
  BY DEF Inv, Coroutines
<1>1. CASE wk' = wk
  BY <1>1 DEF Turn
<1>2. ASSUME NEW v \in Workers, v # w, NEW r, wk' = [wk EXCEPT ![v] = r] PROVE Turn(w)
  <2>1. wk'[w] = wk[w]
    BY <1>0, <1>2
  <2> QED BY <2>1 DEF Turn
<1>3. ASSUME NEW r, wk' = [wk EXCEPT ![w] = r] PROVE wk'[w] = r
  BY <1>0, <1>3
<1>4. ASSUME NEW v \in Workers, NEW j \in Jobs, Claim(v, j) PROVE Turn(w)
  <2> DEFINE r == [Idle EXCEPT !.pc = "claimed", !.job = j]
  <2>1. wk' = [wk EXCEPT ![v] = r] /\ r.pc = "claimed" /\ r.job = j
    BY <1>4 DEF Claim, Idle
  <2> HIDE DEF r
  <2>2. v = w => wk'[w] = r
    BY <1>3, <2>1
  <2> QED BY <1>2, <1>4, <2>1, <2>2 DEF Turn
<1>5. ASSUME NEW v \in Workers,
             \/ LoadTerminal(v) \/ LoadCancelled(v) \/ HandlerRetries(v)
             \/ \E order \in RowOrders : Settle(v, order)
      PROVE  Turn(w)
  <2>1. wk' = [wk EXCEPT ![v] = Idle]
    BY <1>5 DEF LoadTerminal, LoadCancelled, HandlerRetries, Settle
  <2> QED BY <1>2, <1>3, <1>5, <2>1, ClosedType DEF Turn
<1>6. ASSUME NEW v \in Workers, LoadTask(v) PROVE Turn(w)
  <2> DEFINE r == [wk[v] EXCEPT !.pc = "loaded", !.seen = task[wk[v].job[1]],
                                !.ret = retries[wk[v].job[1]], !.ex = status]
  <2>1. wk' = [wk EXCEPT ![v] = r] /\ wk[v].pc = "claimed"
    BY <1>0, <1>6 DEF LoadTask
  <2>2. r.pc = "loaded" /\ r.job = wk[v].job
    BY <1>0 DEF Coroutine
  <2> HIDE DEF r
  <2> QED BY <1>2, <1>3, <1>6, <2>1, <2>2 DEF Turn
<1>7. ASSUME NEW v \in Workers, Start(v) PROVE Turn(w)
  <2> DEFINE r == [wk[v] EXCEPT !.pc = "started", !.seen = "running"]
  <2>1. wk' = [wk EXCEPT ![v] = r] /\ wk[v].pc = "loaded"
    BY <1>0, <1>7 DEF Start
  <2>2. r.pc = "started" /\ r.seen = "running" /\ r.job = wk[v].job
    BY <1>0 DEF Coroutine
  <2> HIDE DEF r
  <2> QED BY <1>2, <1>3, <1>7, <2>1, <2>2 DEF Turn
<1>8. ASSUME NEW v \in Workers, Launch(v) PROVE Turn(w)
  <2> DEFINE r == [wk[v] EXCEPT !.pc = "running"]
  <2>1. wk' = [wk EXCEPT ![v] = r] /\ wk[v].pc = "started"
    BY <1>0, <1>8 DEF Launch
  <2>2. r.pc = "running" /\ r.seen = wk[v].seen /\ r.job = wk[v].job
    BY <1>0 DEF Coroutine
  <2> HIDE DEF r
  <2> QED BY <1>2, <1>3, <1>8, <2>1, <2>2 DEF Turn
<1>9. ASSUME NEW v \in Workers, HandlerSucceeds(v) PROVE Turn(w)
  <2> DEFINE r == [wk[v] EXCEPT !.pc = "finishing", !.seen = "success", !.out = "success"]
  <2>1. wk' = [wk EXCEPT ![v] = r] /\ wk[v].pc = "running"
    BY <1>0, <1>9 DEF HandlerSucceeds
  <2>2. r.pc = "finishing" /\ r.out = "success" /\ r.job = wk[v].job
    BY <1>0 DEF Coroutine
  <2> HIDE DEF r
  <2> QED BY <1>2, <1>3, <1>9, <2>1, <2>2 DEF Turn
<1>10. ASSUME NEW v \in Workers, HandlerFails(v) PROVE Turn(w)
  <2> DEFINE o == IF wk[v].job[1] \in allow_failure THEN "allowed" ELSE "failed"
             r == [wk[v] EXCEPT !.pc = "finishing", !.out = o]
  <2>1. wk' = [wk EXCEPT ![v] = r] /\ wk[v].pc \in {"started", "running"}
    BY <1>0, <1>10 DEF HandlerFails
  <2>2. /\ r.pc = "finishing" /\ r.out \in {"allowed", "failed"}
        /\ r.seen = wk[v].seen /\ r.job = wk[v].job
    BY <1>0 DEF Coroutine
  <2> HIDE DEF r
  <2> QED BY <1>2, <1>3, <1>10, <2>1, <2>2 DEF Turn
<1>11. ASSUME NEW v \in Workers, HandlerInterrupted(v) PROVE Turn(w)
  <2> DEFINE r == [wk[v] EXCEPT !.pc = "finishing", !.out = "cancelled"]
             g == [Idle EXCEPT !.pc = "gone"]
  <2>1. wk[v].pc = "interrupted" /\ (wk' = [wk EXCEPT ![v] = r] \/ wk' = [wk EXCEPT ![v] = g])
    BY <1>0, <1>11 DEF HandlerInterrupted
  <2>2. /\ r.pc = "finishing" /\ r.out = "cancelled" /\ r.job = wk[v].job
        /\ g.pc = "gone"
    BY <1>0 DEF Coroutine, Idle
  <2> HIDE DEF r, g
  <2>3. v # w => Turn(w)
    BY <1>2, <2>1
  <2>4. v = w /\ wk' = [wk EXCEPT ![w] = g] => Turn(w)
    BY <1>2, <1>3, <1>11, <2>1, <2>2 DEF Turn
  <2>5. v = w /\ wk' = [wk EXCEPT ![w] = r] => Turn(w)
    BY <1>3, <1>11, <2>1, <2>2 DEF Turn
  <2> QED BY <2>1, <2>3, <2>4, <2>5
<1>12. ASSUME NEW v \in Workers, Collect(v) PROVE Turn(w)
  <2> DEFINE ts == [task EXCEPT ![wk[v].job[1]] = OutcomeStatus(wk[v].out)]
             r == [wk[v] EXCEPT !.pc = "settling", !.tasks = ts]
  <2>1. wk' = [wk EXCEPT ![v] = r] /\ wk[v].pc = "finishing"
    BY <1>0, <1>12 DEF Collect
  <2> HIDE DEF ts
  <2>2. /\ r.pc = "settling" /\ r.out = wk[v].out /\ r.seen = wk[v].seen /\ r.job = wk[v].job
        /\ r.tasks = ts
    BY <1>0 DEF Coroutine
  <2> HIDE DEF r
  <2>3. v = w => Turn(w)
    BY <1>3, <1>12, <2>1, <2>2 DEF Turn, ts
  <2> QED BY <1>2, <2>1, <2>3
<1>13. ASSUME NEW p, Interrupt(p)
       PROVE  \/ wk'[w] = wk[w]
              \/ /\ proc[w] = p /\ wk[w].pc = "running"
                 /\ wk'[w].pc = "interrupted" /\ wk'[w].job = wk[w].job
  <2>1. \/ wk'[w] = wk[w]
        \/ proc[w] = p /\ wk[w].pc = "running" /\ wk'[w] = [wk[w] EXCEPT !.pc = "interrupted"]
    BY <1>13 DEF Interrupt, Inflight
  <2> QED BY <1>0, <2>1 DEF Coroutine
<1>14. ASSUME NEW p \in Procs, EnforceCancellations(p) PROVE Turn(w)
  <2>1. wk' = wk \/ Interrupt(p)
    BY <1>14 DEF EnforceCancellations
  <2> QED BY <1>1, <1>13, <1>14, <2>1 DEF Turn
<1>15. ASSUME CancelCommit PROVE Turn(w)
  <2>1. Interrupt(ApiProc)
    BY <1>15 DEF CancelCommit
  <2> QED BY <1>13, <1>15, <2>1 DEF Turn
<1>16. ASSUME NEW p \in Procs, Crash(p) PROVE Turn(w)
  <2>1. wk'[w] = wk[w] \/ (proc[w] = p /\ wk'[w] = Idle)
    BY <1>16 DEF Crash
  <2> QED BY <1>16, <2>1, ClosedType DEF Turn
<1>17. ASSUME NEW v \in Workers, DequeueRequeue(v) \/ ProcessDeadLetters(v) \/ SlipLease(v)
       PROVE  wk' = wk
  BY <1>17 DEF DequeueRequeue, ProcessDeadLetters, SlipLease
<1>18. ASSUME NEW p \in Procs,
              \/ LetterStep(p) \/ WatchdogRequeue(p) \/ WatchdogDrain(p) \/ ReapHungTasks(p)
              \/ FinalizeOrphaned(p)
       PROVE  wk' = wk
  BY <1>18 DEF LetterStep, DeadLetterLoad, ServiceCommit, WatchdogRequeue, WatchdogDrain,
     ReapHungTasks, FinalizeOrphaned
<1>19. ASSUME \/ RetryCommit \/ SkipCommit \/ \E order \in RowOrders : EnqueueCommit(order)
              \/ \E c \in Calls : ApiCall(c)
              \/ UNCHANGED vars
       PROVE  wk' = wk
  BY <1>19 DEF RetryCommit, SkipCommit, EnqueueCommit, ApiCall, vars
<1> QED
  BY <1>1, <1>4, <1>5, <1>6, <1>7, <1>8, <1>9, <1>10, <1>11, <1>12, <1>14, <1>15, <1>16,
     <1>17, <1>18, <1>19 DEF Next, WorkerStep, WatchdogStep, ApiStep

\* What is written at the end of a handler's transaction, and the tasks it
\* hands out; and the tasks the spawning call hands out.
Settled(w, order) ==
    CASE wk[w].out \in {"success", "allowed"} -> EnqueueReady(wk[w].tasks, FALSE, order)
      [] wk[w].out = "failed" -> FailDownstream(wk[w].tasks)
      [] wk[w].out = "cancelled" -> wk[w].tasks

Released(w, order) == NewlyQueued(wk[w].tasks, Settled(w, order))

Spawned(order) == NewlyQueued(api.tasks, EnqueueReady(api.tasks, api.cancel, order))

\* The rows of queue_jobs move, and a job enters for each task in Q.
Moved(Q) ==
    /\ Q \subseteq Tasks
    /\ \A t \in Q : /\ FreshJob(t) \in Jobs /\ FreshJob(t)[1] = t
                    /\ jstate[FreshJob(t)] = "absent" /\ jstate'[FreshJob(t)] # "absent"
    /\ \A j \in Jobs :
           /\ jstate'[j] \in {"queued", "leased"} =>
                  jstate[j] \in {"queued", "leased"} \/ \E t \in Q : j = FreshJob(t)
           /\ jstate'[j] # "absent" => jstate[j] # "absent" \/ \E t \in Q : j = FreshJob(t)
           /\ jstate'[j] = "leased" => jstate[j] = "leased" \/ \E w \in Workers : Claim(w, j)
           /\ jstate[j] \in {"leased", "cancelled", "completed"} =>
                  jstate'[j] \in {"leased", "cancelled", "completed"} \/ j \in Expired
           /\ jstate[j] \in {"cancelled", "completed"} => jstate'[j] \in {"cancelled", "completed"}

\* What acknowledging and enqueueing comes to.
LEMMA AckAndEnqueueMoved ==
    ASSUME JobRows, NEW A \in SUBSET Jobs, NEW Q \in SUBSET Tasks, RoomFor(Q),
           jstate' = AckAndEnqueue(A, Q), \A j \in A : jstate[j] # "absent"
    PROVE  Moved(Q)
<1>1. /\ \A t \in Q : /\ FreshJob(t) \in Jobs /\ FreshJob(t)[1] = t
                      /\ jstate[FreshJob(t)] = "absent"
      /\ \A j \in Jobs : jstate'[j] # jstate[j] =>
             \/ j \in A /\ jstate'[j] = "completed"
             \/ \E t \in Q : j = FreshJob(t) /\ jstate'[j] = "queued"
  BY AckAndEnqueueJobs
<1>2. \A j \in Jobs : jstate'[j] = IF j \in A /\ jstate[j] # "cancelled" THEN "completed"
                                  ELSE IF j \in {FreshJob(t) : t \in Q} THEN "queued"
                                  ELSE jstate[j]
  BY DEF AckAndEnqueue
<1>3. \A t \in Q : jstate'[FreshJob(t)] # "absent"
  BY <1>1, <1>2
<1> QED BY <1>1, <1>3 DEF Moved

\* A worker that is not idle has a job in the table.
LEMMA InHand ==
    ASSUME Inv, NEW w \in Workers, wk[w].pc \notin {"idle", "gone"}
    PROVE  /\ wk[w].job \in Jobs /\ jstate[wk[w].job] # "absent" /\ wk[w].job[1] \in Tasks
           /\ Holds(w, wk[w].job) /\ Live(wk[w].job) /\ Enqueued(wk[w].job[1])
<1>1. wk[w].job \in Jobs /\ jstate[wk[w].job] # "absent"
  BY DEF Inv, Coroutines
<1>2. Holds(w, wk[w].job)
  BY DEF Holds
<1> QED BY <1>1, <1>2 DEF Live, Enqueued, Jobs

\* A retry enqueues the worker's task again.
LEMMA RetryMoves ==
    ASSUME Inv, NEW w \in Workers, HandlerRetries(w) PROVE Moved({wk[w].job[1]})
<1> DEFINE Q == {wk[w].job[1]}
           A == {wk[w].job}
<1>1. /\ wk[w].pc \notin {"idle", "gone"} /\ RoomFor(Q)
      /\ jstate' = AckAndEnqueue(A, Q) /\ JobRows
  BY DEF HandlerRetries, Inv
<1>2. Q \subseteq Tasks /\ A \subseteq Jobs /\ \A j \in A : jstate[j] # "absent"
  BY <1>1, InHand
<1> HIDE DEF Q, A
<1>3. Moved(Q)
  BY <1>1, <1>2, AckAndEnqueueMoved
<1> QED BY <1>3 DEF Q

\* The end of a handler's transaction enqueues what it releases.
LEMMA SettleMoves ==
    ASSUME Inv, NEW w \in Workers, NEW order \in RowOrders, Settle(w, order)
    PROVE  Moved(Released(w, order))
<1> DEFINE Q == Released(w, order)
           A == IF wk[w].out = "success" THEN {} ELSE {wk[w].job}
<1>1. /\ wk[w].pc \notin {"idle", "gone"} /\ RoomFor(Q)
      /\ jstate' = AckAndEnqueue(A, Q) /\ JobRows
  BY DEF Settle, Released, Settled, Inv
<1>2. Q \subseteq Tasks
  BY DEF Released, NewlyQueued
<1>3. A \subseteq Jobs /\ \A j \in A : jstate[j] # "absent"
  BY <1>1, InHand
<1> HIDE DEF Q, A
<1>4. Moved(Q)
  BY <1>1, <1>2, <1>3, AckAndEnqueueMoved
<1> QED BY <1>4 DEF Q

\* The second half of trigger_workflow enqueues what it spawns.
LEMMA SpawnMoves ==
    ASSUME Inv, NEW order \in RowOrders, EnqueueCommit(order) PROVE Moved(Spawned(order))
<1> DEFINE Q == Spawned(order)
<1>1. RoomFor(Q) /\ jstate' = AckAndEnqueue({}, Q) /\ JobRows
  BY DEF EnqueueCommit, Spawned, Inv
<1>2. Q \subseteq Tasks
  BY DEF Spawned, NewlyQueued
<1> HIDE DEF Q
<1>3. Moved(Q)
  BY <1>1, <1>2, AckAndEnqueueMoved
<1> QED BY <1>3 DEF Q

\* No other step puts a job in the queue.
LEMMA QueueStep ==
    ASSUME Inv, [Next]_vars
    PROVE  \/ Moved({})
           \/ \E w \in Workers : HandlerRetries(w)
           \/ \E w \in Workers, order \in RowOrders : Settle(w, order)
           \/ \E order \in RowOrders : EnqueueCommit(order)
<1>0. JobRows
  BY DEF Inv
<1>1. ASSUME jstate' = jstate PROVE Moved({})
  BY <1>1 DEF Moved
<1>2. ASSUME NEW w \in Workers, NEW j \in Jobs, Claim(w, j) PROVE Moved({})
  <2>1. \A i \in Jobs : jstate'[i] = IF i = j THEN "leased" ELSE jstate[i]
    BY <1>0, <1>2 DEF Claim, JobRows
  <2> QED BY <1>2, <2>1 DEF Moved, Claim
<1>3. ASSUME NEW w \in Workers, LoadTerminal(w) \/ LoadCancelled(w) \/ HandlerSucceeds(w)
      PROVE  Moved({})
  <2>1. \/ jstate' = jstate
        \/ wk[w].pc \notin {"idle", "gone"} /\ jstate' = AckAndEnqueue({wk[w].job}, {})
    BY <1>3 DEF LoadTerminal, LoadCancelled, HandlerSucceeds
  <2>2. CASE wk[w].pc \notin {"idle", "gone"} /\ jstate' = AckAndEnqueue({wk[w].job}, {})
    <3> DEFINE A == {wk[w].job}
    <3>1. A \subseteq Jobs /\ \A j \in A : jstate[j] # "absent"
      BY <2>2, InHand
    <3>2. jstate' = AckAndEnqueue(A, {}) /\ RoomFor({})
      BY <2>2 DEF RoomFor
    <3> HIDE DEF A
    <3> QED BY <1>0, <3>1, <3>2, AckAndEnqueueMoved
  <2> QED BY <1>1, <2>1, <2>2
<1>4. ASSUME NEW p, Requeue(p, Expired) PROVE Moved({})
  <2>1. Expired \subseteq Jobs /\ \A j \in Expired : jstate[j] = "leased"
    BY DEF Expired
  <2> DEFINE D == {j \in Expired : attempts[j] >= PoisonMaxAttempts}
  <2>2. \A j \in Jobs : jstate'[j] = IF j \in D THEN "failed"
                                    ELSE IF j \in Expired THEN "queued" ELSE jstate[j]
    BY <1>4 DEF Requeue
  <2> HIDE DEF D
  <2>3. D \subseteq Expired
    BY DEF D
  <2> QED BY <2>1, <2>2, <2>3 DEF Moved
<1>5. ASSUME NEW w \in Workers, DequeueRequeue(w) PROVE Moved({})
  BY <1>4, <1>5 DEF DequeueRequeue
<1>6. ASSUME NEW p \in Procs, WatchdogRequeue(p) PROVE Moved({})
  BY <1>4, <1>6 DEF WatchdogRequeue
<1>7. ASSUME CancelCommit \/ SkipCommit PROVE Moved({})
  <2>1. \A j \in Jobs : \/ jstate'[j] = jstate[j]
                        \/ jstate[j] # "absent" /\ jstate'[j] = "cancelled"
    BY <1>7 DEF CancelCommit, SkipCommit
  <2> QED BY <2>1 DEF Moved
<1>8. ASSUME NEW w \in Workers,
              \/ LoadTask(w) \/ Start(w) \/ Launch(w) \/ HandlerFails(w)
              \/ HandlerInterrupted(w) \/ Collect(w) \/ ProcessDeadLetters(w) \/ SlipLease(w)
       PROVE  jstate' = jstate
  BY <1>8 DEF LoadTask, Start, Launch, HandlerFails, HandlerInterrupted, Collect,
     ProcessDeadLetters, SlipLease, queue
<1>9. ASSUME NEW p \in Procs,
              \/ LetterStep(p) \/ Crash(p) \/ WatchdogDrain(p) \/ EnforceCancellations(p)
              \/ ReapHungTasks(p) \/ FinalizeOrphaned(p)
       PROVE  jstate' = jstate
  BY <1>9 DEF LetterStep, DeadLetterLoad, ServiceCommit, Crash, WatchdogDrain,
     EnforceCancellations, ReapHungTasks, FinalizeOrphaned, queue
<1>10. ASSUME RetryCommit \/ (\E c \in Calls : ApiCall(c)) \/ UNCHANGED vars
       PROVE  jstate' = jstate
  BY <1>10 DEF RetryCommit, ApiCall, vars, queue
<1> QED
  BY <1>1, <1>2, <1>3, <1>5, <1>6, <1>7, <1>8, <1>9, <1>10
  DEF Next, WorkerStep, WatchdogStep, ApiStep

\* What a settling session writes: pending tasks are queued, failed or
\* cancelled, the queued ones being those it hands out, each with its
\* dependencies satisfied in the view.
LEMMA SettledView ==
    ASSUME Inv, NEW w \in Workers, NEW order \in RowOrders, wk[w].pc = "settling"
    PROVE  /\ wk[w].tasks \in View /\ Settled(w, order) \in View
           /\ \A t \in Tasks : Settled(w, order)[t] # wk[w].tasks[t] =>
                  /\ wk[w].tasks[t] = "pending"
                  /\ Settled(w, order)[t] \in {"queued", "failed", "cancelled"}
                  /\ Settled(w, order)[t] = "queued" => t \in Released(w, order)
           /\ \A t \in Released(w, order) :
                  /\ wk[w].out \in {"success", "allowed"} /\ t \in Tasks
                  /\ wk[w].tasks[t] = "pending"
                  /\ \A d \in deps[t] : wk[w].tasks[d] \in SATISFIED_STATES
<1> DEFINE mine == wk[w].tasks
           new == Settled(w, order)
<1>1. mine \in View /\ wk[w].out \in Outcome /\ order \in Seq(Tasks)
  BY EngineAssumption DEF Inv, Coroutines
<1>2. CASE wk[w].out \in {"success", "allowed"}
  <2>1. new = Pass(mine, order)
    BY <1>2 DEF Settled, EnqueueReady
  <2> HIDE DEF mine, new
  <2>2. /\ new \in View
        /\ \A t \in Tasks : new[t] # mine[t] =>
              mine[t] = "pending" /\ new[t] \in {"queued", "failed", "cancelled"}
        /\ \A t \in NewlyQueued(mine, new) : \A d \in deps[t] : mine[d] \in SATISFIED_STATES
    BY <1>1, <2>1, PassReleasesReady
  <2> QED BY <1>1, <1>2, <2>2 DEF Released, NewlyQueued, mine, new
<1>3. CASE wk[w].out = "failed"
  <2>1. new = FailDownstream(mine)
    BY <1>3 DEF Settled
  <2> HIDE DEF mine, new
  <2>2. /\ new \in View
        /\ \A t \in Tasks : new[t] # mine[t] => mine[t] = "pending" /\ new[t] = "failed"
    BY <1>1, <2>1, FailDownstreamCloses
  <2>3. NewlyQueued(mine, new) = {}
    BY <2>2 DEF NewlyQueued
  <2> QED BY <1>1, <2>2, <2>3 DEF Released, mine, new
<1>4. CASE wk[w].out = "cancelled"
  <2>1. new = mine
    BY <1>4 DEF Settled
  <2>2. Released(w, order) = {}
    BY <2>1 DEF Released, NewlyQueued
  <2> QED BY <1>1, <2>1, <2>2
<1> QED BY <1>1, <1>2, <1>3, <1>4 DEF Outcome

\* ... and to which rows: the tasks it changed in its view, and its own.
LEMMA SettleWrites ==
    ASSUME Inv, OwnOutcome, NEW w \in Workers, NEW order \in RowOrders, Settle(w, order),
           NEW t \in Tasks
    PROVE  /\ t # wk[w].job[1] =>
                  task'[t] = IF Settled(w, order)[t] # wk[w].tasks[t]
                             THEN Settled(w, order)[t] ELSE task[t]
           /\ t = wk[w].job[1] =>
                  /\ wk[w].out = "success" => task'[t] = task[t]
                  /\ wk[w].out # "success" =>
                         task'[t] = IF OutcomeStatus(wk[w].out) # wk[w].seen
                                    THEN OutcomeStatus(wk[w].out) ELSE task[t]
<1> DEFINE mine == wk[w].tasks
           new == Settled(w, order)
           own == wk[w].job[1]
           first == IF wk[w].out = "success" THEN mine ELSE [mine EXCEPT ![own] = wk[w].seen]
<1>1. wk[w].pc = "settling" /\ task' = Written(task, first, new)
  BY DEF Settle, Settled
<1>2. /\ mine \in View /\ new \in View
      /\ \A u \in Tasks : new[u] # mine[u] => mine[u] = "pending"
  BY <1>1, SettledView
<1>3. mine[own] = OutcomeStatus(wk[w].out) /\ wk[w].out \in Outcome
  BY <1>1 DEF OwnOutcome, Inv, Coroutines
<1>4. OutcomeStatus(wk[w].out) # "pending"
  BY <1>3 DEF OutcomeStatus, Outcome
<1>5. task'[t] = IF new[t] # first[t] THEN new[t] ELSE task[t]
  BY <1>1 DEF Written
<1>6. t # own => first[t] = mine[t]
  BY <1>2 DEF View
<1>7. t = own => first[t] = IF wk[w].out = "success" THEN mine[t] ELSE wk[w].seen
  BY <1>2 DEF View
<1> HIDE DEF mine, new, own, first
<1>8. t = own => new[t] = mine[t]
  BY <1>2, <1>3, <1>4
<1> QED BY <1>3, <1>5, <1>6, <1>7, <1>8 DEF mine, new, own, first

\* Who may end a task: its own worker, a pass over a view that shows it pending,
\* a dead letter, or a cancellation.
Ended(t) ==
    \/ \E w \in Workers :
          /\ wk[w].pc \notin {"idle", "gone"} /\ wk[w].job[1] = t
          /\ LoadCancelled(w) \/ \E order \in RowOrders : Settle(w, order) /\ wk[w].out # "success"
    \/ \E w \in Workers, order \in RowOrders : Settle(w, order) /\ wk[w].tasks[t] = "pending"
    \/ \E p \in Procs : ServiceCommit(p) /\ svc[p].kind = "dead"
    \/ CancelCommit
    \/ \E order \in RowOrders : EnqueueCommit(order)

\* A step that writes to a task's status: it ends the task, or the worker that
\* has a job of the task moves it, or a session hands it out.
LEMMA TaskWrites ==
    ASSUME Inv, OwnOutcome, Spawning, [Next]_vars, NEW t \in Tasks, task'[t] # task[t]
    PROVE  \/ task'[t] \in {"failed", "cancelled"} /\ Ended(t)
           \/ \E w \in Workers :
                 /\ wk[w].pc \notin {"idle", "gone"} /\ wk[w].job[1] = t
                 /\ \/ Start(w) /\ task'[t] = "running"
                    \/ HandlerSucceeds(w) /\ task'[t] = "success"
                    \/ HandlerRetries(w) /\ task'[t] = "queued"
                    \/ /\ \E order \in RowOrders : Settle(w, order)
                       /\ wk[w].out = "allowed" /\ task'[t] = "success"
           \/ \E w \in Workers, order \in RowOrders :
                 Settle(w, order) /\ t \in Released(w, order) /\ task'[t] = "queued"
           \/ \E order \in RowOrders :
                 EnqueueCommit(order) /\ t \in Spawned(order) /\ task'[t] = "queued"
<1> DEFINE Goal == \/ task'[t] \in {"failed", "cancelled"} /\ Ended(t)
                   \/ \E w \in Workers :
                         /\ wk[w].pc \notin {"idle", "gone"} /\ wk[w].job[1] = t
                         /\ \/ Start(w) /\ task'[t] = "running"
                            \/ HandlerSucceeds(w) /\ task'[t] = "success"
                            \/ HandlerRetries(w) /\ task'[t] = "queued"
                            \/ /\ \E order \in RowOrders : Settle(w, order)
                               /\ wk[w].out = "allowed" /\ task'[t] = "success"
                   \/ \E w \in Workers, order \in RowOrders :
                         Settle(w, order) /\ t \in Released(w, order) /\ task'[t] = "queued"
                   \/ \E order \in RowOrders :
                         EnqueueCommit(order) /\ t \in Spawned(order) /\ task'[t] = "queued"
<1>0. task \in View
  BY DEF Inv, Tables
<1>1. ASSUME NEW u, NEW x, task' = [task EXCEPT ![u] = x] PROVE u = t /\ task'[t] = x
  BY <1>0, <1>1 DEF View
<1>2. ASSUME NEW w \in Workers, LoadCancelled(w) PROVE Goal
  <2>1. /\ task' = [task EXCEPT ![wk[w].job[1]] = "cancelled"] \/ task' = task
        /\ wk[w].pc = "claimed"
    BY <1>2 DEF LoadCancelled
  <2>2. wk[w].job[1] = t /\ task'[t] = "cancelled"
    BY <1>1, <2>1
  <2> QED BY <1>2, <2>1, <2>2 DEF Ended
<1>3. ASSUME NEW w \in Workers, Start(w) PROVE Goal
  <2> DEFINE x == IF wk[w].seen # "running" THEN "running" ELSE task[wk[w].job[1]]
  <2>1. task' = [task EXCEPT ![wk[w].job[1]] = x] /\ wk[w].pc = "loaded"
    BY <1>0, <1>3 DEF Start
  <2>2. wk[w].job[1] = t /\ task'[t] = x
    BY <1>1, <2>1
  <2>3. x = "running"
    BY <2>2
  <2> QED BY <1>3, <2>1, <2>2, <2>3
<1>4. ASSUME NEW w \in Workers, HandlerSucceeds(w) PROVE Goal
  <2>1. task' = [task EXCEPT ![wk[w].job[1]] = "success"] /\ wk[w].pc = "running"
    BY <1>4 DEF HandlerSucceeds
  <2>2. wk[w].job[1] = t /\ task'[t] = "success"
    BY <1>1, <2>1
  <2> QED BY <1>4, <2>1, <2>2
<1>5. ASSUME NEW w \in Workers, HandlerRetries(w) PROVE Goal
  <2>1. task' = [task EXCEPT ![wk[w].job[1]] = "queued"] /\ wk[w].pc \in {"started", "running"}
    BY <1>5 DEF HandlerRetries
  <2>2. wk[w].job[1] = t /\ task'[t] = "queued"
    BY <1>1, <2>1
  <2> QED BY <1>5, <2>1, <2>2
<1>6. ASSUME NEW w \in Workers, NEW order \in RowOrders, Settle(w, order) PROVE Goal
  <2>1. wk[w].pc = "settling" /\ wk[w].out \in Outcome
    BY <1>6 DEF Settle, Inv, Coroutines
  <2>2. CASE t # wk[w].job[1]
    <3>1. /\ Settled(w, order)[t] # wk[w].tasks[t] /\ task'[t] = Settled(w, order)[t]
      BY <1>6, <2>2, SettleWrites
    <3>2. /\ Settled(w, order)[t] \in {"queued", "failed", "cancelled"}
          /\ Settled(w, order)[t] = "queued" => t \in Released(w, order)
      BY <2>1, <3>1, SettledView
    <3>3. wk[w].tasks[t] = "pending"
      BY <2>1, <3>1, SettledView
    <3> QED BY <1>6, <3>1, <3>2, <3>3 DEF Ended
  <2>3. CASE t = wk[w].job[1]
    <3>1. wk[w].out # "success" /\ task'[t] = OutcomeStatus(wk[w].out)
      BY <1>6, <2>3, SettleWrites
    <3>2. \/ wk[w].out = "allowed" /\ task'[t] = "success"
          \/ task'[t] \in {"failed", "cancelled"}
      BY <2>1, <3>1 DEF Outcome, OutcomeStatus
    <3> QED BY <1>6, <2>1, <2>3, <3>1, <3>2 DEF Ended
  <2> QED BY <2>2, <2>3
<1>7. ASSUME NEW p \in Procs, ServiceCommit(p) PROVE Goal
  <2> DEFINE v == svc[p]
             ts == [v.tasks EXCEPT ![v.task] = "failed"]
  <2>1. v.tasks \in View /\ (v.kind = "dead" => v.task \in Tasks)
    BY <1>7 DEF ServiceCommit, Inv, Sessions
  <2>2. \/ task' = Written(task, v.tasks, v.tasks)
        \/ v.kind = "dead" /\ task' = Written(task, v.tasks, FailDownstream(ts))
    BY <1>7 DEF ServiceCommit
  <2> HIDE DEF v
  <2>3. v.kind = "dead" =>
          \A u \in Tasks : FailDownstream(ts)[u] # v.tasks[u] => FailDownstream(ts)[u] = "failed"
    <3> SUFFICES ASSUME v.kind = "dead", NEW u \in Tasks,
                        FailDownstream(ts)[u] # v.tasks[u]
                 PROVE  FailDownstream(ts)[u] = "failed"
      OBVIOUS
    <3>1. ts \in View /\ ts[u] \in {v.tasks[u], "failed"}
      BY <2>1 DEF View, TaskState
    <3> HIDE DEF ts
    <3>2. FailDownstream(ts)[u] # ts[u] => FailDownstream(ts)[u] = "failed"
      BY <3>1, FailDownstreamCloses
    <3> QED BY <3>1, <3>2
  <2> HIDE DEF ts
  <2>4. task'[t] = "failed" /\ v.kind = "dead"
    BY <2>2, <2>3 DEF Written
  <2> QED BY <1>7, <2>4 DEF Ended, v
<1>8. ASSUME CancelCommit PROVE Goal
  <2> DEFINE new == [u \in Tasks |-> IF api.tasks[u] \in {"pending", "queued"} THEN "cancelled"
                                     ELSE api.tasks[u]]
  <2>1. task' = Written(task, api.tasks, new)
    BY <1>8 DEF CancelCommit
  <2>2. new[t] # api.tasks[t] => new[t] = "cancelled"
    OBVIOUS
  <2> HIDE DEF new
  <2>3. task'[t] = "cancelled"
    BY <2>1, <2>2 DEF Written
  <2> QED BY <1>8, <2>3 DEF Ended
<1>9. ASSUME NEW order \in RowOrders, EnqueueCommit(order) PROVE Goal
  <2> DEFINE new == EnqueueReady(api.tasks, api.cancel, order)
  <2>1. /\ api.tasks \in View /\ ~api.cancel /\ order \in Seq(Tasks)
        /\ task' = Written(task, api.tasks, new)
    BY <1>9, EngineAssumption DEF EnqueueCommit, Inv, Sessions, Spawning
  <2>2. new = Pass(api.tasks, order)
    BY <2>1 DEF EnqueueReady
  <2>3. new[t] # api.tasks[t] =>
            api.tasks[t] = "pending" /\ new[t] \in {"queued", "failed", "cancelled"}
    BY <2>1, <2>2, PassReleasesReady
  <2>4. Spawned(order) = NewlyQueued(api.tasks, new)
    BY DEF Spawned
  <2> HIDE DEF new
  <2>5. task'[t] = new[t] /\ new[t] # api.tasks[t]
    BY <2>1 DEF Written
  <2>6. (task'[t] = "queued" /\ t \in Spawned(order)) \/ task'[t] \in {"failed", "cancelled"}
    BY <2>3, <2>4, <2>5 DEF NewlyQueued
  <2> QED BY <1>9, <2>6 DEF Ended
<1>10. ~RetryCommit /\ ~SkipCommit
  BY DEF Spawning, RetryCommit, SkipCommit
<1>11. ASSUME NEW w \in Workers,
              \/ \E j \in Jobs : Claim(w, j)
              \/ LoadTerminal(w) \/ LoadTask(w) \/ Launch(w) \/ HandlerFails(w)
              \/ HandlerInterrupted(w) \/ Collect(w) \/ DequeueRequeue(w)
              \/ ProcessDeadLetters(w) \/ SlipLease(w)
       PROVE  task' = task
  BY <1>11 DEF Claim, LoadTerminal, LoadTask, Launch, HandlerFails, HandlerInterrupted, Collect,
     DequeueRequeue, ProcessDeadLetters, SlipLease, db
<1>12. ASSUME NEW p \in Procs,
              \/ \E u \in Tasks : DeadLetterLoad(p, u)
              \/ WatchdogStep(p) \/ Crash(p)
       PROVE  task' = task
  BY <1>12 DEF DeadLetterLoad, WatchdogStep, WatchdogRequeue, WatchdogDrain, Crash, db,
     EnforceCancellations, ReapHungTasks, FinalizeOrphaned
<1>13. ASSUME (\E c \in Calls : ApiCall(c)) \/ UNCHANGED vars PROVE task' = task
  BY <1>13 DEF ApiCall, vars, db
<1> HIDE DEF Goal
<1>14. Goal
  BY <1>2, <1>3, <1>4, <1>5, <1>6, <1>7, <1>8, <1>9, <1>10, <1>11, <1>12, <1>13
  DEF Next, WorkerStep, LetterStep, ApiStep
<1> QED BY <1>14 DEF Goal
-----------------------------------------------------------------------------
(***************************************************************************)
(* The parts of the invariant that do not need the stages.                 *)
(***************************************************************************)

\* A view shows its own task's outcome from the moment it is read.
LEMMA OwnOutcomeStep == ASSUME Inv, OwnOutcome, [Next]_vars PROVE OwnOutcome'
<1> SUFFICES ASSUME NEW w \in Workers, wk'[w].pc = "settling"
             PROVE  wk'[w].tasks[wk'[w].job[1]] = OutcomeStatus(wk'[w].out)
  BY DEF OwnOutcome
<1>1. Turn(w)
  BY WorkersTurn
<1>2. CASE wk'[w] = wk[w]
  BY <1>2 DEF OwnOutcome
<1>3. CASE /\ wk'[w].job = wk[w].job /\ wk'[w].out = wk[w].out
           /\ wk'[w].tasks = [task EXCEPT ![wk[w].job[1]] = OutcomeStatus(wk[w].out)]
           /\ wk[w].pc \notin {"idle", "gone"}
  <2>1. wk[w].job[1] \in DOMAIN task
    BY <1>3 DEF Inv, Tables, Coroutines, View, Jobs
  <2> QED BY <1>3, <2>1
<1> QED BY <1>1, <1>2, <1>3 DEF Turn

\* Without lost leases nobody's lease is ever lapsed.
LEMMA LeasesStep == ASSUME Inv, MaxSlips = 0, LeasesKept, [Next]_vars PROVE LeasesKept'
<1>1. ASSUME NEW w \in Workers, NEW j \in Jobs, Claim(w, j) PROVE LeasesKept'
  BY <1>1 DEF Claim, LeasesKept, budget
<1>2. ASSUME NEW w \in Workers, SlipLease(w) PROVE FALSE
  BY <1>2 DEF SlipLease, LeasesKept
<1>3. ASSUME NEW w \in Workers, DequeueRequeue(w) PROVE LeasesKept'
  BY <1>3 DEF DequeueRequeue, Requeue, LeasesKept, budget
<1>4. ASSUME NEW p \in Procs, WatchdogRequeue(p) PROVE LeasesKept'
  BY <1>4 DEF WatchdogRequeue, Requeue, LeasesKept, budget
<1>5. CASE UNCHANGED <<lapsed, slips>>
  BY <1>5 DEF LeasesKept
<1>6. ASSUME NEW w \in Workers,
             \/ LoadTerminal(w) \/ LoadCancelled(w) \/ LoadTask(w) \/ Start(w) \/ Launch(w)
             \/ HandlerSucceeds(w) \/ HandlerRetries(w) \/ HandlerFails(w)
             \/ HandlerInterrupted(w) \/ Collect(w)
             \/ \E order \in RowOrders : Settle(w, order)
             \/ ProcessDeadLetters(w)
      PROVE  UNCHANGED <<lapsed, slips>>
  BY <1>6 DEF LoadTerminal, LoadCancelled, LoadTask, Start, Launch, HandlerSucceeds,
     HandlerRetries, HandlerFails, HandlerInterrupted, Collect, Settle, ProcessDeadLetters,
     queue, budget
<1>7. ASSUME NEW p \in Procs,
             \/ LetterStep(p) \/ Crash(p) \/ WatchdogDrain(p) \/ EnforceCancellations(p)
             \/ ReapHungTasks(p) \/ FinalizeOrphaned(p)
      PROVE  UNCHANGED <<lapsed, slips>>
  BY <1>7 DEF LetterStep, DeadLetterLoad, ServiceCommit, Crash, WatchdogDrain,
     EnforceCancellations, ReapHungTasks, FinalizeOrphaned, queue, budget
<1>8. ASSUME ApiStep \/ (\E c \in Calls : ApiCall(c)) \/ UNCHANGED vars
      PROVE  UNCHANGED <<lapsed, slips>>
  BY <1>8 DEF ApiStep, CancelCommit, RetryCommit, SkipCommit, EnqueueCommit, ApiCall, vars,
     queue, budget
<1> QED
  BY <1>1, <1>2, <1>3, <1>4, <1>5, <1>6, <1>7, <1>8 DEF Next, WorkerStep, WatchdogStep

\* A worker's hands fill by a claim only.
LEMMA HandsFill ==
    ASSUME Inv, [Next]_vars, NEW w \in Workers, NEW j, Holds(w, j)'
    PROVE  Holds(w, j) \/ (j \in Jobs /\ Claim(w, j))
<1>1. Turn(w)
  BY WorkersTurn
<1> QED BY <1>1 DEF Turn, Holds

\* A job in a worker's hands is in no other's, and not in the queue.
LEMMA HeldStep == ASSUME Inv, LeasesKept, Held, [Next]_vars PROVE Held'
<1>0. /\ wk \in [Workers -> Coroutine] /\ jstate \in [Jobs -> Lifecycle!States]
  BY DEF Inv, JobRows, Coroutines
<1>1. ASSUME NEW w \in Workers, NEW j \in Jobs, Holds(w, j)
      PROVE  jstate'[j] \in {"leased", "cancelled", "completed"}
  <2>1. jstate[j] \in {"leased", "cancelled", "completed"} /\ j \notin Expired
    BY <1>1 DEF Held, Expired, LeasesKept
  <2>2. \E Q : Moved(Q)
    BY QueueStep, RetryMoves, SettleMoves, SpawnMoves
  <2> QED BY <2>1, <2>2 DEF Moved
<1>2. ASSUME NEW w \in Workers, NEW j \in Jobs, Claim(w, j)
      PROVE  /\ jstate[j] = "queued" /\ jstate'[j] = "leased"
             /\ \A v \in Workers : v # w => wk'[v] = wk[v]
  BY <1>0, <1>2 DEF Claim
<1>3. ASSUME NEW w \in Workers, NEW j \in Jobs, Holds(w, j)'
      PROVE  jstate'[j] \in {"leased", "cancelled", "completed"}
  BY <1>1, <1>2, <1>3, HandsFill
<1>4. ASSUME NEW v \in Workers, NEW w \in Workers, NEW j \in Jobs, Claim(w, j), Holds(v, j)'
      PROVE  v = w
  <2>1. ~Holds(v, j)
    BY <1>2, <1>4 DEF Held
  <2> QED BY <1>2, <1>4, <2>1 DEF Holds
<1>5. ASSUME NEW v \in Workers, NEW w \in Workers, NEW j \in Jobs, Holds(v, j)', Holds(w, j)'
      PROVE  v = w
  <2>1. (Holds(v, j) \/ Claim(v, j)) /\ (Holds(w, j) \/ Claim(w, j))
    BY <1>5, HandsFill
  <2> QED BY <1>4, <1>5, <2>1 DEF Held
<1> QED BY <1>3, <1>5 DEF Held

\* While workers renew their leases a job is in one worker's hands, and not in
\* the queue, on every graph and whatever dies, is cancelled, retried or skipped:
\* a task that runs twice at once has two jobs.
THEOREM JobsExclusive == ASSUME MaxSlips = 0 PROVE Spec => []Held
<1>1. Init => Held /\ LeasesKept
  BY ClosedType DEF Init, Held, Holds, LeasesKept
<1>2. Inv /\ Held /\ LeasesKept /\ [Next]_vars => Held' /\ LeasesKept'
  BY HeldStep, LeasesStep
<1> QED BY <1>1, <1>2, InvHolds, PTL DEF Spec

\* No step makes a job live but the one that enqueues it.
LEMMA LiveStep ==
    ASSUME Inv, [Next]_vars, NEW Q, Moved(Q), NEW j \in Jobs, Live(j)'
    PROVE  Live(j) \/ \E t \in Q : j = FreshJob(t)
<1>1. CASE jstate'[j] \in {"queued", "leased"}
  BY <1>1 DEF Moved, Live
<1>2. ASSUME NEW w \in Workers, Holds(w, j)' PROVE Live(j)
  <2>1. Holds(w, j) \/ jstate[j] = "queued"
    BY <1>2, HandsFill DEF Claim
  <2> QED BY <2>1 DEF Live
<1> QED BY <1>1, <1>2 DEF Live

\* A task's jobs are in the table once they are live, and stay.
LEMMA LiveIsEnqueued ==
    ASSUME Inv, NEW j \in Jobs, Live(j)
    PROVE  Enqueued(j[1]) /\ j[1] \in Tasks
<1>1. jstate[j] # "absent"
  BY DEF Live, Holds, Inv, Coroutines
<1> QED BY <1>1 DEF Enqueued, Jobs

\* The tasks that have been enqueued.
LEMMA EnqueuedStep ==
    ASSUME Inv, [Next]_vars, NEW Q, Moved(Q), NEW t \in Tasks
    PROVE  Enqueued(t)' <=> Enqueued(t) \/ t \in Q
<1>1. \A n \in 1..MaxJobs : <<t, n>> \in Jobs
  BY DEF Jobs
<1>2. \A j \in Jobs : jstate[j] # "absent" => jstate'[j] # "absent"
  BY JobsStep DEF JobsMove
<1>3. Enqueued(t) => Enqueued(t)'
  BY <1>1, <1>2 DEF Enqueued
<1>4. ASSUME t \in Q PROVE Enqueued(t)'
  <2>1. FreshJob(t) \in Jobs /\ FreshJob(t)[1] = t /\ jstate'[FreshJob(t)] # "absent"
    BY <1>4 DEF Moved
  <2>2. PICK n \in 1..MaxJobs : FreshJob(t) = <<t, n>>
    BY <2>1 DEF Jobs
  <2> QED BY <2>1, <2>2 DEF Enqueued
<1>5. ASSUME Enqueued(t)', t \notin Q PROVE Enqueued(t)
  <2>1. PICK n \in 1..MaxJobs : jstate'[<<t, n>>] # "absent"
    BY <1>5 DEF Enqueued
  <2>2. \A u \in Q : FreshJob(u)[1] = u
    BY DEF Moved
  <2>3. \A u \in Q : <<t, n>> # FreshJob(u)
    BY <1>5, <2>2
  <2>4. jstate[<<t, n>>] # "absent"
    BY <1>1, <2>1, <2>3 DEF Moved
  <2> QED BY <2>4 DEF Enqueued
<1> QED BY <1>3, <1>4, <1>5

\* A session remembers what it wrote to its own task and job.
LEMMA RememberedStep == ASSUME Inv, Remembered, [Next]_vars PROVE Remembered'
<1> SUFFICES ASSUME NEW w \in Workers
             PROVE  /\ \/ wk'[w].pc \in {"started", "running"}
                       \/ /\ wk'[w].pc \in {"finishing", "settling"}
                          /\ wk'[w].out \in {"allowed", "failed"}
                       => wk'[w].seen = "running"
                    /\ wk'[w].pc \in {"finishing", "settling"} /\ wk'[w].out = "success" =>
                           jstate'[wk'[w].job] \in {"completed", "cancelled"}
  BY DEF Remembered
<1>1. Turn(w)
  BY WorkersTurn
<1>2. \E Q : Moved(Q)
  BY QueueStep, RetryMoves, SettleMoves, SpawnMoves
<1>3. wk[w].pc \notin {"idle", "gone"} => wk[w].job \in Jobs
  BY DEF Inv, Coroutines
<1>4. ASSUME HandlerSucceeds(w)
      PROVE  wk[w].pc = "running" /\ jstate'[wk[w].job] \in {"completed", "cancelled"}
  BY <1>3, <1>4 DEF HandlerSucceeds, AckAndEnqueue
<1>5. CASE wk'[w] = wk[w]
  <2>1. wk[w].job \in Jobs /\ jstate[wk[w].job] \in {"completed", "cancelled"} =>
            jstate'[wk[w].job] \in {"completed", "cancelled"}
    BY <1>2 DEF Moved
  <2> QED BY <1>3, <1>5, <2>1 DEF Remembered
<1>6. CASE Collect(w) /\ wk'[w].pc = "settling" /\ wk'[w].out = wk[w].out
           /\ wk'[w].seen = wk[w].seen /\ wk'[w].job = wk[w].job
  <2>1. wk[w].pc = "finishing" /\ jstate' = jstate
    BY <1>6 DEF Collect, queue
  <2> QED BY <1>6, <2>1 DEF Remembered
<1>7. HandlerFails(w) => wk[w].pc \in {"started", "running"}
  BY DEF HandlerFails
<1>8. Launch(w) => wk[w].pc = "started"
  BY DEF Launch
<1> QED BY <1>1, <1>4, <1>5, <1>6, <1>7, <1>8 DEF Turn, Remembered

\* After the spawning call's commit, the API only opens sessions that cancel.
LEMMA ApiTurn ==
    ASSUME Undisturbed, Spawning, [Next]_vars
    PROVE  api' = api \/ api'.kind \in {"closed", "cancel"}
<1>1. ASSUME NEW c \in Calls, ApiCall(c) PROVE api'.kind = "cancel"
  BY <1>1 DEF ApiCall, Undisturbed, Opened
<1>2. ASSUME ApiStep PROVE api' = Closed
  BY <1>2 DEF ApiStep, CancelCommit, RetryCommit, SkipCommit, EnqueueCommit, Spawning
<1>3. ASSUME NEW p \in Procs, Crash(p) PROVE api' \in {Closed, api}
  BY <1>3 DEF Crash
<1>4. ASSUME NEW w \in Workers, WorkerStep(w) \/ SlipLease(w) PROVE api' = api
  BY <1>4 DEF WorkerStep, Claim, LoadTerminal, LoadCancelled, LoadTask, Start, Launch,
     HandlerSucceeds, HandlerRetries, HandlerFails, HandlerInterrupted, Collect, Settle,
     DequeueRequeue, ProcessDeadLetters, SlipLease, client
<1>5. ASSUME NEW p \in Procs, LetterStep(p) \/ WatchdogStep(p) PROVE api' = api
  BY <1>5 DEF LetterStep, DeadLetterLoad, ServiceCommit, WatchdogStep, WatchdogRequeue,
     WatchdogDrain, EnforceCancellations, ReapHungTasks, FinalizeOrphaned, client
<1>6. UNCHANGED vars => api' = api
  BY DEF vars, client
<1> QED BY <1>1, <1>2, <1>3, <1>4, <1>5, <1>6, ClosedType DEF Next

\* Until the spawning call goes on, nothing has been enqueued.
LEMMA SpawningStep == ASSUME Inv, Undisturbed, Spawning, [Next]_vars PROVE Spawning'
<1>1. api' = api \/ api'.kind \in {"closed", "cancel"}
  BY ApiTurn
<1>2. CASE api'.kind \in {"closed", "cancel"}
  BY <1>2 DEF Spawning
<1>3. CASE api' = api /\ api.kind = "enqueue"
  <2>1. ASSUME NEW w \in Workers, HandlerRetries(w) \/ \E order \in RowOrders : Settle(w, order)
        PROVE  FALSE
    <3>1. wk[w].pc \notin {"idle", "gone"}
      BY <2>1 DEF HandlerRetries, Settle
    <3> QED BY <1>3, <3>1, InHand DEF Spawning
  <2>2. ASSUME NEW order \in RowOrders, EnqueueCommit(order) PROVE FALSE
    BY <1>3, <2>2, ClosedType DEF EnqueueCommit
  <2>3. Moved({})
    BY <2>1, <2>2, QueueStep
  <2>4. \A t \in Tasks : Enqueued(t)' <=> Enqueued(t)
    BY <2>3, EnqueuedStep
  <2> QED BY <1>3, <2>4 DEF Spawning
<1>4. CASE api' = api /\ api.kind # "enqueue"
  BY <1>4 DEF Spawning
<1> QED BY <1>1, <1>2, <1>3, <1>4

-----------------------------------------------------------------------------
(***************************************************************************)
(* The parts that speak of stages.  A step either stays in the last stage  *)
(* reached, where a retry hands the task's place over to its next job, or  *)
(* releases the next one.                                                  *)
(***************************************************************************)

\* A step enqueues one set of tasks.
LEMMA MovedOnce == ASSUME NEW Q, NEW R, Moved(Q), Moved(R) PROVE Q = R
<1>1. ASSUME NEW A, NEW B, Moved(A), Moved(B) PROVE A \subseteq B
  <2> SUFFICES ASSUME NEW t \in A PROVE t \in B
    OBVIOUS
  <2>1. /\ FreshJob(t) \in Jobs /\ FreshJob(t)[1] = t
        /\ jstate[FreshJob(t)] = "absent" /\ jstate'[FreshJob(t)] # "absent"
    BY <1>1 DEF Moved
  <2>2. PICK u \in B : FreshJob(t) = FreshJob(u)
    BY <1>1, <2>1 DEF Moved
  <2>3. FreshJob(u)[1] = u
    BY <1>1 DEF Moved
  <2> QED BY <2>1, <2>2, <2>3
<1> QED BY <1>1

\* Where a task's status changes, the task ends, has a job, or is enqueued.
LEMMA TaskMoves ==
    ASSUME Inv, OwnOutcome, Spawning, [Next]_vars, NEW Q, Moved(Q),
           NEW t \in Tasks, task'[t] # task[t]
    PROVE  /\ task'[t] # "pending"
           /\ \/ task'[t] \in {"failed", "cancelled"}
              \/ \E j \in Jobs : Live(j) /\ j[1] = t
              \/ t \in Q
<1>1. ASSUME NEW w \in Workers, wk[w].pc \notin {"idle", "gone"}, wk[w].job[1] = t
      PROVE  \E j \in Jobs : Live(j) /\ j[1] = t
  BY <1>1, InHand
<1>2. ASSUME NEW w \in Workers, NEW order \in RowOrders, Settle(w, order),
             t \in Released(w, order)
      PROVE  t \in Q
  BY <1>2, SettleMoves, MovedOnce
<1>3. ASSUME NEW order \in RowOrders, EnqueueCommit(order), t \in Spawned(order)
      PROVE  t \in Q
  BY <1>3, SpawnMoves, MovedOnce
<1> QED BY <1>1, <1>2, <1>3, TaskWrites

\* What OneLive to ByJob say together.
Stages(stage) == OneLive /\ Front(stage) /\ Ahead(stage) /\ Behind(stage) /\ ByJob

\* A step within the stage: what it enqueues takes the place of a live job.
LEMMA StageStays ==
    ASSUME NEW stage, Staged(stage), Inv, Order(stage), [Next]_vars, NEW Q, Moved(Q),
           \A q \in Q : \E j \in Jobs : Live(j) /\ ~Live(j)' /\ j[1] = q
    PROVE  Stages(stage)'
<1>0. stage \in [Tasks -> Nat]
  BY DEF Staged
<1>1. \A t \in Tasks : Enqueued(t)' <=> Enqueued(t)
  BY EnqueuedStep, LiveIsEnqueued
<1>2. ASSUME NEW j \in Jobs, Live(j)'
      PROVE  \E i \in Jobs : Live(i) /\ i[1] = j[1] /\ (i = j \/ (~Live(i)' /\ j = FreshJob(j[1])))
  <2>1. Live(j) \/ \E t \in Q : j = FreshJob(t)
    BY <1>2, LiveStep
  <2>2. ASSUME NEW t \in Q, j = FreshJob(t)
        PROVE  j[1] = t
    BY <2>2 DEF Moved
  <2> QED BY <2>1, <2>2
<1>3. OneLive'
  <2> SUFFICES ASSUME NEW i \in Jobs, NEW j \in Jobs, Live(i)', Live(j)', i[1] = j[1]
               PROVE  i = j
    BY DEF OneLive
  <2>1. PICK a \in Jobs : Live(a) /\ a[1] = i[1] /\ (a = i \/ (~Live(a)' /\ i = FreshJob(i[1])))
    BY <1>2
  <2>2. PICK b \in Jobs : Live(b) /\ b[1] = j[1] /\ (b = j \/ (~Live(b)' /\ j = FreshJob(j[1])))
    BY <1>2
  <2>3. a = b
    BY <2>1, <2>2 DEF Order, OneLive
  <2> QED BY <2>1, <2>2, <2>3
<1>4. Front(stage)'
  BY <1>1, <1>2 DEF Order, Front
<1>5. \A t \in Tasks : task'[t] = "pending" => task[t] = "pending"
  BY TaskMoves DEF Order
<1>6. Ahead(stage)'
  BY <1>1, <1>5 DEF Order, Ahead
<1>7. ASSUME NEW t \in Tasks, task'[t] # task[t], task'[t] \notin {"failed", "cancelled"}
      PROVE  \E j \in Jobs : Live(j) /\ j[1] = t
  BY <1>7, TaskMoves DEF Order
<1>8. Behind(stage)'
  <2> SUFFICES ASSUME NEW t \in Tasks, NEW u \in Tasks, stage[t] < stage[u], Enqueued(u)
               PROVE  task'[t] \notin ACTIVE_STATES
    BY <1>1 DEF Behind
  <2>1. task[t] \notin ACTIVE_STATES
    BY DEF Order, Behind
  <2>2. CASE task'[t] \notin {"failed", "cancelled"} /\ task'[t] # task[t]
    <3>1. PICK j \in Jobs : Live(j) /\ j[1] = t
      BY <1>7, <2>2
    <3>2. stage[u] <= stage[t]
      BY <3>1 DEF Order, Front
    <3> QED BY <1>0, <3>2
  <2> QED BY <2>1, <2>2 DEF ACTIVE_STATES
<1>9. ByJob'
  BY <1>1, <1>7, LiveIsEnqueued DEF Order, ByJob
<1> QED BY <1>3, <1>4, <1>6, <1>8, <1>9 DEF Stages

\* A step that releases stage k: whatever is live then is in it, the stages
\* before it are over, and none of its tasks is left pending.
LEMMA StageReleased ==
    ASSUME NEW stage, Staged(stage), Inv, Order(stage), [Next]_vars, NEW Q, Moved(Q),
           NEW k \in Nat,
           \A q \in Q : stage[q] = k,
           \A t \in Tasks : Enqueued(t) => stage[t] < k,
           \A j \in Jobs : Live(j)' => \E q \in Q : j = FreshJob(q),
           \A t \in Tasks : stage[t] < k => task'[t] \notin ACTIVE_STATES,
           \A t \in Tasks : stage[t] = k => task'[t] # "pending"
    PROVE  Stages(stage)'
<1>0. stage \in [Tasks -> Nat]
  BY DEF Staged
<1>1. \A t \in Tasks : Enqueued(t)' <=> Enqueued(t) \/ t \in Q
  BY EnqueuedStep
<1>2. \A j \in Jobs : Live(j)' => j[1] \in Q /\ j = FreshJob(j[1])
  BY DEF Moved
<1>3. Q \subseteq Tasks /\ \A t \in Tasks : Enqueued(t)' => stage[t] <= k
  BY <1>0, <1>1 DEF Moved
<1>4. OneLive'
  BY <1>2 DEF OneLive
<1>5. Front(stage)'
  BY <1>2, <1>3 DEF Front
<1>6. Ahead(stage)'
  <2>1. \A t \in Tasks : task'[t] = "pending" => k < stage[t]
    BY <1>0 DEF ACTIVE_STATES
  <2> QED BY <1>0, <1>3, <2>1 DEF Ahead
<1>7. Behind(stage)'
  BY <1>0, <1>3 DEF Behind
<1>8. ByJob'
  <2> SUFFICES ASSUME NEW t \in Tasks, task'[t] \in {"queued", "running", "success", "skipped"}
               PROVE  Enqueued(t)'
    BY DEF ByJob
  <2>1. CASE task'[t] = task[t]
    BY <1>1, <2>1 DEF Order, ByJob
  <2>2. CASE task'[t] # task[t]
    BY <1>1, <2>2, TaskMoves, LiveIsEnqueued DEF Order
  <2> QED BY <2>1, <2>2
<1> QED BY <1>4, <1>5, <1>6, <1>7, <1>8 DEF Stages

\* A retry stays in the stage.
LEMMA StageOfRetry ==
    ASSUME NEW stage, Staged(stage), Inv, Order(stage), [Next]_vars,
           NEW w \in Workers, HandlerRetries(w)
    PROVE  Stages(stage)'
<1>1. wk[w].pc \notin {"idle", "gone"} /\ wk' = [wk EXCEPT ![w] = Idle]
  BY DEF HandlerRetries
<1>2. PICK own \in Jobs : own = wk[w].job /\ Live(own) /\ Holds(w, own)
  BY <1>1, InHand
<1>3. jstate'[own] \in {"completed", "cancelled"}
  <2>1. /\ jstate' = AckAndEnqueue({own}, {own[1]}) /\ RoomFor({own[1]}) /\ JobRows
        /\ {own} \subseteq Jobs /\ {own[1]} \subseteq Tasks
    BY <1>1, <1>2, InHand DEF HandlerRetries, Inv
  <2> QED BY <2>1, AckAndEnqueueJobs
<1>4. ASSUME NEW v \in Workers, Holds(v, own)' PROVE FALSE
  <2>1. Holds(v, own) \/ Claim(v, own)
    BY <1>4, HandsFill
  <2>2. CASE Claim(v, own)
    BY <1>2, <1>3, <2>2 DEF Claim, Inv, JobRows
  <2>3. CASE Holds(v, own)
    <3>1. v = w
      BY <1>2, <2>3 DEF Order, Held
    <3>2. wk'[v].pc = "idle"
      BY <1>1, <3>1, ClosedType DEF Inv, Coroutines
    <3> QED BY <1>4, <3>2 DEF Holds
  <2> QED BY <2>1, <2>2, <2>3
<1>5. ~Live(own)'
  BY <1>3, <1>4 DEF Live
<1>6. Moved({own[1]})
  BY <1>2, RetryMoves
<1> QED BY <1>2, <1>5, <1>6, StageStays

\* The spawning call releases the tasks that depend on nothing ...
LEMMA SpawnedRoots ==
    ASSUME Inv, Spawning, NEW order \in RowOrders, EnqueueCommit(order),
           NEW q \in Spawned(order)
    PROVE  q \in Tasks /\ deps[q] = {}
<1> DEFINE new == EnqueueReady(api.tasks, api.cancel, order)
<1>1. /\ api.tasks \in View /\ order \in Seq(Tasks) /\ new = Pass(api.tasks, order)
      /\ Spawned(order) = NewlyQueued(api.tasks, new)
      /\ \A t \in Tasks : api.tasks[t] = "pending"
  BY EngineAssumption DEF Spawning, EnqueueCommit, EnqueueReady, Inv, Sessions, Spawned
<1> HIDE DEF new
<1>2. \A d \in deps[q] : api.tasks[d] \in SATISFIED_STATES
  BY <1>1, PassReleasesReady
<1>3. q \in Tasks /\ deps[q] \subseteq Tasks
  BY <1>1, EngineAssumption DEF NewlyQueued
<1> QED BY <1>1, <1>2, <1>3 DEF SATISFIED_STATES

\* ... which are those of stage 0.
LEMMA StageZero ==
    ASSUME NEW stage, Staged(stage), NEW t \in Tasks PROVE stage[t] = 0 <=> deps[t] = {}
<1>1. stage \in [Tasks -> Nat] /\ \A d \in deps[t] : d \in Tasks /\ stage[d] < stage[t]
  BY EngineAssumption DEF Staged
<1>2. stage[t] > 0 => deps[t] # {}
  BY DEF Staged
<1> QED BY <1>1, <1>2

\* So the spawning call releases stage 0.
LEMMA StageOfSpawn ==
    ASSUME NEW stage, Staged(stage), AllRows, Inv, Order(stage), [Next]_vars,
           NEW order \in RowOrders, EnqueueCommit(order)
    PROVE  Stages(stage)'
<1> DEFINE Q == Spawned(order)
           mine == api.tasks
           new == EnqueueReady(api.tasks, api.cancel, order)
<1>0. stage \in [Tasks -> Nat]
  BY DEF Staged
<1>1. /\ mine \in View /\ order \in Seq(Tasks) /\ task' = Written(task, mine, new)
      /\ Q = NewlyQueued(mine, new) /\ new = Pass(mine, order)
      /\ \A t \in Tasks : mine[t] = "pending" /\ ~Enqueued(t)
  BY EngineAssumption DEF Order, Spawning, EnqueueCommit, EnqueueReady, Inv, Sessions, Spawned
<1>2. Moved(Q)
  BY SpawnMoves
<1> HIDE DEF Q, mine, new
<1>3. \A t \in Tasks : stage[t] = 0 <=> deps[t] = {}
  BY StageZero
<1>4. \A q \in Q : stage[q] = 0
  BY <1>3, SpawnedRoots DEF Order, Q
<1>5. \A j \in Jobs : Live(j)' => \E q \in Q : j = FreshJob(q)
  BY <1>1, <1>2, LiveStep, LiveIsEnqueued
<1>6. ASSUME NEW t \in Tasks, stage[t] = 0 PROVE task'[t] # "pending"
  <2>1. new[t] # "pending"
    <3>1. \E n \in 1..Len(order) : order[n] = t
      BY DEF AllRows
    <3>2. \A d \in deps[t] : mine[d] \notin ACTIVE_STATES
      BY <1>3, <1>6
    <3> QED BY <1>1, <3>1, <3>2, PassDecides
  <2> QED BY <1>1, <2>1 DEF Written
<1>7. \A t \in Tasks : ~(stage[t] < 0)
  BY <1>0
<1> QED BY <1>1, <1>2, <1>4, <1>5, <1>6, <1>7, StageReleased

\* What a session is about to release: the stage after its own, of which its
\* task was all.
LEMMA ReleasedStage ==
    ASSUME NEW stage, Staged(stage), Inv, Order(stage),
           NEW w \in Workers, NEW order \in RowOrders, wk[w].pc = "settling",
           Released(w, order) # {}
    PROVE  /\ \A q \in Released(w, order) : stage[q] = stage[wk[w].job[1]] + 1
           /\ \A t \in Tasks : stage[t] = stage[wk[w].job[1]] => t = wk[w].job[1]
<1> DEFINE own == wk[w].job[1]
<1>0. stage \in [Tasks -> Nat] /\ own \in Tasks
  BY InHand DEF Staged
<1>1. ASSUME NEW q \in Released(w, order)
      PROVE  /\ stage[q] = stage[own] + 1
             /\ \E d \in deps[q] : stage[d] = stage[own]
  <2>1. /\ q \in Tasks /\ deps[q] \subseteq Tasks /\ wk[w].tasks[q] = "pending"
        /\ \A d \in deps[q] : wk[w].tasks[d] \in SATISFIED_STATES
    BY <1>1, SettledView, EngineAssumption
  <2>2. stage[own] < stage[q]
    BY <2>1 DEF Order, Views
  <2>3. PICK d \in deps[q] : stage[d] = stage[q] - 1
    BY <1>0, <2>1, <2>2 DEF Staged
  <2>4. stage[d] <= stage[own]
    BY <2>1, <2>3 DEF Order, Views
  <2> QED BY <1>0, <2>1, <2>2, <2>3, <2>4
<1>2. PICK q \in Released(w, order) : TRUE
  OBVIOUS
<1>3. PICK d \in deps[q] : stage[d] = stage[own] /\ d \in Tasks /\ q \in Tasks
  BY <1>1, <1>2, SettledView, EngineAssumption
<1>4. \A t \in Tasks : stage[t] = stage[own] => t = d
  BY <1>3 DEF Staged
<1> QED BY <1>0, <1>1, <1>4

\* The end of a handler's transaction: the stage stays, or the next is released.
LEMMA StageOfSettle ==
    ASSUME NEW stage, Staged(stage), AllRows, Inv, Order(stage), [Next]_vars,
           NEW w \in Workers, NEW order \in RowOrders, Settle(w, order)
    PROVE  Stages(stage)'
<1> wk[w].pc = "settling"
  BY DEF Settle
<1> PICK job \in Jobs : job = wk[w].job
  BY InHand
<1> DEFINE Q == Released(w, order)
           mine == wk[w].tasks
           new == Settled(w, order)
           own == job[1]
           k == stage[own] + 1
<1>0. /\ stage \in [Tasks -> Nat] /\ Moved(Q) /\ order \in Seq(Tasks)
      /\ own \in Tasks /\ Live(job) /\ Holds(w, job) /\ Enqueued(own)
  BY InHand, SettleMoves, EngineAssumption DEF Staged
<1>1. CASE Q = {}
  BY <1>0, <1>1, StageStays
<1>2. CASE Q # {}
  <2>1. /\ \A q \in Q : stage[q] = k
        /\ \A t \in Tasks : stage[t] = stage[own] => t = own
    BY <1>0, <1>2, ReleasedStage
  <2>2. wk[w].out \in {"success", "allowed"} /\ mine \in View
    BY <1>0, <1>2, SettledView
  <2>3. new = Pass(mine, order)
    BY <2>2 DEF Settled, EnqueueReady
  <2>4. mine[own] = OutcomeStatus(wk[w].out) /\ OutcomeStatus(wk[w].out) = "success"
    BY <1>0, <2>2 DEF Order, OwnOutcome, OutcomeStatus
  <2>5. \A t \in Tasks : Enqueued(t) => stage[t] <= stage[own]
    BY <1>0 DEF Order, Front
  <2>6. wk[w].out = "allowed" => wk[w].seen = "running"
    BY <1>0 DEF Order, Remembered
  <2>7. wk[w].out = "success" => jstate[job] \in {"completed", "cancelled"}
    BY <1>0 DEF Order, Remembered
  <2>8. task'[own] \notin ACTIVE_STATES
    <3>1. CASE wk[w].out = "success"
      BY <1>0, <3>1, SettleWrites DEF Order, Returned
    <3>2. CASE wk[w].out = "allowed"
      <4>1. task'[own] = "success"
        BY <1>0, <2>4, <2>6, <3>2, SettleWrites DEF Order
      <4> QED BY <4>1 DEF ACTIVE_STATES
    <3> QED BY <2>2, <3>1, <3>2
  <2>9. ASSUME NEW t \in Tasks, stage[t] < k PROVE task'[t] \notin ACTIVE_STATES
    <3>1. CASE stage[t] = stage[own]
      BY <2>1, <2>8, <3>1
    <3>2. CASE stage[t] < stage[own]
      <4>1. task[t] \notin ACTIVE_STATES
        BY <1>0, <3>2 DEF Order, Behind
      <4>2. t # own /\ mine[t] # "pending"
        BY <1>0, <3>2 DEF Order, Views
      <4>3. new[t] = mine[t]
        BY <1>0, <4>2, SettledView
      <4> QED BY <4>1, <4>2, <4>3, SettleWrites DEF Order
    <3> QED BY <1>0, <2>9, <3>1, <3>2
  <2>10. ASSUME NEW t \in Tasks, stage[t] = k PROVE task'[t] # "pending"
    <3>1. CASE task[t] = "pending"
      <4>1. mine[t] = "pending"
        BY <1>0, <3>1 DEF Order, Views
      <4>2. ASSUME NEW d \in deps[t] PROVE mine[d] \notin ACTIVE_STATES
        <5>1. d \in Tasks /\ stage[d] < k
          BY <2>10, EngineAssumption DEF Staged
        <5>2. CASE stage[d] < stage[own]
          BY <1>0, <5>1, <5>2 DEF Order, Views
        <5>3. CASE stage[d] = stage[own]
          BY <2>1, <2>4, <5>1, <5>3 DEF ACTIVE_STATES
        <5> QED BY <1>0, <5>1, <5>2, <5>3
      <4>3. \E n \in 1..Len(order) : order[n] = t
        BY DEF AllRows
      <4>4. new[t] # "pending"
        BY <1>0, <2>2, <2>3, <4>2, <4>3, PassDecides
      <4>5. t # own
        BY <1>0, <2>10
      <4> QED BY <4>1, <4>4, <4>5, SettleWrites DEF Order
    <3>2. CASE task[t] # "pending"
      BY <1>0, <3>2, TaskMoves DEF Order
    <3> QED BY <3>1, <3>2
  <2>11. ASSUME NEW v \in Workers, Holds(v, job)' PROVE FALSE
    <3>1. Holds(v, job) \/ Claim(v, job)
      BY <2>11, HandsFill
    <3>2. wk' = [wk EXCEPT ![w] = Idle]
      BY DEF Settle
    <3>3. CASE Claim(v, job)
      BY <1>0, <3>3 DEF Claim, Order, Held
    <3>4. CASE Holds(v, job)
      <4>1. v = w
        BY <1>0, <3>4 DEF Order, Held
      <4>2. wk'[v].pc = "idle"
        BY <3>2, <4>1, ClosedType DEF Inv, Coroutines
      <4> QED BY <2>11, <4>2 DEF Holds
    <3> QED BY <3>1, <3>3, <3>4
  <2>12. jstate'[job] \in {"completed", "cancelled"}
    <3>1. CASE wk[w].out = "success"
      BY <1>0, <2>7, <3>1 DEF Moved
    <3>2. CASE wk[w].out = "allowed"
      <4>1. /\ jstate' = AckAndEnqueue({job}, Q) /\ RoomFor(Q) /\ JobRows
            /\ {job} \subseteq Jobs /\ Q \subseteq Tasks
        BY <1>0, <3>2 DEF Settle, Released, Settled, Inv, Moved
      <4> DEFINE A == {job}
      <4>2. job \in A /\ A \subseteq Jobs /\ jstate' = AckAndEnqueue(A, Q)
        BY <4>1
      <4> HIDE DEF A, Q
      <4> QED BY <4>1, <4>2, AckAndEnqueueJobs
    <3> QED BY <2>2, <3>1, <3>2
  <2>13. ~Live(job)'
    BY <2>11, <2>12 DEF Live
  <2>14. ASSUME NEW j \in Jobs, Live(j)' PROVE \E q \in Q : j = FreshJob(q)
    <3>1. CASE Live(j)
      <4>1. j[1] \in Tasks /\ Enqueued(j[1])
        BY <3>1, LiveIsEnqueued
      <4>2. stage[j[1]] = stage[own]
        BY <1>0, <2>5, <3>1, <4>1 DEF Order, Front
      <4>3. j = job
        BY <1>0, <2>1, <3>1, <4>1, <4>2 DEF Order, OneLive
      <4> QED BY <2>13, <2>14, <4>3
    <3> QED BY <1>0, <2>14, <3>1, LiveStep
  <2>15. k \in Nat /\ \A t \in Tasks : Enqueued(t) => stage[t] < k
    BY <1>0, <2>5
  <2> HIDE DEF Q, k
  <2> QED BY <1>0, <2>1, <2>9, <2>10, <2>14, <2>15, StageReleased
<1> QED BY <1>1, <1>2

\* Every step keeps what the stages say.
LEMMA StagesStep ==
    ASSUME NEW stage, Staged(stage), AllRows, Inv, Order(stage), [Next]_vars
    PROVE  Stages(stage)'
<1>1. ASSUME Moved({}) PROVE Stages(stage)'
  BY <1>1, StageStays
<1> QED BY <1>1, QueueStep, StageOfRetry, StageOfSettle, StageOfSpawn

-----------------------------------------------------------------------------
(***************************************************************************)
(* What the sessions see, and the theorem.                                 *)
(***************************************************************************)

\* A view is read from tables in order, and pending tasks only get fewer.
LEMMA ViewsStep ==
    ASSUME NEW stage, Staged(stage), Inv, Order(stage), [Next]_vars PROVE Views(stage)'
<1>0. stage \in [Tasks -> Nat] /\ task \in View
  BY DEF Staged, Inv, Tables
<1>1. \A t \in Tasks : task'[t] = "pending" => task[t] = "pending"
  <2>1. \E Q : Moved(Q)
    BY QueueStep, RetryMoves, SettleMoves, SpawnMoves
  <2> QED BY <2>1, TaskMoves DEF Order
<1> SUFFICES ASSUME NEW w \in Workers, wk'[w].pc = "settling", NEW t \in Tasks
             PROVE  /\ wk'[w].tasks[t] = "pending" => stage[wk'[w].job[1]] < stage[t]
                    /\ stage[t] < stage[wk'[w].job[1]] => wk'[w].tasks[t] \notin ACTIVE_STATES
                    /\ wk'[w].tasks[t] \in SATISFIED_STATES => stage[t] <= stage[wk'[w].job[1]]
                    /\ task'[t] = "pending" => wk'[w].tasks[t] = "pending"
  BY DEF Views
<1>2. CASE wk'[w] = wk[w]
  BY <1>1, <1>2 DEF Order, Views
<1>3. CASE Collect(w) /\ wk'[w].job = wk[w].job /\ wk[w].pc \notin {"idle", "gone"}
           /\ wk'[w].tasks = [task EXCEPT ![wk[w].job[1]] = OutcomeStatus(wk[w].out)]
  <2> DEFINE own == wk[w].job[1]
             ts == wk'[w].tasks
             outcome == OutcomeStatus(wk[w].out)
  <2>1. wk[w].job \in Jobs /\ own \in Tasks /\ Live(wk[w].job) /\ Enqueued(own)
    BY <1>3, InHand
  <2>2. outcome \notin ACTIVE_STATES
    <3>1. wk[w].out \in Outcome
      BY <1>3 DEF Collect, Inv, Coroutines
    <3> QED BY <3>1 DEF Outcome, OutcomeStatus, ACTIVE_STATES
  <2>3. ts[t] = IF t = own THEN outcome ELSE task[t]
    BY <1>0, <1>3, <2>1 DEF View
  <2>4. task[t] = "pending" => stage[own] < stage[t]
    BY <2>1 DEF Order, Ahead
  <2>5. stage[t] < stage[own] => task[t] \notin ACTIVE_STATES
    BY <2>1 DEF Order, Behind
  <2>6. task[t] \in SATISFIED_STATES => stage[t] <= stage[own]
    BY <2>1 DEF Order, ByJob, Front, SATISFIED_STATES
  <2>7. wk'[w].job[1] = own
    BY <1>3
  <2> HIDE DEF own, ts, outcome
  <2>8. /\ ts[t] = "pending" => stage[own] < stage[t]
        /\ stage[t] < stage[own] => ts[t] \notin ACTIVE_STATES
        /\ ts[t] \in SATISFIED_STATES => stage[t] <= stage[own]
        /\ task'[t] = "pending" => ts[t] = "pending"
    BY <1>0, <1>1, <2>1, <2>2, <2>3, <2>4, <2>5, <2>6 DEF ACTIVE_STATES
  <2> QED BY <2>7, <2>8 DEF ts
<1>4. Turn(w)
  BY WorkersTurn
<1> QED BY <1>2, <1>3, <1>4 DEF Turn

\* Nobody makes a task active again while the worker that ran it goes on.
LEMMA ReturnedStep ==
    ASSUME NEW stage, Staged(stage), Inv, Order(stage), [Next]_vars PROVE Returned'
<1> SUFFICES ASSUME NEW w \in Workers, wk'[w].pc \in {"finishing", "settling"},
                    wk'[w].out = "success"
             PROVE  task'[wk'[w].job[1]] \notin ACTIVE_STATES
  BY DEF Returned
<1>0. stage \in [Tasks -> Nat] /\ task \in View
  BY DEF Staged, Inv, Tables
<1>1. CASE wk'[w] = wk[w]
  <2>1. PICK job \in Jobs : job = wk[w].job /\ job[1] \in Tasks /\ Holds(w, job)
                            /\ Live(job) /\ Enqueued(job[1])
    BY <1>1, InHand
  <2>2. task[job[1]] \notin ACTIVE_STATES
    BY <1>1, <2>1 DEF Order, Returned
  <2>3. CASE task'[job[1]] # task[job[1]]
    <3> DEFINE t == job[1]
    <3>1. ASSUME NEW v \in Workers, wk[v].pc \notin {"idle", "gone"}, wk[v].job[1] = t
          PROVE  v = w
      <4>1. wk[v].job \in Jobs /\ Live(wk[v].job) /\ Holds(v, wk[v].job)
        BY <3>1, InHand
      <4>2. wk[v].job = job
        BY <2>1, <3>1, <4>1 DEF Order, OneLive
      <4> QED BY <2>1, <4>1, <4>2 DEF Order, Held
    <3>2. ~Start(w) /\ ~HandlerRetries(w)
      BY <1>1 DEF Start, HandlerRetries
    <3>3. ASSUME NEW v \in Workers, NEW order \in RowOrders, Settle(v, order),
                 t \in Released(v, order)
          PROVE  FALSE
      <4>1. wk[v].pc = "settling"
        BY <3>3 DEF Settle
      <4>2. stage[wk[v].job[1]] < stage[t]
        BY <3>3, <4>1, SettledView DEF Order, Views
      <4>3. stage[t] <= stage[wk[v].job[1]] /\ wk[v].job[1] \in Tasks
        BY <2>1, <4>1, InHand DEF Order, Front
      <4> QED BY <1>0, <2>1, <4>2, <4>3
    <3>4. ASSUME NEW order \in RowOrders, EnqueueCommit(order) PROVE FALSE
      BY <2>1, <3>4 DEF EnqueueCommit, Order, Spawning
    <3>5. \/ task'[t] \in {"failed", "cancelled"}
          \/ \E v \in Workers :
                /\ wk[v].pc \notin {"idle", "gone"} /\ wk[v].job[1] = t
                /\ Start(v) \/ HandlerRetries(v) \/ task'[t] = "success"
      BY <2>1, <2>3, <3>3, <3>4, TaskWrites DEF Order
    <3>6. task'[t] \in {"failed", "cancelled", "success"}
      BY <3>1, <3>2, <3>5
    <3> QED BY <1>1, <2>1, <3>6 DEF ACTIVE_STATES
  <2> QED BY <1>1, <2>1, <2>2, <2>3
<1>2. CASE HandlerSucceeds(w) /\ wk'[w].job = wk[w].job
  <2>1. wk[w].pc = "running" /\ task' = [task EXCEPT ![wk[w].job[1]] = "success"]
    BY <1>2 DEF HandlerSucceeds
  <2>2. task'[wk[w].job[1]] = "success"
    BY <1>0, <2>1, InHand DEF View
  <2> QED BY <1>2, <2>2 DEF ACTIVE_STATES
<1>3. CASE Collect(w) /\ wk'[w].job = wk[w].job /\ wk'[w].out = wk[w].out
  <2>1. wk[w].pc = "finishing" /\ task' = task
    BY <1>3 DEF Collect, db
  <2> QED BY <1>3, <2>1 DEF Order, Returned
<1>4. Turn(w)
  BY WorkersTurn
<1> QED BY <1>1, <1>2, <1>3, <1>4 DEF Turn

\* The invariant holds at first ...
LEMMA OrderInit ==
    ASSUME NEW stage, Staged(stage), Init PROVE Order(stage)
<1>1. /\ \A w \in Workers : wk[w].pc = "idle"
      /\ \A j \in Jobs : jstate[j] = "absent"
      /\ \A t \in Tasks : task[t] = "pending"
      /\ api.kind = "enqueue" /\ ~api.cancel /\ api.tasks = task
      /\ lapsed = {} /\ slips = 0
  BY ClosedType DEF Init, Opened
<1>2. \A t \in Tasks : ~Enqueued(t)
  BY <1>1 DEF Enqueued, Jobs
<1>3. \A j \in Jobs : ~Live(j) /\ \A w \in Workers : ~Holds(w, j)
  BY <1>1 DEF Live, Holds
<1> QED BY <1>1, <1>2, <1>3 DEF Order, Held, OneLive, Front, Ahead, Behind, ByJob, Views,
     OwnOutcome, Remembered, Returned, Spawning, LeasesKept

\* ... and every step keeps it.
LEMMA OrderStep ==
    ASSUME NEW stage, Staged(stage), AllRows, Undisturbed, Inv, Order(stage), [Next]_vars
    PROVE  Order(stage)'
<1>1. /\ Held /\ OwnOutcome /\ Remembered /\ Spawning /\ LeasesKept
  BY DEF Order
<1>2. Held' /\ OwnOutcome' /\ Remembered' /\ Spawning' /\ LeasesKept'
  BY <1>1, HeldStep, OwnOutcomeStep, RememberedStep, SpawningStep, LeasesStep DEF Undisturbed
<1>3. Stages(stage)' /\ Views(stage)' /\ Returned'
  BY StagesStep, ViewsStep, ReturnedStep
<1> QED BY <1>2, <1>3 DEF Order, Stages

\* Where tasks run in stages and nobody interferes, the jobs follow the stages,
\* whichever processes die and however often tasks are retried.
THEOREM OrderHolds ==
    ASSUME NEW stage, Staged(stage), AllRows, Undisturbed
    PROVE  Spec => []Order(stage)
<1>1. Init => Order(stage)
  BY OrderInit
<1>2. Inv /\ Order(stage) /\ [Next]_vars => Order(stage)'
  BY OrderStep
<1> QED BY <1>1, <1>2, InvHolds, PTL DEF Spec

\* NoDuplicateExecution, for graphs that run in stages: two workers that execute
\* hold live jobs; were they jobs of one task they would be one job, and a job
\* is in one worker's hands.
THEOREM StagesNoDuplicates ==
    ASSUME NEW stage, Staged(stage), AllRows, Undisturbed
    PROVE  Spec => []NoDuplicateExecution
<1>1. Inv /\ Order(stage) => NoDuplicateExecution
  <2> SUFFICES ASSUME Inv, Order(stage), NEW v \in Workers, NEW w \in Workers,
                      wk[v].pc \in Executing, wk[w].pc \in Executing,
                      wk[v].job[1] = wk[w].job[1]
               PROVE  v = w
    BY DEF NoDuplicateExecution
  <2>1. /\ wk[v].job \in Jobs /\ Live(wk[v].job) /\ Holds(v, wk[v].job)
        /\ wk[w].job \in Jobs /\ Live(wk[w].job) /\ Holds(w, wk[w].job)
    BY InHand DEF Executing
  <2>2. wk[v].job = wk[w].job
    BY <2>1 DEF Order, OneLive
  <2> QED BY <2>1, <2>2 DEF Order, Held
<1> QED BY <1>1, InvHolds, OrderHolds, PTL

-----------------------------------------------------------------------------
(***************************************************************************)
(* DependenciesRespected.  One crash, one cancellation or one lost lease   *)
(* is enough to break it, even for two tasks in sequence: a dead letter or *)
(* a late session fails a task whose success has been built on.  Without   *)
(* them the watchdogs find nothing to do.                                  *)
(***************************************************************************)

\* No lease is lost, no process dies, and nobody calls the API.
Unharmed == MaxSlips = 0 /\ (MaxCrashes = 0 \/ Mortal = {}) /\ Calls = {}

\* The API and the services have nothing to write but the first tasks and the
\* execution's status.
Quiescent ==
    /\ ~cancel /\ crashes = 0
    /\ api.kind \in {"closed", "enqueue"}
    /\ \A p \in Procs : /\ buffer[p] = {} /\ letters[p] = {}
                        /\ svc[p].kind \in {"closed", "finalize"}

\* No handler is cancelled.
Uninterrupted ==
    \A w \in Workers : /\ wk[w].pc \notin {"interrupted", "gone"}
                       /\ wk[w].pc \in {"finishing", "settling"} => wk[w].out # "cancelled"

\* A leased job is in hand, and so is a job of every running task.
InHands ==
    /\ \A j \in Jobs : jstate[j] = "leased" => \E w \in Workers : Holds(w, j)
    /\ \A t \in Tasks : task[t] = "running" =>
           \E w \in Workers, n \in 1..MaxJobs : Holds(w, <<t, n>>)

Calm == Quiescent /\ Uninterrupted /\ InHands

\* The actions that never happen then.
LEMMA NoHarm ==
    ASSUME Unharmed, Calm, LeasesKept
    PROVE  /\ Expired = {}
           /\ \A w \in Workers : ~LoadCancelled(w) /\ ~HandlerInterrupted(w)
           /\ \A p \in Procs :
                  /\ ~Crash(p)
                  /\ \A t \in Tasks : ~DeadLetterLoad(p, t)
                  /\ EnforceCancellations(p) => wk' = wk
           /\ ~CancelCommit /\ ~RetryCommit /\ ~SkipCommit
           /\ \A c \in Calls : ~ApiCall(c)
<1>1. Expired = {}
  BY DEF Expired, Calm, InHands, LeasesKept
<1>2. \A w \in Workers : ~LoadCancelled(w) /\ ~HandlerInterrupted(w)
  BY DEF LoadCancelled, HandlerInterrupted, Calm, Quiescent, Uninterrupted
<1>3. \A p \in Procs : ~Crash(p)
  BY DEF Crash, Unharmed, Calm, Quiescent
<1>4. \A p \in Procs : \A t \in Tasks : ~DeadLetterLoad(p, t)
  BY DEF DeadLetterLoad, Calm, Quiescent
<1>5. \A p \in Procs : EnforceCancellations(p) => wk' = wk
  BY DEF EnforceCancellations, Calm, Quiescent
<1>6. ~CancelCommit /\ ~RetryCommit /\ ~SkipCommit
  BY DEF CancelCommit, RetryCommit, SkipCommit, Calm, Quiescent
<1>7. \A c \in Calls : ~ApiCall(c)
  BY DEF Unharmed
<1> QED BY <1>1, <1>2, <1>3, <1>4, <1>5, <1>6, <1>7

\* The watchdogs find nothing: no lease has expired and no task hangs.
LEMMA QuiescentStep ==
    ASSUME Unharmed, Calm, Inv, LeasesKept, [Next]_vars PROVE Quiescent'
<1> USE NoHarm
<1>0. buffer \in [Procs -> SUBSET Jobs] /\ letters \in [Procs -> SUBSET Tasks]
      /\ svc \in [Procs -> Session] /\ Quiescent
  BY DEF Inv, Sessions, Calm
<1>1. CASE UNCHANGED <<cancel, crashes, api, buffer, letters, svc>>
  BY <1>0, <1>1 DEF Quiescent
<1>2. ASSUME NEW p \in Procs, Requeue(p, Expired) PROVE buffer' = buffer
  BY <1>0, <1>2 DEF Requeue, Quiescent
<1>3. ASSUME NEW w \in Workers, DequeueRequeue(w) PROVE Quiescent'
  <2>1. proc[w] \in Procs
    BY EngineAssumption
  <2> QED BY <1>0, <1>2, <1>3, <2>1 DEF DequeueRequeue, Quiescent, db, client, budget
<1>4. ASSUME NEW w \in Workers, ProcessDeadLetters(w) PROVE FALSE
  <2>1. proc[w] \in Procs
    BY EngineAssumption
  <2> QED BY <1>0, <1>4, <2>1 DEF ProcessDeadLetters, Quiescent
<1>5. ASSUME NEW p \in Procs, ServiceCommit(p) PROVE Quiescent'
  <2>1. /\ svc' = [svc EXCEPT ![p] = Closed]
        /\ UNCHANGED <<cancel, crashes, api, buffer, letters>>
    BY <1>5 DEF ServiceCommit, client, budget
  <2> QED BY <1>0, <2>1, ClosedType DEF Quiescent
<1>6. ASSUME NEW p \in Procs, WatchdogRequeue(p) PROVE Quiescent'
  <2>1. letters' = [letters EXCEPT ![p] = {}] /\ buffer' = buffer
        /\ UNCHANGED <<cancel, crashes, api, svc>>
    BY <1>2, <1>6 DEF WatchdogRequeue, db, client, budget
  <2> QED BY <1>0, <2>1 DEF Quiescent
<1>7. ASSUME NEW p \in Procs, WatchdogDrain(p) PROVE Quiescent'
  BY <1>0, <1>7 DEF WatchdogDrain, Quiescent, db, client, budget
<1>8. ASSUME NEW p \in Procs, EnforceCancellations(p)
      PROVE  UNCHANGED <<cancel, crashes, api, buffer, letters, svc>>
  BY <1>8 DEF EnforceCancellations, db, client, budget
<1>9. ASSUME NEW p \in Procs, ReapHungTasks(p) PROVE Quiescent'
  <2>1. {t \in Tasks : /\ task[t] = "running"
                       /\ ~ \E w \in Workers, n \in 1..MaxJobs : Holds(w, <<t, n>>)} = {}
    BY DEF Calm, InHands
  <2>2. letters' = [letters EXCEPT ![p] = @ \cup {}]
        /\ UNCHANGED <<cancel, crashes, api, buffer, svc>>
    BY <1>9, <2>1 DEF ReapHungTasks, db, client, budget
  <2> QED BY <1>0, <2>2 DEF Quiescent
<1>10. ASSUME NEW p \in Procs, FinalizeOrphaned(p) PROVE Quiescent'
  <2>1. \/ svc' = [svc EXCEPT ![p] = Opened("finalize", None)]
        \/ svc' = [svc EXCEPT ![p] = Closed]
    BY <1>10 DEF FinalizeOrphaned
  <2>2. Opened("finalize", None).kind = "finalize"
    BY DEF Opened
  <2>3. UNCHANGED <<cancel, crashes, api, buffer, letters>>
    BY <1>10 DEF FinalizeOrphaned, db, client, budget
  <2> QED BY <1>0, <2>1, <2>2, <2>3, ClosedType DEF Quiescent
<1>11. ASSUME NEW order \in RowOrders, EnqueueCommit(order) PROVE Quiescent'
  BY <1>0, <1>11, ClosedType DEF EnqueueCommit, Quiescent, process, budget
<1>12. ASSUME NEW w \in Workers,
              \/ \E j \in Jobs : Claim(w, j)
              \/ LoadTerminal(w) \/ LoadTask(w) \/ Start(w) \/ Launch(w)
              \/ HandlerSucceeds(w) \/ HandlerRetries(w) \/ HandlerFails(w) \/ Collect(w)
              \/ \E order \in RowOrders : Settle(w, order)
              \/ SlipLease(w)
       PROVE  UNCHANGED <<cancel, crashes, api, buffer, letters, svc>>
  BY <1>12 DEF Claim, LoadTerminal, LoadTask, Start, Launch, HandlerSucceeds, HandlerRetries,
     HandlerFails, Collect, Settle, SlipLease, db, client, process, budget
<1>13. UNCHANGED vars => UNCHANGED <<cancel, crashes, api, buffer, letters, svc>>
  BY DEF vars, db, client, process, budget
<1> QED BY <1>1, <1>3, <1>4, <1>5, <1>6, <1>7, <1>8, <1>9, <1>10, <1>11, <1>12, <1>13
  DEF Next, WorkerStep, LetterStep, WatchdogStep, ApiStep

\* Handlers end by themselves.
LEMMA UninterruptedStep ==
    ASSUME Unharmed, Calm, Inv, LeasesKept, [Next]_vars PROVE Uninterrupted'
<1> SUFFICES ASSUME NEW w \in Workers
             PROVE  /\ wk'[w].pc \notin {"interrupted", "gone"}
                    /\ wk'[w].pc \in {"finishing", "settling"} => wk'[w].out # "cancelled"
  BY DEF Uninterrupted
<1>1. Turn(w) /\ Uninterrupted
  BY WorkersTurn DEF Calm
<1>2. proc[w] \in Procs
  BY EngineAssumption
<1>3. CASE wk' = wk
  BY <1>1, <1>3 DEF Uninterrupted
<1>4. ASSUME \/ LoadTerminal(w) \/ HandlerRetries(w) \/ \E order \in RowOrders : Settle(w, order)
      PROVE  wk'[w].pc = "idle"
  BY <1>4, ClosedType DEF LoadTerminal, HandlerRetries, Settle, Inv, Coroutines
<1>5. Collect(w) => wk[w].pc = "finishing"
  BY DEF Collect
<1> QED BY <1>1, <1>2, <1>3, <1>4, <1>5, NoHarm DEF Turn, Uninterrupted

\* A worker that lets go of its job has taken it out of the queue, and its task
\* is not running any more.
LEMMA LettingGo ==
    ASSUME Unharmed, Calm, Inv, LeasesKept, OwnOutcome, Remembered, Returned, [Next]_vars,
           NEW w \in Workers, NEW j \in Jobs, Holds(w, j), ~Holds(w, j)'
    PROVE  jstate'[j] \in {"completed", "cancelled"} /\ task'[j[1]] # "running"
<1>0. /\ wk[w].job = j /\ j[1] \in Tasks /\ proc[w] \in Procs /\ JobRows
      /\ task \in View
      /\ wk[w].pc \notin {"idle", "gone"}
  BY InHand, EngineAssumption DEF Holds, Inv, Tables
<1>1. \/ LoadTerminal(w) \/ HandlerRetries(w)
      \/ \E order \in RowOrders : Settle(w, order)
  <2>1. Turn(w)
    BY WorkersTurn
  <2>2. ASSUME NEW i \in Jobs, Claim(w, i) PROVE FALSE
    BY <1>0, <2>2 DEF Claim
  <2> QED BY <1>0, <2>1, <2>2, NoHarm DEF Turn, Holds
<1>2. CASE LoadTerminal(w)
  <2>1. jstate'[j] \in {"completed", "cancelled"}
    BY <1>0, <1>2 DEF LoadTerminal, AckAndEnqueue
  <2>2. task' = task /\ task[j[1]] \notin ACTIVE_STATES
    BY <1>0, <1>2 DEF LoadTerminal, db
  <2> QED BY <2>1, <2>2 DEF ACTIVE_STATES
<1>3. CASE HandlerRetries(w)
  <2> DEFINE A == {j}
             Q == {j[1]}
  <2>1. /\ jstate' = AckAndEnqueue(A, Q) /\ RoomFor(Q)
        /\ j \in A /\ A \subseteq Jobs /\ Q \subseteq Tasks
    BY <1>0, <1>3 DEF HandlerRetries
  <2> HIDE DEF A, Q
  <2>2. jstate'[j] \in {"completed", "cancelled"}
    BY <1>0, <2>1, AckAndEnqueueJobs
  <2>3. task'[j[1]] = "queued"
    BY <1>0, <1>3 DEF HandlerRetries, View
  <2> QED BY <2>2, <2>3
<1>4. ASSUME NEW order \in RowOrders, Settle(w, order)
      PROVE  jstate'[j] \in {"completed", "cancelled"} /\ task'[j[1]] # "running"
  <2>1. wk[w].pc = "settling" /\ wk[w].out \in {"success", "allowed", "failed"}
    BY <1>4 DEF Settle, Inv, Coroutines, Calm, Uninterrupted, Outcome
  <2>2. CASE wk[w].out = "success"
    <3>1. jstate[j] \in {"completed", "cancelled"}
      BY <1>0, <2>1, <2>2 DEF Remembered
    <3>2. jstate'[j] \in {"completed", "cancelled"}
      BY <1>4, <3>1, SettleMoves DEF Moved
    <3>3. task'[j[1]] = task[j[1]]
      BY <1>0, <1>4, <2>2, SettleWrites
    <3> QED BY <1>0, <2>1, <2>2, <3>2, <3>3 DEF Returned, ACTIVE_STATES
  <2>3. CASE wk[w].out \in {"allowed", "failed"}
    <3>1. wk[w].seen = "running" /\ OutcomeStatus(wk[w].out) \in {"success", "failed"}
      BY <2>1, <2>3 DEF Remembered, OutcomeStatus
    <3>2. task'[j[1]] = OutcomeStatus(wk[w].out)
      BY <1>0, <1>4, <2>3, <3>1, SettleWrites
    <3> DEFINE A == {j}
               Q == Released(w, order)
    <3>3. j \in A /\ A \subseteq Jobs /\ Q \subseteq Tasks /\ RoomFor(Q)
          /\ jstate' = AckAndEnqueue(A, Q)
      BY <1>0, <1>4, <2>3 DEF Settle, Released, Settled, NewlyQueued
    <3> HIDE DEF A, Q
    <3>4. jstate'[j] \in {"completed", "cancelled"}
      BY <1>0, <3>3, AckAndEnqueueJobs
    <3> QED BY <3>1, <3>2, <3>4
  <2> QED BY <2>1, <2>2, <2>3
<1> QED BY <1>1, <1>2, <1>3, <1>4

\* So leases and running tasks stay in hand.
LEMMA InHandsStep ==
    ASSUME Unharmed, Calm, Inv, LeasesKept, OwnOutcome, Remembered, Returned, Spawning,
           [Next]_vars
    PROVE  InHands'
<1>1. ASSUME NEW j \in Jobs, jstate'[j] = "leased" PROVE \E w \in Workers : Holds(w, j)'
  <2>1. jstate[j] = "leased" \/ \E w \in Workers : Claim(w, j)
    <3>1. \E Q : Moved(Q)
      BY QueueStep, RetryMoves, SettleMoves, SpawnMoves
    <3> QED BY <1>1, <3>1 DEF Moved
  <2>2. ASSUME NEW w \in Workers, Claim(w, j) PROVE Holds(w, j)'
    BY <2>2 DEF Claim, Idle, Holds, Inv, Coroutines
  <2>3. ASSUME NEW w \in Workers, Holds(w, j) PROVE Holds(w, j)'
    BY <1>1, <2>3, LettingGo
  <2> QED BY <2>1, <2>2, <2>3 DEF Calm, InHands
<1>2. ASSUME NEW t \in Tasks, task'[t] = "running"
      PROVE  \E w \in Workers, n \in 1..MaxJobs : Holds(w, <<t, n>>)'
  <2>1. PICK w \in Workers, n \in 1..MaxJobs : Holds(w, <<t, n>>)
    <3>1. CASE task[t] = "running"
      BY <3>1 DEF Calm, InHands
    <3>2. CASE task[t] # "running"
      <4>1. PICK w \in Workers : wk[w].pc \notin {"idle", "gone"} /\ wk[w].job[1] = t
        BY <1>2, <3>2, TaskWrites
      <4>2. wk[w].job \in Jobs /\ Holds(w, wk[w].job)
        BY <4>1, InHand
      <4>3. PICK n \in 1..MaxJobs : wk[w].job = <<t, n>>
        BY <4>1, <4>2 DEF Jobs
      <4> QED BY <4>2, <4>3
    <3> QED BY <3>1, <3>2
  <2>2. <<t, n>> \in Jobs /\ <<t, n>>[1] = t
    BY DEF Jobs
  <2>3. Holds(w, <<t, n>>)'
    BY <1>2, <2>1, <2>2, LettingGo
  <2> QED BY <2>3
<1> QED BY <1>1, <1>2 DEF InHands

\* ... so it stays calm,
LEMMA CalmStep ==
    ASSUME Unharmed, Calm, Inv, LeasesKept, OwnOutcome, Remembered, Returned, Spawning,
           [Next]_vars
    PROVE  Calm'
BY QuiescentStep, UninterruptedStep, InHandsStep DEF Calm

\* as it is at first.
LEMMA CalmInit == ASSUME Unharmed, Init PROVE Calm
<1>1. /\ \A w \in Workers : wk[w].pc = "idle"
      /\ \A j \in Jobs : jstate[j] = "absent"
      /\ \A t \in Tasks : task[t] = "pending"
      /\ \A p \in Procs : buffer[p] = {} /\ letters[p] = {} /\ svc[p].kind = "closed"
      /\ api.kind = "enqueue" /\ ~cancel /\ crashes = 0
  BY ClosedType DEF Init, Opened
<1> QED BY <1>1 DEF Calm, Quiescent, Uninterrupted, InHands

\* The stages before the last one reached are not just over, but satisfied.
Past(stage) ==
    \A t, u \in Tasks : stage[t] < stage[u] /\ Enqueued(u) => task[t] \in SATISFIED_STATES

\* A task whose handler has returned successfully stays successful while its
\* worker goes on.
Succeeded ==
    \A w \in Workers : wk[w].pc \in {"finishing", "settling"} /\ wk[w].out = "success" =>
        task[wk[w].job[1]] = "success"

\* Nobody writes to a task of an earlier stage.
LEMMA PastKept ==
    ASSUME NEW stage, Staged(stage), Inv, Order(stage), Unharmed, Calm, [Next]_vars,
           NEW t \in Tasks, NEW u \in Tasks, stage[t] < stage[u], Enqueued(u)
    PROVE  task'[t] = task[t]
<1> SUFFICES ASSUME task'[t] # task[t] PROVE FALSE
  OBVIOUS
<1>0. stage \in [Tasks -> Nat]
  BY DEF Staged
<1>1. ASSUME NEW w \in Workers, wk[w].pc \notin {"idle", "gone"}
      PROVE  wk[w].job[1] \in Tasks /\ stage[t] < stage[wk[w].job[1]]
  BY <1>0, <1>1, InHand DEF Order, Front
<1>2. ASSUME NEW w \in Workers, NEW order \in RowOrders, Settle(w, order)
      PROVE  wk[w].tasks[t] # "pending" /\ t \notin Released(w, order)
  <2>1. wk[w].pc = "settling"
    BY <1>2 DEF Settle
  <2>2. wk[w].tasks[t] # "pending"
    BY <1>0, <1>1, <2>1 DEF Order, Views
  <2> QED BY <2>1, <2>2, SettledView
<1>3. \A order \in RowOrders : ~EnqueueCommit(order)
  BY DEF EnqueueCommit, Order, Spawning
<1>4. ~CancelCommit /\ \A p \in Procs : svc[p].kind # "dead"
  BY NoHarm DEF Calm, Quiescent, Order
<1>5. \A w \in Workers : wk[w].pc \notin {"idle", "gone"} => wk[w].job[1] # t
  BY <1>0, <1>1
<1> QED BY <1>2, <1>3, <1>4, <1>5, TaskWrites DEF Ended, Order

\* A success stands.
LEMMA SucceededStep ==
    ASSUME NEW stage, Staged(stage), Inv, Order(stage), Unharmed, Calm, Succeeded, [Next]_vars
    PROVE  Succeeded'
<1> SUFFICES ASSUME NEW w \in Workers, wk'[w].pc \in {"finishing", "settling"},
                    wk'[w].out = "success"
             PROVE  task'[wk'[w].job[1]] = "success"
  BY DEF Succeeded
<1>0. stage \in [Tasks -> Nat] /\ task \in View
  BY DEF Staged, Inv, Tables
<1>1. CASE wk'[w] = wk[w]
  <2>1. PICK job \in Jobs : job = wk[w].job /\ job[1] \in Tasks /\ Holds(w, job)
                            /\ Live(job) /\ Enqueued(job[1])
    BY <1>1, InHand
  <2> DEFINE t == job[1]
  <2>2. ASSUME NEW v \in Workers, wk[v].pc \notin {"idle", "gone"}, wk[v].job[1] = t
        PROVE  v = w
    <3>1. wk[v].job \in Jobs /\ Live(wk[v].job) /\ Holds(v, wk[v].job)
      BY <2>2, InHand
    <3>2. wk[v].job = job
      BY <2>1, <2>2, <3>1 DEF Order, OneLive
    <3> QED BY <2>1, <3>1, <3>2 DEF Order, Held
  <2>3. ~Start(w) /\ ~HandlerSucceeds(w) /\ ~HandlerRetries(w) /\ ~LoadCancelled(w)
    BY <1>1 DEF Start, HandlerSucceeds, HandlerRetries, LoadCancelled
  <2>4. \A order \in RowOrders : ~Settle(w, order)
    BY <1>1, ClosedType DEF Settle, Inv, Coroutines
  <2>5. ASSUME NEW v \in Workers, NEW order \in RowOrders, Settle(v, order)
        PROVE  wk[v].tasks[t] # "pending" /\ t \notin Released(v, order)
    <3>1. wk[v].pc = "settling"
      BY <2>5 DEF Settle
    <3>2. stage[t] <= stage[wk[v].job[1]] /\ wk[v].job[1] \in Tasks
      BY <2>1, <3>1, InHand DEF Order, Front
    <3>3. wk[v].tasks[t] # "pending"
      BY <1>0, <2>1, <3>1, <3>2 DEF Order, Views
    <3> QED BY <3>1, <3>3, SettledView
  <2>6. \A order \in RowOrders : ~EnqueueCommit(order)
    BY <2>1 DEF EnqueueCommit, Order, Spawning
  <2>7. ~CancelCommit /\ \A p \in Procs : svc[p].kind # "dead"
    BY NoHarm DEF Calm, Quiescent, Order
  <2>8. task'[t] = task[t]
    BY <2>1, <2>2, <2>3, <2>4, <2>5, <2>6, <2>7, TaskWrites DEF Ended, Order
  <2> QED BY <1>1, <2>1, <2>8 DEF Succeeded
<1>2. CASE HandlerSucceeds(w) /\ wk'[w].job = wk[w].job
  <2>1. wk[w].pc = "running" /\ task' = [task EXCEPT ![wk[w].job[1]] = "success"]
    BY <1>2 DEF HandlerSucceeds
  <2> QED BY <1>0, <1>2, <2>1, InHand DEF View
<1>3. CASE Collect(w) /\ wk'[w].job = wk[w].job /\ wk'[w].out = wk[w].out
  <2>1. wk[w].pc = "finishing" /\ task' = task
    BY <1>3 DEF Collect, db
  <2> QED BY <1>3, <2>1 DEF Succeeded
<1>4. Turn(w)
  BY WorkersTurn
<1> QED BY <1>1, <1>2, <1>3, <1>4 DEF Turn

\* A stage is released when the one before it is satisfied.
LEMMA PastStep ==
    ASSUME NEW stage, Staged(stage), Inv, Order(stage), Unharmed, Calm, Succeeded,
           Past(stage), [Next]_vars
    PROVE  Past(stage)'
<1>0. stage \in [Tasks -> Nat]
  BY DEF Staged
<1>1. ASSUME NEW t \in Tasks, NEW u \in Tasks, stage[t] < stage[u], Enqueued(u)
      PROVE  task'[t] \in SATISFIED_STATES
  BY <1>1, PastKept DEF Past
<1>2. ASSUME Moved({}), NEW u \in Tasks, Enqueued(u)' PROVE Enqueued(u)
  BY <1>2, EnqueuedStep
<1>3. ASSUME NEW w \in Workers, HandlerRetries(w), NEW u \in Tasks, Enqueued(u)'
      PROVE  Enqueued(u)
  <2>1. wk[w].pc \notin {"idle", "gone"}
    BY <1>3 DEF HandlerRetries
  <2>2. Enqueued(wk[w].job[1]) /\ Moved({wk[w].job[1]})
    BY <1>3, <2>1, InHand, RetryMoves
  <2>3. Enqueued(u) \/ u \in {wk[w].job[1]}
    BY <1>3, <2>2, EnqueuedStep
  <2> QED BY <2>2, <2>3
<1>4. ASSUME NEW order \in RowOrders, EnqueueCommit(order), NEW u \in Tasks, Enqueued(u)'
      PROVE  Enqueued(u) \/ stage[u] = 0
  <2>1. Enqueued(u) \/ u \in Spawned(order)
    BY <1>4, SpawnMoves, EnqueuedStep
  <2> QED BY <1>4, <2>1, SpawnedRoots, StageZero DEF Order
<1>5. ASSUME NEW w \in Workers, NEW order \in RowOrders, Settle(w, order),
             NEW t \in Tasks, NEW u \in Tasks, stage[t] < stage[u], Enqueued(u)', ~Enqueued(u)
      PROVE  task'[t] \in SATISFIED_STATES
  <2> DEFINE own == wk[w].job[1]
  <2>1. wk[w].pc = "settling" /\ own \in Tasks /\ Enqueued(own)
    BY <1>5, InHand DEF Settle
  <2>2. u \in Released(w, order)
    BY <1>5, SettleMoves, EnqueuedStep
  <2>3. stage[u] = stage[own] + 1 /\ (stage[t] = stage[own] => t = own)
    BY <2>1, <2>2, ReleasedStage
  <2>4. CASE stage[t] < stage[own]
    BY <1>1, <2>1, <2>4
  <2>5. CASE t = own
    <3>1. wk[w].out \in {"success", "allowed"}
      BY <2>1, <2>2, SettledView
    <3>2. CASE wk[w].out = "success"
      <4>1. task'[t] = task[t]
        BY <1>5, <2>5, <3>2, SettleWrites DEF Order
      <4> QED BY <2>1, <2>5, <3>2, <4>1 DEF Succeeded, SATISFIED_STATES
    <3>3. CASE wk[w].out = "allowed"
      <4>1. wk[w].seen = "running" /\ OutcomeStatus(wk[w].out) = "success"
        BY <2>1, <3>3 DEF Order, Remembered, OutcomeStatus
      <4>2. task'[t] = "success"
        BY <1>5, <2>5, <3>3, <4>1, SettleWrites DEF Order
      <4> QED BY <4>2 DEF SATISFIED_STATES
    <3> QED BY <3>1, <3>2, <3>3
  <2> QED BY <1>0, <1>5, <2>1, <2>3, <2>4, <2>5
<1>6. ASSUME NEW t \in Tasks, NEW u \in Tasks, stage[t] < stage[u], Enqueued(u)'
      PROVE  task'[t] \in SATISFIED_STATES
  <2>1. stage[u] # 0
    BY <1>0, <1>6
  <2> QED BY <1>1, <1>2, <1>3, <1>4, <1>5, <1>6, <2>1, QueueStep
<1> QED BY <1>6 DEF Past

\* DependenciesRespected, for graphs that run in stages on workers nothing
\* happens to: a task gets under way by a job, a job is enqueued when the stage
\* before it is satisfied, and what is satisfied is not written again.
THEOREM StagesRespectDependencies ==
    ASSUME NEW stage, Staged(stage), AllRows, Unharmed
    PROVE  Spec => []DependenciesRespected
<1> DEFINE More == Calm /\ Succeeded /\ Past(stage)
<1>0. Undisturbed
  BY DEF Unharmed, Undisturbed
<1>1. Init => More
  <2> SUFFICES ASSUME Init PROVE Succeeded /\ Past(stage)
    BY CalmInit
  <2>1. \A w \in Workers : wk[w].pc = "idle"
    BY ClosedType DEF Init
  <2>2. \A u \in Tasks : ~Enqueued(u)
    BY DEF Init, Enqueued, Jobs
  <2> QED BY <2>1, <2>2 DEF Succeeded, Past
<1>2. Inv /\ Order(stage) /\ More /\ [Next]_vars => More'
  <2> SUFFICES ASSUME Inv, Order(stage), Calm, Succeeded, Past(stage), [Next]_vars
               PROVE  Calm' /\ Succeeded' /\ Past(stage)'
    OBVIOUS
  <2>1. Calm'
    BY CalmStep DEF Order
  <2> QED BY <2>1, SucceededStep, PastStep
<1>3. Inv /\ Order(stage) /\ More => DependenciesRespected
  <2> SUFFICES ASSUME Order(stage), Past(stage), NEW t \in Tasks, NEW d \in deps[t],
                      task[t] \in {"queued", "running", "success"}
               PROVE  task[d] \in SATISFIED_STATES
    BY DEF DependenciesRespected
  <2>1. d \in Tasks /\ stage[d] < stage[t]
    BY EngineAssumption DEF Staged
  <2>2. Enqueued(t)
    BY DEF Order, ByJob
  <2> QED BY <2>1, <2>2 DEF Past
<1> HIDE DEF More
<1> QED BY <1>0, <1>1, <1>2, <1>3, InvHolds, OrderHolds, PTL DEF Spec

-----------------------------------------------------------------------------
(***************************************************************************)
(* One worker (settings.worker_count = 1 in a single process): then the    *)
(* graph does not matter.  Between the read and the commit of the worker's *)
(* session nobody else writes to the tasks, so its view is the table.      *)
(***************************************************************************)
Single == \A v, w \in Workers : v = w

\* The view of the session that follows a handler, but for its own task.
Current ==
    \A w \in Workers : wk[w].pc = "settling" =>
        \A t \in Tasks : t # wk[w].job[1] => wk[w].tasks[t] = task[t]

\* A pending task has no job yet.
Unstarted == \A t \in Tasks : task[t] = "pending" => ~Enqueued(t)

\* A live job's task is under way, or its worker has just finished it.
Handed ==
    \A j \in Jobs : Live(j) =>
        \/ task[j[1]] \in {"queued", "running"}
        \/ /\ task[j[1]] = "success"
           /\ \E w \in Workers : /\ Holds(w, j) /\ wk[w].out = "success"
                                 /\ wk[w].pc \in {"finishing", "settling"}

Solo ==
    /\ Held /\ OneLive /\ ByJob /\ OwnOutcome /\ Remembered /\ Spawning /\ LeasesKept /\ Calm
    /\ Succeeded /\ Current /\ Unstarted /\ Handed /\ DependenciesRespected

\* Succeeded is more than Returned.
LEMMA SuccessReturned == ASSUME Succeeded PROVE Returned
BY DEF Succeeded, Returned, ACTIVE_STATES

\* The job a worker is done with is not live any more.
LEMMA SoloLetsGo ==
    ASSUME Single, Unharmed, Inv, Solo, [Next]_vars,
           NEW w \in Workers, NEW j \in Jobs, Holds(w, j), wk'[w].pc = "idle"
    PROVE  ~Live(j)'
<1>1. \A v \in Workers : ~Holds(v, j)'
  BY DEF Single, Holds
<1>2. jstate'[j] \in {"completed", "cancelled"}
  BY <1>1, LettingGo, SuccessReturned DEF Solo
<1> QED BY <1>1, <1>2 DEF Live

\* A worker that settles or retries is idle after it.
LEMMA IdleAgain ==
    ASSUME Inv, NEW w \in Workers,
           HandlerRetries(w) \/ \E order \in RowOrders : Settle(w, order)
    PROVE  wk'[w].pc = "idle" /\ wk[w].pc \notin {"idle", "gone"}
BY ClosedType DEF HandlerRetries, Settle, Inv, Coroutines

\* What the worker's session releases is pending in the table.
LEMMA SoloReleased ==
    ASSUME Inv, Solo, NEW w \in Workers, wk[w].pc = "settling", NEW t \in Tasks,
           wk[w].tasks[t] = "pending"
    PROVE  t # wk[w].job[1] /\ task[t] = "pending" /\ ~Enqueued(t)
<1>1. OutcomeStatus(wk[w].out) # "pending"
  BY DEF OutcomeStatus, Outcome, Inv, Coroutines
<1> QED BY <1>1 DEF Solo, OwnOutcome, Current, Unstarted

\* Who writes to a task: the worker that has its job, or a pass that finds it
\* pending.
LEMMA SoloWrites ==
    ASSUME Unharmed, Inv, Solo, [Next]_vars, NEW t \in Tasks, task'[t] # task[t]
    PROVE  \/ \E w \in Workers :
                 /\ wk[w].pc \notin {"idle", "gone"} /\ wk[w].job[1] = t
                 /\ \/ Start(w) /\ task'[t] = "running"
                    \/ HandlerSucceeds(w) /\ task'[t] = "success"
                    \/ HandlerRetries(w) /\ task'[t] = "queued"
                    \/ wk[w].out # "success" /\ \E order \in RowOrders : Settle(w, order)
           \/ \E w \in Workers, order \in RowOrders :
                 /\ Settle(w, order) /\ task[t] = "pending" /\ ~Enqueued(t)
                 /\ task'[t] \notin {"failed", "cancelled"} => t \in Released(w, order)
           \/ \E order \in RowOrders :
                 /\ EnqueueCommit(order) /\ ~Enqueued(t)
                 /\ task'[t] \notin {"failed", "cancelled"} => t \in Spawned(order)
<1>1. ASSUME NEW w \in Workers, NEW order \in RowOrders, Settle(w, order),
             wk[w].tasks[t] = "pending"
      PROVE  task[t] = "pending" /\ ~Enqueued(t)
  BY <1>1, SoloReleased DEF Settle
<1>2. ASSUME NEW w \in Workers, NEW order \in RowOrders, Settle(w, order),
             t \in Released(w, order)
      PROVE  wk[w].tasks[t] = "pending"
  BY <1>2, SettledView DEF Settle
<1>3. ASSUME NEW order \in RowOrders, EnqueueCommit(order) PROVE ~Enqueued(t)
  BY <1>3 DEF EnqueueCommit, Solo, Spawning
<1>4. /\ ~CancelCommit /\ \A w \in Workers : ~LoadCancelled(w)
      /\ \A p \in Procs : svc[p].kind # "dead"
  BY NoHarm DEF Solo, Calm, Quiescent
<1>5. OwnOutcome /\ Spawning
  BY DEF Solo
<1> QED BY <1>1, <1>2, <1>3, <1>4, <1>5, TaskWrites DEF Ended

\* What a step enqueues is queued, and has no other live job.
LEMMA SoloQueues ==
    ASSUME Single, Unharmed, Inv, Solo, [Next]_vars
    PROVE  \E Q : /\ Moved(Q)
                  /\ \A q \in Q : /\ task'[q] = "queued"
                                  /\ \A j \in Jobs : Live(j) /\ j[1] = q => ~Live(j)'
<1> DEFINE Good(Q) == \A q \in Q : /\ task'[q] = "queued"
                                   /\ \A j \in Jobs : Live(j) /\ j[1] = q => ~Live(j)'
<1>1. CASE Moved({})
  BY <1>1
<1>2. ASSUME NEW w \in Workers, HandlerRetries(w)
      PROVE  Moved({wk[w].job[1]}) /\ Good({wk[w].job[1]})
  <2>1. PICK own \in Jobs : /\ own = wk[w].job /\ Holds(w, own) /\ Live(own)
                            /\ own[1] \in Tasks /\ wk'[w].pc = "idle"
    BY <1>2, InHand, IdleAgain
  <2>2. ~Live(own)'
    BY <2>1, SoloLetsGo
  <2>3. task'[own[1]] = "queued"
    BY <1>2, <2>1 DEF HandlerRetries, Inv, Tables, View
  <2>4. \A j \in Jobs : Live(j) /\ j[1] = own[1] => j = own
    BY <2>1 DEF Solo, OneLive
  <2> QED BY <1>2, <2>1, <2>2, <2>3, <2>4, RetryMoves
<1>3. ASSUME NEW w \in Workers, NEW order \in RowOrders, Settle(w, order)
      PROVE  Moved(Released(w, order)) /\ Good(Released(w, order))
  <2> SUFFICES ASSUME NEW q \in Released(w, order)
               PROVE  task'[q] = "queued" /\ \A j \in Jobs : Live(j) => j[1] # q
    BY <1>3, SettleMoves
  <2>1. /\ wk[w].pc = "settling" /\ q \in Tasks /\ wk[w].tasks[q] = "pending"
        /\ Settled(w, order)[q] = "queued"
    BY <1>3, SettledView DEF Settle, Released, NewlyQueued
  <2>2. q # wk[w].job[1] /\ ~Enqueued(q)
    BY <2>1, SoloReleased
  <2>3. task'[q] = "queued"
    BY <1>3, <2>1, <2>2, SettleWrites DEF Solo
  <2> QED BY <2>2, <2>3, LiveIsEnqueued
<1>4. ASSUME NEW order \in RowOrders, EnqueueCommit(order)
      PROVE  Moved(Spawned(order)) /\ Good(Spawned(order))
  <2> SUFFICES ASSUME NEW q \in Spawned(order)
               PROVE  task'[q] = "queued" /\ \A j \in Jobs : Live(j) => j[1] # q
    BY <1>4, SpawnMoves
  <2> DEFINE new == EnqueueReady(api.tasks, api.cancel, order)
  <2>1. q \in Tasks /\ new[q] = "queued" /\ api.tasks[q] = "pending"
    BY DEF Spawned, NewlyQueued
  <2>2. task' = Written(task, api.tasks, new)
    BY <1>4 DEF EnqueueCommit
  <2> HIDE DEF new
  <2>3. task'[q] = "queued"
    BY <2>1, <2>2 DEF Written
  <2>4. ~Enqueued(q)
    BY <1>4, <2>1 DEF EnqueueCommit, Solo, Spawning
  <2> QED BY <2>3, <2>4, LiveIsEnqueued
<1> HIDE DEF Good
<1>5. \E Q : Moved(Q) /\ Good(Q)
  <2>1. Good({})
    BY DEF Good
  <2> QED BY <2>1, <1>2, <1>3, <1>4, QueueStep
<1> QED BY <1>5 DEF Good

\* The parts about jobs.
LEMMA SoloJobs ==
    ASSUME Single, Unharmed, Inv, Solo, [Next]_vars PROVE OneLive' /\ ByJob' /\ Unstarted'
<1>1. PICK Q : /\ Moved(Q)
               /\ \A q \in Q : /\ task'[q] = "queued"
                               /\ \A j \in Jobs : Live(j) /\ j[1] = q => ~Live(j)'
  BY SoloQueues
<1>2. OneLive'
  <2> SUFFICES ASSUME NEW i \in Jobs, NEW j \in Jobs, Live(i)', Live(j)', i[1] = j[1]
               PROVE  i = j
    BY DEF OneLive
  <2>1. \A q \in Q : FreshJob(q)[1] = q
    BY <1>1 DEF Moved
  <2>2. /\ Live(i) \/ \E q \in Q : i = FreshJob(q)
        /\ Live(j) \/ \E q \in Q : j = FreshJob(q)
    BY <1>1, LiveStep
  <2>3. Live(i) => i[1] \notin Q
    BY <1>1
  <2>4. Live(j) => j[1] \notin Q
    BY <1>1
  <2> QED BY <2>1, <2>2, <2>3, <2>4 DEF Solo, OneLive
<1>3. \A t \in Tasks : Enqueued(t)' <=> Enqueued(t) \/ t \in Q
  BY <1>1, EnqueuedStep
<1>4. ASSUME NEW t \in Tasks, task'[t] # task[t]
      PROVE  /\ task'[t] # "pending"
             /\ task'[t] \in {"failed", "cancelled"} \/ Enqueued(t) \/ t \in Q
  BY <1>1, <1>4, TaskMoves, LiveIsEnqueued DEF Solo
<1>5. ByJob'
  BY <1>3, <1>4 DEF Solo, ByJob
<1>6. Unstarted'
  BY <1>1, <1>3, <1>4 DEF Solo, Unstarted
<1> QED BY <1>2, <1>5, <1>6

\* The parts about the worker's session.
LEMMA SoloSession ==
    ASSUME Single, Unharmed, Inv, Solo, [Next]_vars PROVE Current' /\ Succeeded'
<1>0. task \in View
  BY DEF Inv, Tables
<1>1. ASSUME NEW w \in Workers, wk[w].pc \in {"finishing", "settling"}, wk'[w] = wk[w],
             NEW t \in Tasks
      PROVE  task'[t] = task[t]
  <2> SUFFICES ASSUME task'[t] # task[t] PROVE FALSE
    OBVIOUS
  <2>1. ASSUME NEW v \in Workers,
               \/ Start(v) \/ HandlerSucceeds(v) \/ HandlerRetries(v)
               \/ \E order \in RowOrders : Settle(v, order)
        PROVE  FALSE
    <3>1. v = w
      BY DEF Single
    <3>2. wk'[w].pc # "idle"
      BY <1>1
    <3> QED BY <1>1, <2>1, <3>1, <3>2, IdleAgain DEF Start, HandlerSucceeds
  <2>2. ASSUME NEW order \in RowOrders, EnqueueCommit(order) PROVE FALSE
    BY <1>1, <2>2, InHand DEF EnqueueCommit, Solo, Spawning
  <2> QED BY <2>1, <2>2, SoloWrites
<1>2. ASSUME NEW w \in Workers, Collect(w), wk'[w].job = wk[w].job, wk'[w].out = wk[w].out
      PROVE  task' = task /\ wk[w].pc = "finishing"
  BY <1>2 DEF Collect, db
<1>3. Current'
  <2> SUFFICES ASSUME NEW w \in Workers, wk'[w].pc = "settling", NEW t \in Tasks,
                      t # wk'[w].job[1]
               PROVE  wk'[w].tasks[t] = task'[t]
    BY DEF Current
  <2>1. CASE wk'[w] = wk[w]
    BY <1>1, <2>1 DEF Solo, Current
  <2>2. CASE /\ Collect(w) /\ wk'[w].job = wk[w].job /\ wk'[w].out = wk[w].out
             /\ wk'[w].tasks = [task EXCEPT ![wk[w].job[1]] = OutcomeStatus(wk[w].out)]
    BY <1>0, <1>2, <2>2 DEF View
  <2> QED BY <2>1, <2>2, WorkersTurn DEF Turn
<1>4. Succeeded'
  <2> SUFFICES ASSUME NEW w \in Workers, wk'[w].pc \in {"finishing", "settling"},
                      wk'[w].out = "success"
               PROVE  task'[wk'[w].job[1]] = "success"
    BY DEF Succeeded
  <2>1. CASE wk'[w] = wk[w]
    <3>1. wk[w].job[1] \in Tasks /\ task[wk[w].job[1]] = "success"
      BY <2>1, InHand DEF Solo, Succeeded
    <3> QED BY <1>1, <2>1, <3>1
  <2>2. CASE HandlerSucceeds(w) /\ wk'[w].job = wk[w].job
    <3>1. wk[w].pc = "running" /\ task' = [task EXCEPT ![wk[w].job[1]] = "success"]
      BY <2>2 DEF HandlerSucceeds
    <3> QED BY <1>0, <2>2, <3>1, InHand DEF View
  <2>3. CASE Collect(w) /\ wk'[w].job = wk[w].job /\ wk'[w].out = wk[w].out
    BY <1>2, <2>3 DEF Solo, Succeeded
  <2> QED BY <2>1, <2>2, <2>3, WorkersTurn DEF Turn
<1> QED BY <1>3, <1>4

\* A live job's task is under way.
LEMMA SoloHanded == ASSUME Single, Unharmed, Inv, Solo, [Next]_vars PROVE Handed'
<1> SUFFICES ASSUME NEW j \in Jobs, Live(j)'
             PROVE  \/ task'[j[1]] \in {"queued", "running"}
                    \/ /\ task'[j[1]] = "success"
                       /\ \E w \in Workers : /\ Holds(w, j)' /\ wk'[w].out = "success"
                                             /\ wk'[w].pc \in {"finishing", "settling"}
  BY DEF Handed
<1>1. PICK Q : Moved(Q) /\ \A q \in Q : task'[q] = "queued"
  BY SoloQueues
<1>2. ASSUME NEW q \in Q, j = FreshJob(q) PROVE task'[j[1]] = "queued"
  BY <1>1, <1>2 DEF Moved
<1>3. CASE Live(j)
  <2> DEFINE t == j[1]
  <2>1. t \in Tasks /\ Enqueued(t)
    BY <1>3, LiveIsEnqueued
  <2>2. ASSUME NEW w \in Workers, Holds(w, j),
               HandlerRetries(w) \/ \E order \in RowOrders : Settle(w, order)
        PROVE  FALSE
    BY <2>2, IdleAgain, SoloLetsGo
  <2>3. CASE task'[t] = task[t] /\ task[t] \notin {"queued", "running"}
    <3>1. PICK w \in Workers : /\ Holds(w, j) /\ wk[w].out = "success" /\ task[t] = "success"
                               /\ wk[w].pc \in {"finishing", "settling"}
      BY <1>3, <2>3 DEF Solo, Handed
    <3>2. wk'[w].pc \in {"finishing", "settling"} /\ wk'[w].job = wk[w].job
          /\ wk'[w].out = "success"
      <4>1. Turn(w) /\ proc[w] \in Procs
        BY WorkersTurn, EngineAssumption
      <4>2. ~LoadTerminal(w) /\ ~LoadCancelled(w) /\ ~HandlerInterrupted(w) /\ ~LoadTask(w)
            /\ ~Start(w) /\ ~Launch(w) /\ ~HandlerSucceeds(w) /\ ~HandlerFails(w)
            /\ \A i \in Jobs : ~Claim(w, i)
        BY <3>1 DEF LoadTerminal, LoadCancelled, HandlerInterrupted, LoadTask, Start, Launch,
           HandlerSucceeds, HandlerFails, Claim
      <4>3. ~Crash(proc[w]) /\ ~CancelCommit /\ (EnforceCancellations(proc[w]) => wk' = wk)
        BY <4>1, NoHarm DEF Solo
      <4> QED BY <2>2, <3>1, <4>1, <4>2, <4>3 DEF Turn
    <3> QED BY <2>3, <3>1, <3>2 DEF Holds
  <2>4. CASE task'[t] # task[t]
    <3>1. PICK w \in Workers :
             /\ wk[w].pc \notin {"idle", "gone"} /\ wk[w].job[1] = t
             /\ \/ Start(w) /\ task'[t] = "running"
                \/ HandlerSucceeds(w) /\ task'[t] = "success"
                \/ HandlerRetries(w) /\ task'[t] = "queued"
                \/ \E order \in RowOrders : Settle(w, order)
      <4>1. ~(task[t] = "pending")
        BY <2>1 DEF Solo, Unstarted
      <4> QED BY <2>1, <2>4, <4>1, SoloWrites
    <3>2. wk[w].job = j /\ Holds(w, j)
      BY <1>3, <3>1, InHand DEF Solo, OneLive
    <3>3. CASE HandlerSucceeds(w) /\ task'[t] = "success"
      <4>1. /\ wk' = [wk EXCEPT ![w].pc = "finishing", ![w].seen = "success", ![w].out = "success"]
        BY <3>3 DEF HandlerSucceeds
      <4>2. wk'[w].pc = "finishing" /\ wk'[w].out = "success" /\ wk'[w].job = j
        BY <3>2, <4>1 DEF Inv, Coroutines, Coroutine
      <4> QED BY <3>3, <4>2 DEF Holds
    <3> QED BY <2>2, <3>1, <3>2, <3>3
  <2> QED BY <2>3, <2>4
<1> QED BY <1>1, <1>2, <1>3, LiveStep

\* A task is released when what it depends on is satisfied in the table, and a
\* satisfied task is not run again.
LEMMA SoloDependencies ==
    ASSUME Single, Unharmed, Inv, Solo, [Next]_vars PROVE DependenciesRespected'
<1> SUFFICES ASSUME NEW t \in Tasks, NEW d \in deps[t],
                    task'[t] \in {"queued", "running", "success"}
             PROVE  task'[d] \in SATISFIED_STATES
  BY DEF DependenciesRespected
<1>0. d \in Tasks
  BY EngineAssumption
<1>1. ASSUME NEW w \in Workers, wk[w].pc \notin {"idle", "gone"}
      PROVE  \/ task[wk[w].job[1]] \in {"queued", "running"}
             \/ /\ task[wk[w].job[1]] = "success"
                /\ wk[w].pc \in {"finishing", "settling"} /\ wk[w].out = "success"
  BY <1>1, InHand DEF Solo, Handed, Single
<1>2. ASSUME task[d] \in SATISFIED_STATES PROVE task'[d] = task[d]
  <2> SUFFICES ASSUME task'[d] # task[d] PROVE FALSE
    OBVIOUS
  <2>1. Enqueued(d) /\ task[d] # "pending"
    BY <1>0, <1>2 DEF Solo, ByJob, SATISFIED_STATES
  <2>2. PICK w \in Workers :
           /\ wk[w].pc \notin {"idle", "gone"} /\ wk[w].job[1] = d
           /\ \/ Start(w) \/ HandlerSucceeds(w) \/ HandlerRetries(w)
              \/ wk[w].out # "success" /\ \E order \in RowOrders : Settle(w, order)
    BY <1>0, <2>1, SoloWrites
  <2>3. wk[w].pc \in {"finishing", "settling"} /\ wk[w].out = "success"
    BY <1>1, <1>2, <2>2 DEF SATISFIED_STATES
  <2> QED BY <2>2, <2>3 DEF Start, HandlerSucceeds, HandlerRetries
<1>3. CASE task[t] \in {"queued", "running", "success"}
  BY <1>2, <1>3 DEF Solo, DependenciesRespected
<1>4. CASE task[t] \notin {"queued", "running", "success"}
  <2>1. \/ \E w \in Workers, order \in RowOrders : Settle(w, order) /\ t \in Released(w, order)
        \/ \E order \in RowOrders : EnqueueCommit(order) /\ t \in Spawned(order)
    BY <1>1, <1>4, SoloWrites
  <2>2. ASSUME NEW w \in Workers, NEW order \in RowOrders, Settle(w, order),
               t \in Released(w, order)
        PROVE  task'[d] \in SATISFIED_STATES
    <3>1. /\ wk[w].pc = "settling" /\ wk[w].tasks[d] \in SATISFIED_STATES
          /\ wk[w].out \in {"success", "allowed"}
      BY <2>2, SettledView DEF Settle
    <3>2. CASE d # wk[w].job[1]
      <4>1. task[d] \in SATISFIED_STATES
        BY <1>0, <3>1, <3>2 DEF Solo, Current
      <4> QED BY <1>2, <4>1
    <3>3. CASE d = wk[w].job[1] /\ wk[w].out = "success"
      <4>1. task[d] = "success"
        BY <3>1, <3>3 DEF Solo, Succeeded
      <4> QED BY <1>2, <4>1 DEF SATISFIED_STATES
    <3>4. CASE d = wk[w].job[1] /\ wk[w].out = "allowed"
      <4>1. wk[w].seen = "running" /\ OutcomeStatus(wk[w].out) = "success"
        BY <3>1, <3>4 DEF Solo, Remembered, OutcomeStatus
      <4>2. task'[d] = "success"
        BY <1>0, <2>2, <3>4, <4>1, SettleWrites DEF Solo
      <4> QED BY <4>2 DEF SATISFIED_STATES
    <3> QED BY <3>1, <3>2, <3>3, <3>4
  <2>3. ASSUME NEW order \in RowOrders, EnqueueCommit(order), t \in Spawned(order)
        PROVE  FALSE
    BY <2>3, SpawnedRoots DEF Solo
  <2> QED BY <2>1, <2>2, <2>3
<1> QED BY <1>3, <1>4

\* DependenciesRespected, for any graph, with one worker that nothing happens
\* to: its session releases from a view that is the table.
THEOREM OneWorkerRespectsDependencies ==
    ASSUME Single, Unharmed
    PROVE  Spec => []DependenciesRespected
<1>0. Undisturbed
  BY DEF Unharmed, Undisturbed
<1>1. Init => Solo
  <2> SUFFICES ASSUME Init PROVE Solo
    OBVIOUS
  <2>1. /\ \A w \in Workers : wk[w].pc = "idle"
        /\ \A j \in Jobs : jstate[j] = "absent"
        /\ \A t \in Tasks : task[t] = "pending"
        /\ api.kind = "enqueue" /\ ~api.cancel /\ api.tasks = task
        /\ lapsed = {} /\ slips = 0 /\ Calm
    BY ClosedType, CalmInit DEF Init, Opened
  <2>2. \A t \in Tasks : ~Enqueued(t)
    BY <2>1 DEF Enqueued, Jobs
  <2>3. \A j \in Jobs : ~Live(j) /\ \A w \in Workers : ~Holds(w, j)
    BY <2>1 DEF Live, Holds
  <2> QED BY <2>1, <2>2, <2>3 DEF Solo, Held, OneLive, ByJob, OwnOutcome, Remembered,
       Spawning, LeasesKept, Succeeded, Current, Unstarted, Handed, DependenciesRespected
<1>2. Inv /\ Solo /\ [Next]_vars => Solo'
  <2> SUFFICES ASSUME Inv, Solo, [Next]_vars PROVE Solo'
    OBVIOUS
  <2>1. /\ Held /\ OwnOutcome /\ Remembered /\ Spawning /\ LeasesKept /\ Calm /\ Returned
    BY SuccessReturned DEF Solo
  <2>2. /\ Held' /\ OwnOutcome' /\ Remembered' /\ Spawning' /\ LeasesKept' /\ Calm'
    BY <1>0, <2>1, HeldStep, OwnOutcomeStep, RememberedStep, SpawningStep, LeasesStep, CalmStep
    DEF Undisturbed
  <2>3. OneLive' /\ ByJob' /\ Unstarted'
    BY SoloJobs
  <2>4. Current' /\ Succeeded'
    BY SoloSession
  <2>5. Handed' /\ DependenciesRespected'
    BY SoloHanded, SoloDependencies
  <2> QED BY <2>2, <2>3, <2>4, <2>5 DEF Solo
<1>3. Solo => DependenciesRespected
  BY DEF Solo
<1> QED BY <1>1, <1>2, <1>3, InvHolds, PTL DEF Spec
=============================================================================
