---------------------------- MODULE EngineProofs ----------------------------
(***************************************************************************)
(* Proofs about Engine, for any execution (tasks, dependencies, retries),  *)
(* any number of workers and processes, and any sequence of crashes, lost  *)
(* leases and API calls.                                                   *)
(***************************************************************************)
EXTENDS Engine, TLAPS, FiniteSetTheorems, WellFoundedInduction

-----------------------------------------------------------------------------
(***************************************************************************)
(* The loops of execution_service.py.  Each is a function over the rounds  *)
(* of the loop; what a loop preserves is shown by induction on the rounds. *)
(***************************************************************************)

\* Induction over an interval, for the set of the numbers that have a property.
LEMMA IntervalInduction ==
    ASSUME NEW L \in Nat, NEW S, 0 \in S,
           \A n \in 1..L : n - 1 \in S => n \in S
    PROVE  0..L \subseteq S
<1> DEFINE Bad == {n \in 0..L : n \notin S}
           Less == {ss \in Nat \X Nat : ss[1] < ss[2]}
<1>0. IsWellFoundedOn(Less, Nat)
  BY NatLessThanWellFounded DEF OpToRel
<1>1. ASSUME Bad # {} PROVE FALSE
  <2>1. PICK x \in Bad : \A y \in Bad : <<y, x>> \notin Less
    <3>1. Bad \subseteq Nat
      OBVIOUS
    <3> HIDE DEF Bad, Less
    <3> QED BY <1>0, <1>1, <3>1, WFMin
  <2>2. x \in 1..L /\ x - 1 \in Nat /\ x - 1 < x
    BY <2>1
  <2>3. <<x - 1, x>> \in Less
    BY <2>2
  <2>4. x - 1 \notin Bad
    BY <2>1, <2>3
  <2> QED BY <2>1, <2>2, <2>4
<1> QED BY <1>1

\* f is s followed by what the steps G make of it.
Solves(f, L, T, s, G) ==
    f \in [0..L -> T] /\ f[0] = s /\ \A n \in 1..L : f[n] = G[n][f[n - 1]]

\* A recursion over an interval whose steps stay in T has a solution in T.
LEMMA Recursion ==
    ASSUME NEW L \in Nat, NEW T, NEW s \in T, NEW G \in [1..L -> [T -> T]]
    PROVE  \E f : Solves(f, L, T, s, G)
<1> DEFINE Loop(f, m) == f[0] = s /\ \A n \in 1..m : f[n] = G[n][f[n - 1]]
           S == {m \in 0..L : \E f \in [0..m -> T] : Loop(f, m)}
<1>1. 0 \in S
  <2> DEFINE f == [n \in 0..0 |-> s]
  <2>1. f \in [0..0 -> T]
    OBVIOUS
  <2>2. Loop(f, 0)
    OBVIOUS
  <2> HIDE DEF f, Loop
  <2> QED BY <2>1, <2>2
<1>2. ASSUME NEW m \in 1..L, m - 1 \in S PROVE m \in S
  <2>1. PICK f \in [0..(m - 1) -> T] : Loop(f, m - 1)
    BY <1>2
  <2> DEFINE g == [n \in 0..m |-> IF n = m THEN G[m][f[m - 1]] ELSE f[n]]
  <2>2. f[m - 1] \in T
    OBVIOUS
  <2>3. g \in [0..m -> T]
    BY <2>2
  <2>4. g[0] = s
    BY <2>1
  <2>5. ASSUME NEW n \in 1..m PROVE g[n] = G[n][g[n - 1]]
    <3>1. CASE n = m
      BY <3>1
    <3>2. CASE n \in 1..(m - 1)
      BY <3>2, <2>1
    <3> QED BY <3>1, <3>2
  <2>6. Loop(g, m)
    BY <2>4, <2>5
  <2> HIDE DEF g, Loop
  <2> QED BY <2>3, <2>6
<1> HIDE DEF S
<1>3. 0..L \subseteq S
  BY <1>1, <1>2, IntervalInduction
<1>4. L \in S
  BY <1>3
<1> QED BY <1>4 DEF S, Solves

\* A task status of a session's view.
View == [Tasks -> TaskState]

\* enqueue_ready_tasks keeps an item's status within the enumeration.
LEMMA AdvanceType ==
    ASSUME NEW ts \in View, NEW t \in Tasks
    PROVE  [ts EXCEPT ![t] = Advance(ts, t)] \in View
BY DEF View, Advance, TaskState

\* The pass of enqueue_ready_tasks, item by item.
LEMMA PassRounds ==
    ASSUME NEW ts \in View, NEW order \in Seq(Tasks)
    PROVE  \E f \in [0..Len(order) -> View] :
              /\ f[0] = ts
              /\ \A n \in 1..Len(order) :
                    f[n] = [f[n - 1] EXCEPT ![order[n]] = Advance(f[n - 1], order[n])]
              /\ Pass(ts, order) = f[Len(order)]
<1> DEFINE L == Len(order)
           Round(x, n) == [x EXCEPT ![order[n]] = Advance(x, order[n])]
           Is(h) == h = [n \in 0..L |-> IF n = 0 THEN ts ELSE Round(h[n - 1], n)]
<1>1. L \in Nat
  OBVIOUS
<1>2. ASSUME NEW n \in 1..L, NEW x \in View PROVE Round(x, n) \in View
  BY AdvanceType
<1>3. Pass(ts, order) = (CHOOSE h : Is(h))[L]
  BY DEF Pass
<1>4. \E h : Is(h)
  <2> DEFINE G == [n \in 1..L |-> [x \in View |-> Round(x, n)]]
  <2> HIDE DEF L, Round
  <2>1. G \in [1..L -> [View -> View]]
    BY <1>2
  <2> HIDE DEF G
  <2>2. PICK f : Solves(f, L, View, ts, G)
    BY <1>1, <2>1, Recursion
  <2>3. ASSUME NEW n \in 0..L PROVE f[n] = IF n = 0 THEN ts ELSE Round(f[n - 1], n)
    <3>1. CASE n = 0
      BY <2>2, <3>1 DEF Solves
    <3>2. CASE n \in 1..L
      <4>1. f[n - 1] \in View
        BY <1>1, <2>2, <3>2 DEF Solves
      <4>2. G[n][f[n - 1]] = Round(f[n - 1], n)
        BY <3>2, <4>1 DEF G
      <4> QED BY <1>1, <2>2, <3>2, <4>2 DEF Solves
    <3> QED BY <1>1, <3>1, <3>2
  <2>4. Is(f)
    BY <2>2, <2>3 DEF Solves
  <2> QED BY <2>4
<1>5. PICK h : Is(h) /\ Pass(ts, order) = h[L]
  BY <1>3, <1>4
<1>6. h[0] = ts /\ \A n \in 1..L : h[n] = Round(h[n - 1], n)
  <2> HIDE DEF L, Round
  <2> QED BY <1>1, <1>5
<1>7. 0..L \subseteq {n \in 0..L : h[n] \in View}
  <2> HIDE DEF L, Round
  <2> DEFINE S == {n \in 0..L : h[n] \in View}
  <2>1. 0 \in S
    BY <1>1, <1>6
  <2>2. \A n \in 1..L : n - 1 \in S => n \in S
    BY <1>1, <1>2, <1>6
  <2> HIDE DEF S
  <2>3. 0..L \subseteq S
    BY <1>1, <2>1, <2>2, IntervalInduction
  <2> QED BY <2>3 DEF S
<1>8. h \in [0..L -> View]
  BY <1>5, <1>7
<1> QED BY <1>5, <1>6, <1>8

\* enqueue_ready_tasks hands out a task only when the session's view shows all
\* it depends on satisfied, and changes pending tasks only: what the pass does
\* to one item cannot release another.
THEOREM PassReleasesReady ==
    ASSUME NEW ts \in View, NEW order \in Seq(Tasks)
    PROVE  /\ Pass(ts, order) \in View
           /\ \A t \in Tasks : Pass(ts, order)[t] # ts[t] =>
                 ts[t] = "pending" /\ Pass(ts, order)[t] \in {"queued", "failed", "cancelled"}
           /\ \A t \in NewlyQueued(ts, Pass(ts, order)) :
                 \A d \in deps[t] : ts[d] \in SATISFIED_STATES
<1> DEFINE L == Len(order)
           Changes(x) == \A t \in Tasks : x[t] # ts[t] =>
                            ts[t] = "pending" /\ x[t] \in {"queued", "failed", "cancelled"}
           Releases(x) == \A t \in Tasks : (ts[t] = "pending" /\ x[t] = "queued") =>
                             \A d \in deps[t] : ts[d] \in SATISFIED_STATES
<1>1. PICK f \in [0..L -> View] :
         /\ f[0] = ts
         /\ \A n \in 1..L : f[n] = [f[n - 1] EXCEPT ![order[n]] = Advance(f[n - 1], order[n])]
         /\ Pass(ts, order) = f[L]
  BY PassRounds
<1> DEFINE S == {n \in 0..L : Changes(f[n]) /\ Releases(f[n])}
<1>2. L \in Nat
  OBVIOUS
<1>3. 0 \in S
  BY <1>1, <1>2
<1>4. ASSUME NEW n \in 1..L, n - 1 \in S PROVE n \in S
  <2> DEFINE x == f[n - 1]
             t == order[n]
  <2>1. x \in View /\ Changes(x) /\ Releases(x) /\ t \in Tasks /\ n \in 0..L
    BY <1>2, <1>4
  <2>2. f[n] = [x EXCEPT ![t] = Advance(x, t)]
    BY <1>1
  <2> HIDE DEF x, t, L
  <2>3. \A d \in Tasks : x[d] \in SATISFIED_STATES => ts[d] \in SATISFIED_STATES
    BY <2>1 DEF SATISFIED_STATES
  <2>4. \/ Advance(x, t) = x[t]
        \/ x[t] = "pending" /\ Advance(x, t) \in {"failed", "cancelled"}
        \/ /\ x[t] = "pending" /\ Advance(x, t) = "queued"
           /\ \A d \in deps[t] : ts[d] \in SATISFIED_STATES
    BY <2>1, <2>3, EngineAssumption DEF Advance
  <2>5. x[t] = "pending" => ts[t] = "pending"
    BY <2>1
  <2>6. \A u \in Tasks : f[n][u] = IF u = t THEN Advance(x, t) ELSE x[u]
    BY <2>1, <2>2 DEF View
  <2>7. Changes(f[n])
    BY <2>1, <2>4, <2>5, <2>6
  <2>8. Releases(f[n])
    BY <2>1, <2>4, <2>6
  <2> QED BY <2>1, <2>7, <2>8
<1> HIDE DEF S
<1>5. 0..L \subseteq S
  BY <1>2, <1>3, <1>4, IntervalInduction
<1>6. Changes(f[L]) /\ Releases(f[L]) /\ f[L] \in View
  BY <1>2, <1>5 DEF S
<1> QED BY <1>1, <1>6 DEF NewlyQueued

\* enqueue_ready_tasks, in either mode, on well-typed tasks.
LEMMA EnqueueReadyType ==
    ASSUME NEW ts \in View, NEW order \in Seq(Tasks), NEW cr \in BOOLEAN
    PROVE  EnqueueReady(ts, cr, order) \in View
<1>1. [t \in Tasks |-> IF ts[t] \in ACTIVE_STATES THEN "cancelled" ELSE ts[t]] \in View
  BY DEF View, TaskState
<1> QED BY <1>1, PassReleasesReady DEF EnqueueReady

\* The rounds of _fail_downstream.
FailRound(x) ==
    [t \in Tasks |-> IF x[t] = "pending" /\ \E d \in deps[t] : x[d] = "failed"
                     THEN "failed" ELSE x[t]]

\* _fail_downstream is so many rounds, each from the result of the one before.
LEMMA FailRounds ==
    ASSUME NEW ts \in View
    PROVE  \E f \in [0..Cardinality(Tasks) -> View] :
              /\ f[0] = ts
              /\ \A n \in 1..Cardinality(Tasks) : f[n] = FailRound(f[n - 1])
              /\ FailDownstream(ts) = f[Cardinality(Tasks)]
<1> DEFINE L == Cardinality(Tasks)
           Is(h) == h = [n \in 0..L |-> IF n = 0 THEN ts ELSE FailRound(h[n - 1])]
<1>1. L \in Nat
  BY EngineAssumption, FS_CardinalityType
<1>2. ASSUME NEW x \in View PROVE FailRound(x) \in View
  BY DEF FailRound, View, TaskState
<1>3. FailDownstream(ts) = (CHOOSE h : Is(h))[L]
  BY DEF FailDownstream, FailRound
<1> HIDE DEF L
<1>4. \E h : Is(h)
  <2> DEFINE G == [n \in 1..L |-> [x \in View |-> FailRound(x)]]
  <2>1. G \in [1..L -> [View -> View]]
    BY <1>2
  <2> HIDE DEF G
  <2>2. PICK f : Solves(f, L, View, ts, G)
    BY <1>1, <2>1, Recursion
  <2>3. ASSUME NEW n \in 0..L PROVE f[n] = IF n = 0 THEN ts ELSE FailRound(f[n - 1])
    <3>1. CASE n = 0
      BY <2>2, <3>1 DEF Solves
    <3>2. CASE n \in 1..L
      <4>1. f[n - 1] \in View
        BY <1>1, <2>2, <3>2 DEF Solves
      <4>2. G[n][f[n - 1]] = FailRound(f[n - 1])
        BY <3>2, <4>1 DEF G
      <4> QED BY <1>1, <2>2, <3>2, <4>2 DEF Solves
    <3> QED BY <1>1, <3>1, <3>2
  <2>4. Is(f)
    BY <2>2, <2>3 DEF Solves
  <2> QED BY <2>4
<1>5. PICK h : Is(h) /\ FailDownstream(ts) = h[L]
  BY <1>3, <1>4
<1>6. h[0] = ts /\ \A n \in 1..L : h[n] = FailRound(h[n - 1])
  BY <1>1, <1>5
<1> DEFINE S == {n \in 0..L : h[n] \in View}
<1>7. 0 \in S /\ \A n \in 1..L : n - 1 \in S => n \in S
  BY <1>1, <1>2, <1>6
<1> HIDE DEF S
<1>8. 0..L \subseteq S
  BY <1>1, <1>7, IntervalInduction
<1>9. h \in [0..L -> View]
  BY <1>5, <1>8 DEF S
<1> QED BY <1>5, <1>6, <1>9 DEF L

\* No pending task depends on a failed one.
Closure(x) == \A t \in Tasks : x[t] = "pending" => \A d \in deps[t] : x[d] # "failed"

\* _fail_downstream fails pending tasks only, each below a failed one, and is
\* done when it returns: as many rounds as there are tasks are enough.
THEOREM FailDownstreamCloses ==
    ASSUME NEW ts \in View
    PROVE  /\ FailDownstream(ts) \in View
           /\ Closure(FailDownstream(ts))
           /\ \A t \in Tasks : FailDownstream(ts)[t] # ts[t] =>
                 /\ ts[t] = "pending" /\ FailDownstream(ts)[t] = "failed"
                 /\ \E d \in deps[t] : FailDownstream(ts)[d] = "failed"
<1> DEFINE L == Cardinality(Tasks)
           Pending(x) == {t \in Tasks : x[t] = "pending"}
           Blamed(x) == \A t \in Tasks : x[t] # ts[t] =>
                            /\ ts[t] = "pending" /\ x[t] = "failed"
                            /\ \E d \in deps[t] : x[d] = "failed"
           Little(x, n) == Closure(x) \/ Cardinality(Pending(x)) <= L - n
<1>1. PICK f \in [0..L -> View] :
         /\ f[0] = ts
         /\ \A n \in 1..L : f[n] = FailRound(f[n - 1])
         /\ FailDownstream(ts) = f[L]
  BY FailRounds
<1> DEFINE S == {n \in 0..L : Blamed(f[n]) /\ Little(f[n], n)}
<1>2. L \in Nat
  BY EngineAssumption, FS_CardinalityType
<1>3. \A x : /\ IsFiniteSet(Pending(x)) /\ Cardinality(Pending(x)) \in Nat
             /\ Cardinality(Pending(x)) <= L
  BY EngineAssumption, FS_Subset, FS_CardinalityType
<1>4. 0 \in S
  <2>1. Blamed(f[0])
    BY <1>1
  <2> HIDE DEF Pending, Blamed
  <2>2. Cardinality(Pending(f[0])) <= L - 0
    BY <1>2, <1>3
  <2> QED BY <1>2, <2>1, <2>2
<1>5. ASSUME NEW n \in 1..L, n - 1 \in S PROVE n \in S
  <2> DEFINE x == f[n - 1]
             y == f[n]
  <2> HIDE DEF Pending
  <2>1. x \in View /\ Blamed(x) /\ Little(x, n - 1) /\ n \in 0..L /\ n - 1 \in Nat
    BY <1>2, <1>5
  <2>2. y = FailRound(x)
    BY <1>1
  <2> HIDE DEF x, y, L
  <2>3. \A t \in Tasks : y[t] = IF x[t] = "pending" /\ \E d \in deps[t] : x[d] = "failed"
                                THEN "failed" ELSE x[t]
    BY <2>2 DEF FailRound
  <2>4. \A d \in Tasks : x[d] = "failed" => y[d] = "failed"
    BY <2>3
  <2>5. Blamed(y)
    BY <2>1, <2>3, <2>4, EngineAssumption
  <2>6. CASE Closure(x)
    <3>1. y = x
      BY <2>1, <2>2, <2>6 DEF FailRound, Closure, View
    <3> HIDE DEF Blamed
    <3> QED BY <2>1, <2>5, <2>6, <3>1 DEF y
  <2>7. CASE ~Closure(x)
    <3>1. PICK t \in Tasks : x[t] = "pending" /\ \E d \in deps[t] : x[d] = "failed"
      BY <2>7 DEF Closure
    <3>2. t \in Pending(x) /\ Pending(y) \subseteq Pending(x) \ {t}
      BY <2>3, <3>1 DEF Pending
    <3>3. Cardinality(Pending(x) \ {t}) = Cardinality(Pending(x)) - 1
      BY <1>3, <3>2, FS_RemoveElement
    <3>4. Cardinality(Pending(y)) <= Cardinality(Pending(x)) - 1
      BY <1>3, <3>2, <3>3, FS_RemoveElement, FS_Subset
    <3>5. Cardinality(Pending(y)) <= L - n
      BY <1>2, <1>3, <2>1, <2>7, <3>4
    <3> HIDE DEF Blamed
    <3> QED BY <2>1, <2>5, <3>5 DEF y
  <2> QED BY <2>6, <2>7
<1> HIDE DEF S
<1>6. 0..L \subseteq S
  BY <1>2, <1>4, <1>5, IntervalInduction
<1>7. Blamed(f[L]) /\ Little(f[L], L) /\ f[L] \in View
  <2> HIDE DEF Pending, Blamed, Little
  <2> QED BY <1>2, <1>6 DEF S
<1>8. Closure(f[L])
  <2>1. CASE Cardinality(Pending(f[L])) <= L - L
    <3>1. Cardinality(Pending(f[L])) = 0
      <4> HIDE DEF Pending
      <4> QED BY <1>2, <1>3, <2>1
    <3>2. Pending(f[L]) = {}
      BY <1>3, <3>1, FS_EmptySet
    <3> QED BY <3>2 DEF Closure
  <2> QED BY <1>7, <2>1
<1> QED BY <1>1, <1>7, <1>8

-----------------------------------------------------------------------------
(***************************************************************************)
(* The transactional outbox.                                               *)
(***************************************************************************)

\* A transaction that writes the status keeps the outbox complete, whatever
\* status its session had read.
LEMMA WriteStatusAnnounces ==
    ASSUME OutboxComplete, NEW read, NEW new, WriteStatus(read, new)
    PROVE  OutboxComplete'
BY DEF OutboxComplete, WriteStatus

\* No transaction leaves a terminal status in the table without its event.
THEOREM OutboxCompletes == Spec => []OutboxComplete
<1>1. Init => OutboxComplete
  BY DEF Init, OutboxComplete, TERMINAL_EXECUTION_STATES
<1>2. ASSUME OutboxComplete, [Next]_vars PROVE OutboxComplete'
  <2>1. CASE UNCHANGED <<status, outbox>>
    BY <1>2, <2>1 DEF OutboxComplete
  <2>2. ASSUME NEW w \in Workers, LoadCancelled(w) PROVE OutboxComplete'
    <3>1. UNCHANGED <<status, outbox>> \/ \E read, new : WriteStatus(read, new)
      BY <2>2 DEF LoadCancelled
    <3> QED BY <1>2, <2>1, <3>1, WriteStatusAnnounces
  <2>3. ASSUME NEW w \in Workers, NEW order \in RowOrders, Settle(w, order)
        PROVE  OutboxComplete'
    <3>1. \E read, new : WriteStatus(read, new)
      BY <2>3 DEF Settle
    <3> QED BY <1>2, <3>1, WriteStatusAnnounces
  <2>4. ASSUME NEW p \in Procs, ServiceCommit(p) PROVE OutboxComplete'
    <3>1. \E read, new : WriteStatus(read, new)
      BY <2>4 DEF ServiceCommit
    <3> QED BY <1>2, <3>1, WriteStatusAnnounces
  <2>5. CASE CancelCommit
    <3>1. \E read, new : WriteStatus(read, new)
      BY <2>5 DEF CancelCommit
    <3> QED BY <1>2, <3>1, WriteStatusAnnounces
  <2>6. CASE RetryCommit
    <3>1. status' \in {"running", status} /\ outbox' = outbox
      BY <2>6 DEF RetryCommit
    <3> QED BY <1>2, <3>1 DEF OutboxComplete, TERMINAL_EXECUTION_STATES
  <2>7. ASSUME NEW order \in RowOrders, EnqueueCommit(order) PROVE OutboxComplete'
    <3>1. \E read, new : WriteStatus(read, new)
      BY <2>7 DEF EnqueueCommit
    <3> QED BY <1>2, <3>1, WriteStatusAnnounces
  <2>8. ASSUME NEW w \in Workers,
               \/ \E j \in Jobs : Claim(w, j)
               \/ LoadTerminal(w) \/ LoadTask(w) \/ Start(w) \/ Launch(w)
               \/ HandlerSucceeds(w) \/ HandlerRetries(w) \/ HandlerFails(w)
               \/ HandlerInterrupted(w) \/ Collect(w) \/ DequeueRequeue(w)
               \/ ProcessDeadLetters(w) \/ SlipLease(w)
        PROVE  UNCHANGED <<status, outbox>>
    BY <2>8 DEF Claim, LoadTerminal, LoadTask, Start, Launch, HandlerSucceeds, HandlerRetries,
       HandlerFails, HandlerInterrupted, Collect, DequeueRequeue, ProcessDeadLetters, SlipLease, db
  <2>9. ASSUME NEW p \in Procs,
               \/ \E t \in Tasks : DeadLetterLoad(p, t)
               \/ WatchdogStep(p) \/ Crash(p)
        PROVE  UNCHANGED <<status, outbox>>
    BY <2>9 DEF DeadLetterLoad, WatchdogStep, WatchdogRequeue, WatchdogDrain, Crash, db,
       EnforceCancellations, ReapHungTasks, FinalizeOrphaned
  <2>10. ASSUME SkipCommit \/ (\E c \in Calls : ApiCall(c)) \/ UNCHANGED vars
         PROVE  UNCHANGED <<status, outbox>>
    BY <2>10 DEF SkipCommit, ApiCall, vars, db
  <2> QED
    BY <1>2, <2>1, <2>2, <2>3, <2>4, <2>5, <2>6, <2>7, <2>8, <2>9, <2>10
       DEF Next, WorkerStep, LetterStep, ApiStep
<1> QED BY <1>1, <1>2, PTL DEF Spec

-----------------------------------------------------------------------------
(***************************************************************************)
(* The inductive invariant behind the types and the life cycle of jobs.    *)
(* What a transaction writes comes from its session, so the sessions are   *)
(* typed too; what it acknowledges is a job its worker was given, so a     *)
(* worker that is not idle has a row in queue_jobs; and a job it enqueues  *)
(* is new, which holds because a task's jobs are numbered without gaps.    *)
(***************************************************************************)
ExecutionState == TERMINAL_EXECUTION_STATES \cup {"running"}
Outcome == {"success", "allowed", "failed", "cancelled"}

Coroutine ==
    [pc : {"idle", "gone", "claimed", "loaded", "started", "running", "interrupted",
           "finishing", "settling"},
     job : Jobs \cup {None}, seen : TaskState \cup {None}, ret : Nat,
     ex : ExecutionState \cup {None}, out : Outcome \cup {None}, tasks : View \cup {None}]

Session ==
    [kind : {"closed", "dead", "finalize", "enqueue", "cancel", "retry", "skip"},
     task : Tasks \cup {None}, tasks : View \cup {None},
     rets : [Tasks -> Nat] \cup {None}, ex : ExecutionState \cup {None}, cancel : BOOLEAN]

\* The rows of the execution and of its tasks.
Tables ==
    /\ task \in View
    /\ retries \in [Tasks -> Nat]
    /\ status \in ExecutionState
    /\ cancel \in BOOLEAN
    /\ outbox \subseteq TERMINAL_EXECUTION_STATES

\* The rows of queue_jobs.
JobRows ==
    /\ jstate \in [Jobs -> Lifecycle!States]
    /\ attempts \in [Jobs -> Nat]
    /\ dead \in [Jobs -> BOOLEAN]
    /\ lapsed \subseteq Jobs
    /\ \A j \in Jobs : /\ jstate[j] = "absent" => attempts[j] = 0
                       /\ jstate[j] = "queued" => attempts[j] < PoisonMaxAttempts
    /\ \A t \in Tasks : \A n \in 1..MaxJobs : jstate[<<t, n>>] # "absent" =>
           \A m \in 1..n : jstate[<<t, m>>] # "absent"

\* The workers: what a coroutine has read, and the job it was given.
Coroutines ==
    /\ wk \in [Workers -> Coroutine]
    /\ \A w \in Workers :
           /\ wk[w].pc \notin {"idle", "gone"} =>
                  wk[w].job \in Jobs /\ jstate[wk[w].job] # "absent"
           /\ wk[w].pc \in {"finishing", "settling"} => wk[w].out \in Outcome
           /\ wk[w].pc = "settling" => wk[w].tasks \in View

\* What the sessions of the processes and of the API have read.
Sessions ==
    /\ cancelling \in [Procs -> BOOLEAN]
    /\ buffer \in [Procs -> SUBSET Jobs]
    /\ letters \in [Procs -> SUBSET Tasks]
    /\ svc \in [Procs -> Session]
    /\ \A p \in Procs : svc[p].kind # "closed" =>
           svc[p].tasks \in View /\ (svc[p].kind = "dead" => svc[p].task \in Tasks)
    /\ api \in Session
    /\ api.kind # "closed" => api.tasks \in View /\ api.rets \in [Tasks -> Nat]
    /\ api.kind \in {"retry", "skip"} => api.task \in Tasks
    /\ calls \subseteq Calls

Inv == Tables /\ JobRows /\ Coroutines /\ Sessions

-----------------------------------------------------------------------------
(***************************************************************************)
(* The job table.                                                          *)
(***************************************************************************)

\* The next job of a task is new, and the ones before it are not.
LEMMA FreshJobIsNew ==
    ASSUME JobRows, NEW t \in Tasks, FreshJob(t) \in Jobs
    PROVE  \E k \in 1..MaxJobs :
              /\ FreshJob(t) = <<t, k>>
              /\ jstate[<<t, k>>] = "absent"
              /\ \A n \in 1..(k - 1) : jstate[<<t, n>>] # "absent"
<1> DEFINE S == {n \in 1..MaxJobs : jstate[<<t, n>>] # "absent"}
           k == 1 + Cardinality(S)
<1>1. MaxJobs \in Nat /\ S \subseteq 1..MaxJobs
  BY EngineAssumption
<1>2. \A n \in S : \A m \in 1..n : m \in S
  BY <1>1 DEF JobRows
<1>3. FreshJob(t) = <<t, k>> /\ k \in 1..MaxJobs
  BY DEF FreshJob, Jobs
<1> HIDE DEF S
<1>4. IsFiniteSet(S) /\ Cardinality(S) \in Nat
  <2>1. IsFiniteSet(1..MaxJobs)
    BY <1>1, FS_Interval
  <2>2. IsFiniteSet(S)
    BY <1>1, <2>1, FS_Subset
  <2> QED BY <2>2, FS_CardinalityType
<1>5. k \notin S
  <2> SUFFICES ASSUME k \in S PROVE FALSE
    OBVIOUS
  <2>1. 1..k \subseteq S
    BY <1>2
  <2>2. Cardinality(1..k) = k
    BY <1>4, FS_Interval
  <2>3. Cardinality(1..k) <= Cardinality(S)
    BY <1>4, <2>1, FS_Subset
  <2> QED BY <1>4, <2>2, <2>3
<1>6. ASSUME NEW n \in 1..(k - 1) PROVE n \in S
  <2> SUFFICES ASSUME n \notin S PROVE FALSE
    OBVIOUS
  <2>1. n \in Nat \ {0} /\ n <= Cardinality(S)
    BY <1>4
  <2>2. S \subseteq 1..(n - 1)
    <3> SUFFICES ASSUME NEW m \in S PROVE m < n
      BY <1>1, <2>1
    <3> QED BY <1>1, <1>2, <2>1
  <2>3. IsFiniteSet(1..(n - 1)) /\ Cardinality(1..(n - 1)) = n - 1
    BY <2>1, FS_Interval
  <2>4. Cardinality(S) <= n - 1
    BY <2>2, <2>3, FS_Subset
  <2> QED BY <1>4, <2>1, <2>4
<1>7. /\ jstate[<<t, k>>] = "absent"
      /\ \A n \in 1..(k - 1) : jstate[<<t, n>>] # "absent"
  BY <1>3, <1>5, <1>6 DEF S
<1> HIDE DEF k
<1> QED BY <1>3, <1>7

\* A transaction moves every job along its life cycle, and no row disappears.
JobsMove ==
    /\ JobRows'
    /\ Lifecycle!LNext
    /\ \A j \in Jobs : jstate[j] # "absent" => jstate'[j] # "absent"

\* Acknowledging jobs that were given out, and enqueueing new ones.
LEMMA AckAndEnqueueMoves ==
    ASSUME JobRows, NEW A \in SUBSET Jobs, \A j \in A : jstate[j] # "absent",
           NEW Q \in SUBSET Tasks, RoomFor(Q),
           jstate' = AckAndEnqueue(A, Q), UNCHANGED <<attempts, dead, lapsed>>
    PROVE  JobsMove
<1> DEFINE Fresh == {FreshJob(t) : t \in Q}
<1>1. \A j \in Fresh : j \in Jobs /\ jstate[j] = "absent"
  BY FreshJobIsNew DEF RoomFor
<1>2. \A j \in Jobs : jstate'[j] = IF j \in A /\ jstate[j] # "cancelled" THEN "completed"
                                  ELSE IF j \in Fresh THEN "queued" ELSE jstate[j]
  BY DEF AckAndEnqueue
<1>3. \A t \in Tasks, n \in 1..MaxJobs : <<t, n>> \in Fresh =>
          \A m \in 1..(n - 1) : jstate[<<t, m>>] # "absent"
  <2> SUFFICES ASSUME NEW t \in Tasks, NEW n \in 1..MaxJobs, <<t, n>> \in Fresh
               PROVE  \A m \in 1..(n - 1) : jstate[<<t, m>>] # "absent"
    OBVIOUS
  <2>1. PICK u \in Q : <<t, n>> = FreshJob(u) /\ FreshJob(u) \in Jobs
    BY DEF RoomFor
  <2>2. PICK k \in 1..MaxJobs : /\ FreshJob(u) = <<u, k>>
                                /\ \A m \in 1..(k - 1) : jstate[<<u, m>>] # "absent"
    BY <2>1, FreshJobIsNew
  <2> QED BY <2>1, <2>2
<1> HIDE DEF Fresh
<1>4. \A j \in Jobs : jstate[j] # "absent" => jstate'[j] # "absent"
  BY <1>1, <1>2
<1>5. jstate' \in [Jobs -> Lifecycle!States]
  BY <1>2 DEF AckAndEnqueue, JobRows, Lifecycle!States
<1>6. \A j \in Jobs : /\ jstate'[j] = "absent" => attempts[j] = 0
                      /\ jstate'[j] = "queued" => attempts[j] < PoisonMaxAttempts
  BY <1>1, <1>2, EngineAssumption DEF JobRows
<1>7. ASSUME NEW t \in Tasks, NEW n \in 1..MaxJobs, jstate'[<<t, n>>] # "absent",
             NEW m \in 1..n
      PROVE  jstate'[<<t, m>>] # "absent"
  <2>0. MaxJobs \in Nat /\ <<t, n>> \in Jobs /\ <<t, m>> \in Jobs
    BY EngineAssumption DEF Jobs
  <2>1. CASE m = n
    BY <1>7, <2>1
  <2>2. CASE m # n /\ <<t, n>> \in Fresh
    BY <1>3, <1>4, <2>0, <2>2
  <2>3. CASE <<t, n>> \notin Fresh
    <3>1. jstate[<<t, n>>] # "absent"
      BY <1>2, <1>7, <2>0, <2>3
    <3> QED BY <1>4, <2>0, <3>1 DEF JobRows
  <2> QED BY <2>1, <2>2, <2>3
<1>8. JobRows'
  BY <1>5, <1>6, <1>7 DEF JobRows
<1>9. ASSUME NEW j \in Jobs PROVE Lifecycle!Moves(j)
  <2>1. CASE j \in A /\ jstate[j] # "cancelled"
    BY <1>2, <2>1 DEF Lifecycle!Moves, Lifecycle!IsSettled, Lifecycle!Keeps, JobRows,
       Lifecycle!States
  <2>2. CASE j \in Fresh /\ ~(j \in A /\ jstate[j] # "cancelled")
    BY <1>1, <1>2, <2>2 DEF Lifecycle!Moves, Lifecycle!Enters, Lifecycle!Keeps
  <2>3. CASE j \notin Fresh /\ ~(j \in A /\ jstate[j] # "cancelled")
    BY <1>2, <2>3 DEF Lifecycle!Moves, Lifecycle!Stays, Lifecycle!Keeps
  <2> QED BY <2>1, <2>2, <2>3
<1> QED BY <1>4, <1>8, <1>9 DEF JobsMove, Lifecycle!LNext

\* A claim: the attempt that the poison limit leaves.
LEMMA ClaimMoves ==
    ASSUME JobRows, NEW w \in Workers, NEW j \in Jobs, Claim(w, j)
    PROVE  JobsMove
<1>1. /\ jstate[j] = "queued" /\ attempts[j] \in Nat /\ attempts[j] < PoisonMaxAttempts
      /\ dead' = dead /\ lapsed' = lapsed \ {j}
  BY DEF Claim, JobRows
<1>2. \A i \in Jobs : /\ jstate'[i] = IF i = j THEN "leased" ELSE jstate[i]
                      /\ attempts'[i] = IF i = j THEN attempts[j] + 1 ELSE attempts[i]
  BY DEF Claim, JobRows
<1>3. /\ jstate' \in [Jobs -> Lifecycle!States] /\ attempts' \in [Jobs -> Nat]
      /\ dead' \in [Jobs -> BOOLEAN] /\ lapsed' \subseteq Jobs
  BY DEF Claim, JobRows, Lifecycle!States
<1>4. \A i \in Jobs : (jstate'[i] = "absent") = (jstate[i] = "absent")
  BY <1>1, <1>2
<1>5. \A i \in Jobs : /\ jstate'[i] = "absent" => attempts'[i] = 0
                      /\ jstate'[i] = "queued" => attempts'[i] < PoisonMaxAttempts
  BY <1>2 DEF JobRows
<1>6. \A t \in Tasks, n \in 1..MaxJobs : \A m \in 1..n : <<t, m>> \in Jobs /\ <<t, n>> \in Jobs
  BY EngineAssumption DEF Jobs
<1>7. JobRows'
  BY <1>3, <1>4, <1>5, <1>6 DEF JobRows
<1>8. ASSUME NEW i \in Jobs PROVE Lifecycle!Moves(i)
  BY <1>1, <1>2 DEF Lifecycle!Moves, Lifecycle!IsDelivered, Lifecycle!Stays, Lifecycle!Keeps
<1> QED BY <1>4, <1>7, <1>8 DEF JobsMove, Lifecycle!LNext

\* A pass of the reaper over leased rows.
LEMMA RequeueMoves ==
    ASSUME JobRows, NEW p, NEW E \in SUBSET Jobs, \A j \in E : jstate[j] = "leased",
           Requeue(p, E), UNCHANGED attempts
    PROVE  JobsMove
<1> DEFINE D == {j \in E : attempts[j] >= PoisonMaxAttempts}
<1>1. \A j \in Jobs : /\ jstate'[j] = IF j \in D THEN "failed"
                                     ELSE IF j \in E THEN "queued" ELSE jstate[j]
                      /\ dead'[j] = (j \in D \/ dead[j])
  BY DEF Requeue
<1>2. /\ jstate' \in [Jobs -> Lifecycle!States] /\ dead' \in [Jobs -> BOOLEAN]
      /\ lapsed' \subseteq Jobs
  BY DEF Requeue, JobRows, Lifecycle!States
<1>3. \A j \in Jobs : (jstate'[j] = "absent") = (jstate[j] = "absent")
  BY <1>1
<1>4. \A j \in Jobs : /\ jstate'[j] = "absent" => attempts'[j] = 0
                      /\ jstate'[j] = "queued" => attempts'[j] < PoisonMaxAttempts
  <2> SUFFICES ASSUME NEW j \in Jobs
               PROVE  /\ jstate'[j] = "absent" => attempts[j] = 0
                      /\ jstate'[j] = "queued" => attempts[j] < PoisonMaxAttempts
    OBVIOUS
  <2>1. attempts[j] \in Nat /\ PoisonMaxAttempts \in Nat \ {0}
    BY EngineAssumption DEF JobRows
  <2>2. CASE j \in E
    BY <1>1, <2>1, <2>2
  <2>3. CASE j \notin E
    BY <1>1, <2>3 DEF JobRows
  <2> QED BY <2>2, <2>3
<1>5. \A t \in Tasks, n \in 1..MaxJobs : \A m \in 1..n : <<t, m>> \in Jobs /\ <<t, n>> \in Jobs
  BY EngineAssumption DEF Jobs
<1>6. JobRows'
  BY <1>2, <1>3, <1>4, <1>5 DEF JobRows
<1>7. ASSUME NEW j \in Jobs PROVE Lifecycle!Moves(j)
  <2>1. attempts[j] \in Nat /\ dead[j] \in BOOLEAN /\ PoisonMaxAttempts \in Nat
    BY EngineAssumption DEF JobRows
  <2>2. CASE j \in D
    BY <1>1, <2>1, <2>2 DEF Lifecycle!Moves, Lifecycle!IsQuarantined
  <2>3. CASE j \in E \ D
    BY <1>1, <2>1, <2>3 DEF Lifecycle!Moves, Lifecycle!IsGivenBack, Lifecycle!Keeps
  <2>4. CASE j \notin E
    BY <1>1, <2>1, <2>4 DEF Lifecycle!Moves, Lifecycle!Stays, Lifecycle!Keeps
  <2> QED BY <2>2, <2>3, <2>4
<1> QED BY <1>3, <1>6, <1>7 DEF JobsMove, Lifecycle!LNext

\* The cancellations: queued and leased rows only.
LEMMA CancelMoves ==
    ASSUME JobRows, NEW C \in SUBSET Jobs, \A j \in C : jstate[j] \in {"queued", "leased"},
           jstate' = [j \in Jobs |-> IF j \in C THEN "cancelled" ELSE jstate[j]],
           UNCHANGED <<attempts, dead, lapsed>>
    PROVE  JobsMove
<1>1. jstate' \in [Jobs -> Lifecycle!States]
  BY DEF JobRows, Lifecycle!States
<1>2. \A j \in Jobs : (jstate'[j] = "absent") = (jstate[j] = "absent")
  OBVIOUS
<1>3. \A j \in Jobs : jstate'[j] = "queued" => jstate[j] = "queued"
  OBVIOUS
<1>4. \A t \in Tasks, n \in 1..MaxJobs : \A m \in 1..n : <<t, m>> \in Jobs /\ <<t, n>> \in Jobs
  BY EngineAssumption DEF Jobs
<1>5. JobRows'
  BY <1>1, <1>2, <1>3, <1>4 DEF JobRows
<1>6. ASSUME NEW j \in Jobs PROVE Lifecycle!Moves(j)
  BY DEF Lifecycle!Moves, Lifecycle!IsCancelled, Lifecycle!Stays, Lifecycle!Keeps
<1> QED BY <1>2, <1>5, <1>6 DEF JobsMove, Lifecycle!LNext

\* A lost lease, or no write to the rows.
LEMMA RowsStay ==
    ASSUME JobRows, UNCHANGED <<jstate, attempts, dead>>, lapsed' \subseteq Jobs
    PROVE  JobsMove
BY DEF JobRows, JobsMove, Lifecycle!LNext, Lifecycle!Moves, Lifecycle!Stays, Lifecycle!Keeps

\* Every transaction of the engine moves the jobs along their life cycle.
LEMMA JobsStep == ASSUME Inv, [Next]_vars PROVE JobsMove
<1>0. JobRows /\ Coroutines
  BY DEF Inv
<1>1. CASE UNCHANGED queue
  BY <1>0, <1>1, RowsStay DEF queue, JobRows
<1>2. ASSUME NEW w \in Workers, NEW j \in Jobs, Claim(w, j) PROVE JobsMove
  BY <1>0, <1>2, ClaimMoves
<1>3. ASSUME NEW A, A \subseteq Jobs, \A j \in A : jstate[j] # "absent",
             NEW Q, Q \subseteq Tasks, RoomFor(Q),
             jstate' = AckAndEnqueue(A, Q), UNCHANGED <<attempts, dead, lapsed>>
      PROVE  JobsMove
  BY <1>0, <1>3, AckAndEnqueueMoves
<1>4. ASSUME NEW w \in Workers, wk[w].pc \notin {"idle", "gone"}
      PROVE  {wk[w].job} \subseteq Jobs /\ \A j \in {wk[w].job} : jstate[j] # "absent"
  BY <1>0, <1>4 DEF Coroutines
<1>5. RoomFor({})
  BY DEF RoomFor
<1>6. ASSUME NEW w \in Workers, LoadTerminal(w) \/ LoadCancelled(w) \/ HandlerSucceeds(w)
      PROVE  JobsMove
  <2>1. \/ UNCHANGED queue
        \/ /\ wk[w].pc \notin {"idle", "gone"}
           /\ jstate' = AckAndEnqueue({wk[w].job}, {}) /\ UNCHANGED <<attempts, dead, lapsed>>
    BY <1>6 DEF LoadTerminal, LoadCancelled, HandlerSucceeds, queue
  <2> QED BY <1>1, <1>3, <1>4, <1>5, <2>1
<1>7. ASSUME NEW w \in Workers, HandlerRetries(w) PROVE JobsMove
  <2> DEFINE Q == {wk[w].job[1]}
  <2>1. /\ wk[w].pc \notin {"idle", "gone"} /\ RoomFor(Q)
        /\ jstate' = AckAndEnqueue({wk[w].job}, Q) /\ UNCHANGED <<attempts, dead, lapsed>>
    BY <1>7 DEF HandlerRetries
  <2>2. Q \subseteq Tasks
    BY <1>4, <2>1 DEF Jobs
  <2> HIDE DEF Q
  <2> QED BY <1>3, <1>4, <2>1, <2>2
<1>8. ASSUME NEW w \in Workers, NEW order \in RowOrders, Settle(w, order) PROVE JobsMove
  <2>1. PICK A, Q : /\ A \in {{}, {wk[w].job}} /\ Q \subseteq Tasks /\ RoomFor(Q)
                    /\ jstate' = AckAndEnqueue(A, Q)
    <3>1. \A before, after : NewlyQueued(before, after) \subseteq Tasks
      BY DEF NewlyQueued
    <3> QED BY <1>8, <3>1 DEF Settle
  <2>2. wk[w].pc \notin {"idle", "gone"} /\ UNCHANGED <<attempts, dead, lapsed>>
    BY <1>8 DEF Settle
  <2> QED BY <1>3, <1>4, <2>1, <2>2
<1>9. ASSUME NEW w \in Workers, SlipLease(w) PROVE JobsMove
  <2>1. UNCHANGED <<jstate, attempts, dead>> /\ lapsed' = lapsed \cup {wk[w].job}
    BY <1>9 DEF SlipLease
  <2>2. wk[w].job \in Jobs
    BY <1>4, <1>9 DEF SlipLease, Holds
  <2> QED BY <1>0, <2>1, <2>2, RowsStay DEF JobRows
<1>10. Expired \subseteq Jobs /\ \A j \in Expired : jstate[j] = "leased"
  BY DEF Expired
<1>11. ASSUME NEW w \in Workers, DequeueRequeue(w) PROVE JobsMove
  BY <1>0, <1>10, <1>11, RequeueMoves DEF DequeueRequeue
<1>12. ASSUME NEW p \in Procs, WatchdogRequeue(p) PROVE JobsMove
  BY <1>0, <1>10, <1>12, RequeueMoves DEF WatchdogRequeue
<1>13. ASSUME NEW C, C \subseteq Jobs, \A j \in C : jstate[j] \in {"queued", "leased"},
              jstate' = [j \in Jobs |-> IF j \in C THEN "cancelled" ELSE jstate[j]],
              UNCHANGED <<attempts, dead, lapsed>>
       PROVE  JobsMove
  BY <1>0, <1>13, CancelMoves
<1>14. CASE CancelCommit
  <2> DEFINE C == {j \in Jobs : jstate[j] \in {"queued", "leased"}}
  <2>1. jstate' = [j \in Jobs |-> IF j \in C THEN "cancelled" ELSE jstate[j]]
    BY <1>14 DEF CancelCommit
  <2>2. UNCHANGED <<attempts, dead, lapsed>>
    BY <1>14 DEF CancelCommit
  <2>3. C \subseteq Jobs /\ \A j \in C : jstate[j] \in {"queued", "leased"}
    OBVIOUS
  <2> HIDE DEF C
  <2> QED BY <1>13, <2>1, <2>2, <2>3
<1>15. CASE SkipCommit
  <2> DEFINE C == {j \in Jobs : j[1] = api.task /\ jstate[j] = "queued"}
  <2>1. jstate' = [j \in Jobs |-> IF j \in C THEN "cancelled" ELSE jstate[j]]
    BY <1>15 DEF SkipCommit
  <2>2. UNCHANGED <<attempts, dead, lapsed>>
    BY <1>15 DEF SkipCommit
  <2>3. C \subseteq Jobs /\ \A j \in C : jstate[j] \in {"queued", "leased"}
    OBVIOUS
  <2> HIDE DEF C
  <2> QED BY <1>13, <2>1, <2>2, <2>3
<1>16. ASSUME NEW order \in RowOrders, EnqueueCommit(order) PROVE JobsMove
  <2>1. PICK Q : Q \subseteq Tasks /\ RoomFor(Q) /\ jstate' = AckAndEnqueue({}, Q)
    <3>1. \A before, after : NewlyQueued(before, after) \subseteq Tasks
      BY DEF NewlyQueued
    <3> QED BY <1>16, <3>1 DEF EnqueueCommit
  <2>2. UNCHANGED <<attempts, dead, lapsed>>
    BY <1>16 DEF EnqueueCommit
  <2> QED BY <1>3, <2>1, <2>2
<1>17. ASSUME NEW w \in Workers,
              \/ LoadTask(w) \/ Start(w) \/ Launch(w) \/ HandlerFails(w)
              \/ HandlerInterrupted(w) \/ Collect(w) \/ ProcessDeadLetters(w)
       PROVE  UNCHANGED queue
  BY <1>17 DEF LoadTask, Start, Launch, HandlerFails, HandlerInterrupted, Collect,
     ProcessDeadLetters
<1>18. ASSUME NEW p \in Procs,
              \/ LetterStep(p) \/ Crash(p) \/ WatchdogDrain(p) \/ EnforceCancellations(p)
              \/ ReapHungTasks(p) \/ FinalizeOrphaned(p)
       PROVE  UNCHANGED queue
  BY <1>18 DEF LetterStep, DeadLetterLoad, ServiceCommit, Crash, WatchdogDrain,
     EnforceCancellations, ReapHungTasks, FinalizeOrphaned
<1>19. ASSUME RetryCommit \/ (\E c \in Calls : ApiCall(c)) \/ UNCHANGED vars
       PROVE  UNCHANGED queue
  BY <1>19 DEF RetryCommit, ApiCall, vars
<1> QED
  BY <1>1, <1>2, <1>6, <1>7, <1>8, <1>9, <1>11, <1>12, <1>14, <1>15, <1>16, <1>17, <1>18,
     <1>19 DEF Next, WorkerStep, WatchdogStep, ApiStep

-----------------------------------------------------------------------------
(***************************************************************************)
(* The rows of the execution and of its tasks.                             *)
(***************************************************************************)

\* What a unit of work writes to the status column is a view again.
LEMMA WrittenType ==
    ASSUME NEW column \in View, NEW read, NEW new \in View
    PROVE  Written(column, read, new) \in View
BY DEF Written, View

\* ... and to the status of the execution and the outbox.
LEMMA WriteStatusType ==
    ASSUME Tables, NEW read, NEW ts, NEW cr, WriteStatus(read, Refreshed(ts, cr))
    PROVE  status' \in ExecutionState /\ outbox' \subseteq TERMINAL_EXECUTION_STATES
<1> DEFINE new == Refreshed(ts, cr)
<1>1. new \in ExecutionState
  BY DEF Refreshed, ExecutionState, TERMINAL_EXECUTION_STATES
<1> HIDE DEF new
<1>2. WriteStatus(read, new)
  BY DEF new
<1> QED BY <1>1, <1>2 DEF WriteStatus, Tables

\* Every transaction keeps the types of the rows.
LEMMA TablesStep == ASSUME Inv, [Next]_vars PROVE Tables'
<1>0. Tables /\ Coroutines /\ Sessions
  BY DEF Inv
<1>1. CASE UNCHANGED db
  BY <1>0, <1>1 DEF db, Tables
<1>2. ASSUME NEW w \in Workers, wk[w].pc \notin {"idle", "gone"}
      PROVE  wk[w].job[1] \in Tasks /\ wk[w].ret + 1 \in Nat
  BY <1>0, <1>2 DEF Coroutines, Coroutine, Jobs
<1>3. ASSUME NEW w \in Workers, LoadCancelled(w) PROVE Tables'
  <2>1. wk[w].job[1] \in Tasks
    BY <1>2, <1>3 DEF LoadCancelled
  <2>2. CASE UNCHANGED <<task, status, outbox>>
    BY <1>0, <1>3, <2>2 DEF LoadCancelled, Tables
  <2>3. CASE /\ task' = [task EXCEPT ![wk[w].job[1]] = "cancelled"]
             /\ \E read, ts, cr : WriteStatus(read, Refreshed(ts, cr))
    <3>1. task' \in View
      BY <1>0, <2>1, <2>3 DEF Tables, View, TaskState
    <3> QED BY <1>0, <1>3, <2>3, <3>1, WriteStatusType DEF LoadCancelled, Tables
  <2> QED BY <1>3, <2>2, <2>3 DEF LoadCancelled
<1>4. ASSUME NEW w \in Workers, Start(w) PROVE Tables'
  <2>1. task' \in View
    BY <1>0, <1>2, <1>4 DEF Start, Tables, View, TaskState
  <2> QED BY <1>0, <1>4, <2>1 DEF Start, Tables
<1>5. ASSUME NEW w \in Workers, HandlerSucceeds(w) PROVE Tables'
  <2>1. task' \in View
    BY <1>0, <1>2, <1>5 DEF HandlerSucceeds, Tables, View, TaskState
  <2> QED BY <1>0, <1>5, <2>1 DEF HandlerSucceeds, Tables
<1>6. ASSUME NEW w \in Workers, HandlerRetries(w) PROVE Tables'
  <2>1. task' \in View
    BY <1>0, <1>2, <1>6 DEF HandlerRetries, Tables, View, TaskState
  <2>2. retries' \in [Tasks -> Nat]
    BY <1>0, <1>2, <1>6 DEF HandlerRetries, Tables
  <2> QED BY <1>0, <1>6, <2>1, <2>2 DEF HandlerRetries, Tables
<1>7. ASSUME NEW w \in Workers, NEW order \in RowOrders, Settle(w, order) PROVE Tables'
  <2>1. wk[w].pc = "settling" /\ wk[w].out \in Outcome /\ wk[w].tasks \in View
    BY <1>0, <1>7 DEF Settle, Coroutines
  <2> DEFINE mine == wk[w].tasks
             new == CASE wk[w].out \in {"success", "allowed"} -> EnqueueReady(mine, FALSE, order)
                      [] wk[w].out = "failed" -> FailDownstream(mine)
                      [] wk[w].out = "cancelled" -> mine
  <2>2. order \in Seq(Tasks)
    BY EngineAssumption
  <2>3. EnqueueReady(mine, FALSE, order) \in View /\ FailDownstream(mine) \in View
    BY <2>1, <2>2, EnqueueReadyType, FailDownstreamCloses
  <2>4. new \in View
    BY <2>1, <2>3 DEF Outcome
  <2>5. /\ \E read : task' = Written(task, read, new)
        /\ WriteStatus(wk[w].ex, Refreshed(new, FALSE))
        /\ retries' \in {retries, [retries EXCEPT ![wk[w].job[1]] = wk[w].ret + 1]}
        /\ cancel' = cancel
    BY <1>7 DEF Settle
  <2> HIDE DEF new
  <2>6. task' \in View
    BY <1>0, <2>4, <2>5, WrittenType DEF Tables
  <2>7. status' \in ExecutionState /\ outbox' \subseteq TERMINAL_EXECUTION_STATES
    BY <1>0, <2>5, WriteStatusType
  <2>8. retries' \in [Tasks -> Nat]
    BY <1>0, <1>2, <2>1, <2>5 DEF Tables
  <2> QED BY <1>0, <2>5, <2>6, <2>7, <2>8 DEF Tables
<1>8. ASSUME NEW p \in Procs, ServiceCommit(p) PROVE Tables'
  <2> DEFINE v == svc[p]
             new == IF v.kind = "dead" THEN FailDownstream([v.tasks EXCEPT ![v.task] = "failed"])
                    ELSE v.tasks
  <2>1. v.tasks \in View /\ (v.kind = "dead" => v.task \in Tasks)
    BY <1>0, <1>8 DEF ServiceCommit, Sessions
  <2>2. v.kind = "dead" => [v.tasks EXCEPT ![v.task] = "failed"] \in View
    BY <2>1 DEF View, TaskState
  <2>3. new \in View
    BY <2>1, <2>2, FailDownstreamCloses
  <2>4. /\ task' = Written(task, v.tasks, new)
        /\ WriteStatus(v.ex, Refreshed(new, v.cancel))
        /\ retries' = retries /\ cancel' = cancel
    BY <1>8 DEF ServiceCommit
  <2> HIDE DEF v, new
  <2>5. task' \in View
    BY <1>0, <2>3, <2>4, WrittenType DEF Tables
  <2> QED BY <1>0, <2>4, <2>5, WriteStatusType DEF Tables
<1>9. CASE CancelCommit
  <2> DEFINE new == [t \in Tasks |-> IF api.tasks[t] \in {"pending", "queued"} THEN "cancelled"
                                     ELSE api.tasks[t]]
  <2>1. api.tasks \in View /\ api.cancel \in BOOLEAN
    BY <1>0, <1>9 DEF CancelCommit, Sessions, Session
  <2>2. new \in View
    BY <2>1 DEF View, TaskState
  <2>3. /\ task' = Written(task, api.tasks, new)
        /\ WriteStatus(api.ex, Refreshed(new, TRUE))
        /\ retries' = retries /\ cancel' = (cancel \/ ~api.cancel)
    BY <1>9 DEF CancelCommit
  <2> HIDE DEF new
  <2>4. task' \in View
    BY <1>0, <2>2, <2>3, WrittenType DEF Tables
  <2> QED BY <1>0, <2>1, <2>3, <2>4, WriteStatusType DEF Tables
<1>10. CASE RetryCommit
  <2>1. /\ api.tasks \in View /\ api.rets \in [Tasks -> Nat] /\ api.cancel \in BOOLEAN
    BY <1>0, <1>10 DEF RetryCommit, Sessions, Session
  <2>2. PICK reset : LET new == [t \in Tasks |-> IF t \in reset THEN "pending" ELSE api.tasks[t]]
                         rets == [t \in Tasks |-> IF t \in reset THEN 0 ELSE api.rets[t]]
                     IN task' = Written(task, api.tasks, new)
                        /\ retries' = Written(retries, api.rets, rets)
    BY <1>10 DEF RetryCommit
  <2> DEFINE new == [t \in Tasks |-> IF t \in reset THEN "pending" ELSE api.tasks[t]]
             rets == [t \in Tasks |-> IF t \in reset THEN 0 ELSE api.rets[t]]
  <2>3. new \in View
    BY <2>1 DEF View, TaskState
  <2>4. rets \in [Tasks -> Nat]
    BY <2>1
  <2>5. task' = Written(task, api.tasks, new) /\ retries' = Written(retries, api.rets, rets)
    BY <2>2
  <2> HIDE DEF new, rets
  <2>6. task' \in View
    BY <1>0, <2>3, <2>5, WrittenType DEF Tables
  <2>7. retries' \in [Tasks -> Nat]
    BY <1>0, <2>4, <2>5 DEF Written, Tables
  <2>8. /\ status' \in {"running", status} /\ cancel' = (cancel /\ ~api.cancel)
        /\ outbox' = outbox
    BY <1>10 DEF RetryCommit
  <2> QED BY <1>0, <2>1, <2>6, <2>7, <2>8 DEF Tables, ExecutionState
<1>11. CASE SkipCommit
  <2>1. api.tasks \in View /\ api.task \in Tasks
    BY <1>0, <1>11 DEF SkipCommit, Sessions
  <2>2. [api.tasks EXCEPT ![api.task] = "skipped"] \in View
    BY <2>1 DEF View, TaskState
  <2>3. task' \in View
    BY <1>0, <1>11, <2>2, WrittenType DEF SkipCommit, Tables
  <2> QED BY <1>0, <1>11, <2>3 DEF SkipCommit, Tables
<1>12. ASSUME NEW order \in RowOrders, EnqueueCommit(order) PROVE Tables'
  <2> DEFINE new == EnqueueReady(api.tasks, api.cancel, order)
  <2>1. api.tasks \in View /\ api.cancel \in BOOLEAN /\ order \in Seq(Tasks)
    BY <1>0, <1>12, EngineAssumption DEF EnqueueCommit, Sessions, Session
  <2>2. new \in View
    BY <2>1, EnqueueReadyType
  <2>3. /\ task' = Written(task, api.tasks, new)
        /\ WriteStatus(api.ex, Refreshed(new, api.cancel))
        /\ retries' = retries /\ cancel' = cancel
    BY <1>12 DEF EnqueueCommit
  <2> HIDE DEF new
  <2>4. task' \in View
    BY <1>0, <2>2, <2>3, WrittenType DEF Tables
  <2> QED BY <1>0, <2>3, <2>4, WriteStatusType DEF Tables
<1>13. ASSUME NEW w \in Workers,
              \/ \E j \in Jobs : Claim(w, j)
              \/ LoadTerminal(w) \/ LoadTask(w) \/ Launch(w) \/ HandlerFails(w)
              \/ HandlerInterrupted(w) \/ Collect(w) \/ DequeueRequeue(w)
              \/ ProcessDeadLetters(w) \/ SlipLease(w)
       PROVE  UNCHANGED db
  BY <1>13 DEF Claim, LoadTerminal, LoadTask, Launch, HandlerFails, HandlerInterrupted, Collect,
     DequeueRequeue, ProcessDeadLetters, SlipLease
<1>14. ASSUME NEW p \in Procs,
              \/ \E t \in Tasks : DeadLetterLoad(p, t)
              \/ WatchdogStep(p) \/ Crash(p)
       PROVE  UNCHANGED db
  BY <1>14 DEF DeadLetterLoad, WatchdogStep, WatchdogRequeue, WatchdogDrain, Crash,
     EnforceCancellations, ReapHungTasks, FinalizeOrphaned
<1>15. ASSUME (\E c \in Calls : ApiCall(c)) \/ UNCHANGED vars PROVE UNCHANGED db
  BY <1>15 DEF ApiCall, vars
<1> QED
  BY <1>1, <1>3, <1>4, <1>5, <1>6, <1>7, <1>8, <1>9, <1>10, <1>11, <1>12, <1>13, <1>14, <1>15
     DEF Next, WorkerStep, LetterStep, ApiStep

-----------------------------------------------------------------------------
(***************************************************************************)
(* The workers and the sessions.                                           *)
(***************************************************************************)

\* What a session reads is typed.
LEMMA OpenedType ==
    ASSUME Tables, NEW kind \in {"dead", "finalize", "enqueue", "cancel", "retry", "skip"},
           NEW t \in Tasks \cup {None}
    PROVE  /\ Opened(kind, t) \in Session
           /\ Opened(kind, t).kind = kind /\ Opened(kind, t).task = t
           /\ Opened(kind, t).tasks \in View /\ Opened(kind, t).rets \in [Tasks -> Nat]
BY DEF Opened, Session, Tables

\* A closed session and an idle worker.
LEMMA ClosedType ==
    /\ Closed \in Session /\ Closed.kind = "closed"
    /\ Idle \in Coroutine /\ Idle.pc = "idle"
BY DEF Closed, Session, Idle, Coroutine

\* What Coroutines says of one worker, with the rows of queue_jobs in js.
Sound(r, js) ==
    /\ r \in Coroutine
    /\ r.pc \notin {"idle", "gone"} => r.job \in Jobs /\ js[r.job] # "absent"
    /\ r.pc \in {"finishing", "settling"} => r.out \in Outcome
    /\ r.pc = "settling" => r.tasks \in View

\* The coroutines are sound when each of them is.
LEMMA CoroutinesAreSound ==
    Coroutines <=> wk \in [Workers -> Coroutine] /\ \A w \in Workers : Sound(wk[w], jstate)
BY DEF Coroutines, Sound

\* Workers that are sound one by one, in the next state.
LEMMA NextCoroutines ==
    ASSUME NEW W, wk' = W, W \in [Workers -> Coroutine],
           \A w \in Workers : Sound(W[w], jstate')
    PROVE  Coroutines'
BY DEF Coroutines, Sound

\* A step of one worker that leaves it sound keeps Coroutines.
LEMMA OneWorker ==
    ASSUME Coroutines, JobsMove, NEW w \in Workers, NEW r,
           wk' = [wk EXCEPT ![w] = r], Sound(r, jstate')
    PROVE  Coroutines'
<1> DEFINE W == [wk EXCEPT ![w] = r]
<1>1. W \in [Workers -> Coroutine]
  BY DEF Sound, Coroutines
<1>2. ASSUME NEW v \in Workers PROVE Sound(W[v], jstate')
  <2>1. v = w => W[v] = r
    BY DEF Coroutines
  <2>2. v # w => W[v] = wk[v]
    BY DEF Coroutines
  <2>3. Sound(wk[v], jstate)
    BY CoroutinesAreSound
  <2>4. Sound(wk[v], jstate')
    BY <2>3 DEF Sound, JobsMove
  <2> QED BY <2>1, <2>2, <2>4
<1> HIDE DEF W
<1>3. wk' = W
  BY DEF W
<1> QED BY <1>1, <1>2, <1>3, NextCoroutines

\* cancel_inflight interrupts handlers and leaves the workers sound.
LEMMA InterruptIsSound ==
    ASSUME Coroutines, JobsMove, NEW p, Interrupt(p)
    PROVE  Coroutines'
<1>1. PICK S \in SUBSET Inflight(p) :
          wk' = [w \in Workers |-> IF w \in S THEN [wk[w] EXCEPT !.pc = "interrupted"]
                                   ELSE wk[w]]
  BY DEF Interrupt
<1> DEFINE W == [w \in Workers |-> IF w \in S THEN [wk[w] EXCEPT !.pc = "interrupted"]
                                   ELSE wk[w]]
<1>2. ASSUME NEW w \in Workers PROVE Sound(W[w], jstate')
  <2>1. Sound(wk[w], jstate)
    BY CoroutinesAreSound
  <2>2. Sound(wk[w], jstate')
    BY <2>1 DEF Sound, JobsMove
  <2>3. CASE w \in S
    <3>1. wk[w].pc = "running" /\ W[w] = [wk[w] EXCEPT !.pc = "interrupted"]
      BY <2>3 DEF Inflight
    <3> HIDE DEF W
    <3> QED BY <2>2, <3>1 DEF Sound, Coroutine
  <2> QED BY <2>2, <2>3
<1>3. W \in [Workers -> Coroutine]
  <2> SUFFICES ASSUME NEW w \in Workers PROVE W[w] \in Coroutine
    OBVIOUS
  <2> HIDE DEF W
  <2> QED BY <1>2 DEF Sound
<1> HIDE DEF W
<1>4. wk' = W
  BY <1>1 DEF W
<1> QED BY <1>2, <1>3, <1>4, NextCoroutines

\* A restarted process has idle workers.
LEMMA CrashIsSound ==
    ASSUME Coroutines, JobsMove, NEW p \in Procs, Crash(p)
    PROVE  Coroutines'
<1> DEFINE W == [w \in Workers |-> IF proc[w] = p THEN Idle ELSE wk[w]]
<1>1. ASSUME NEW w \in Workers PROVE Sound(W[w], jstate')
  <2>1. Sound(wk[w], jstate)
    BY CoroutinesAreSound
  <2>2. Sound(wk[w], jstate') /\ Sound(Idle, jstate')
    BY <2>1, ClosedType DEF Sound, JobsMove
  <2> QED BY <2>2
<1>2. W \in [Workers -> Coroutine]
  <2> SUFFICES ASSUME NEW w \in Workers PROVE W[w] \in Coroutine
    OBVIOUS
  <2> HIDE DEF W
  <2> QED BY <1>1 DEF Sound
<1>3. wk' = W
  BY DEF Crash
<1> HIDE DEF W
<1> QED BY <1>1, <1>2, <1>3, NextCoroutines

\* Every step keeps the workers sound: their jobs are in the table and what
\* they have read is typed.
LEMMA CoroutinesStep == ASSUME Inv, [Next]_vars PROVE Coroutines'
<1>0. Tables /\ Coroutines /\ JobsMove
  BY JobsStep DEF Inv
<1>1. CASE UNCHANGED wk
  BY <1>0, <1>1 DEF Coroutines, JobsMove
<1>2. ASSUME NEW w \in Workers, NEW r, wk' = [wk EXCEPT ![w] = r], Sound(r, jstate')
      PROVE  Coroutines'
  BY <1>0, <1>2, OneWorker
<1>3. Sound(Idle, jstate') /\ Sound([Idle EXCEPT !.pc = "gone"], jstate')
  BY ClosedType DEF Sound, Coroutine
<1>4. ASSUME NEW w \in Workers, NEW j \in Jobs, Claim(w, j) PROVE Coroutines'
  <2> DEFINE r == [Idle EXCEPT !.pc = "claimed", !.job = j]
  <2>1. r \in Coroutine /\ r.pc = "claimed" /\ r.job = j
    BY ClosedType DEF Coroutine
  <2>2. jstate'[j] # "absent" /\ wk' = [wk EXCEPT ![w] = r]
    BY <1>0, <1>4 DEF Claim, JobsMove
  <2> HIDE DEF r
  <2>3. Sound(r, jstate')
    BY <2>1, <2>2 DEF Sound
  <2> QED BY <1>2, <2>2, <2>3
<1>5. ASSUME NEW w \in Workers,
             \/ LoadTerminal(w) \/ LoadCancelled(w) \/ HandlerRetries(w)
             \/ \E order \in RowOrders : Settle(w, order)
      PROVE  Coroutines'
  <2>1. wk' = [wk EXCEPT ![w] = Idle]
    BY <1>5 DEF LoadTerminal, LoadCancelled, HandlerRetries, Settle
  <2> QED BY <1>2, <1>3, <2>1
<1>6. ASSUME NEW w \in Workers, wk[w].pc \notin {"idle", "gone"}, wk[w].pc # "settling"
      PROVE  /\ wk[w] \in Coroutine /\ wk[w].job \in Jobs /\ jstate'[wk[w].job] # "absent"
             /\ wk[w].job[1] \in Tasks
             /\ wk[w].pc = "finishing" => wk[w].out \in Outcome
  BY <1>0, <1>6 DEF Coroutines, JobsMove, Jobs
<1>7. ASSUME NEW w \in Workers, LoadTask(w) PROVE Coroutines'
  <2> DEFINE r == [wk[w] EXCEPT !.pc = "loaded", !.seen = task[wk[w].job[1]],
                                !.ret = retries[wk[w].job[1]], !.ex = status]
  <2>1. wk' = [wk EXCEPT ![w] = r] /\ wk[w].pc = "claimed"
    BY <1>0, <1>7 DEF LoadTask, Coroutines
  <2>2. /\ task[wk[w].job[1]] \in TaskState /\ retries[wk[w].job[1]] \in Nat
        /\ status \in ExecutionState
    BY <1>0, <1>6, <2>1 DEF Tables, View
  <2>3. r \in Coroutine /\ r.pc = "loaded" /\ r.job = wk[w].job
    BY <1>6, <2>1, <2>2 DEF Coroutine
  <2> HIDE DEF r
  <2>4. Sound(r, jstate')
    BY <1>6, <2>1, <2>3 DEF Sound
  <2> QED BY <1>2, <2>1, <2>4
<1>8. ASSUME NEW w \in Workers, Start(w) PROVE Coroutines'
  <2> DEFINE r == [wk[w] EXCEPT !.pc = "started", !.seen = "running"]
  <2>1. wk' = [wk EXCEPT ![w] = r] /\ wk[w].pc = "loaded"
    BY <1>0, <1>8 DEF Start, Coroutines
  <2>2. r \in Coroutine /\ r.pc = "started" /\ r.job = wk[w].job
    BY <1>6, <2>1 DEF Coroutine, TaskState
  <2> HIDE DEF r
  <2>3. Sound(r, jstate')
    BY <1>6, <2>1, <2>2 DEF Sound
  <2> QED BY <1>2, <2>1, <2>3
<1>9. ASSUME NEW w \in Workers, Launch(w) PROVE Coroutines'
  <2> DEFINE r == [wk[w] EXCEPT !.pc = "running"]
  <2>1. wk' = [wk EXCEPT ![w] = r] /\ wk[w].pc = "started"
    BY <1>0, <1>9 DEF Launch, Coroutines
  <2>2. r \in Coroutine /\ r.pc = "running" /\ r.job = wk[w].job
    BY <1>6, <2>1 DEF Coroutine
  <2> HIDE DEF r
  <2>3. Sound(r, jstate')
    BY <1>6, <2>1, <2>2 DEF Sound
  <2> QED BY <1>2, <2>1, <2>3
<1>10. ASSUME NEW w \in Workers, HandlerSucceeds(w) PROVE Coroutines'
  <2> DEFINE r == [wk[w] EXCEPT !.pc = "finishing", !.seen = "success", !.out = "success"]
  <2>1. wk' = [wk EXCEPT ![w] = r] /\ wk[w].pc = "running"
    BY <1>0, <1>10 DEF HandlerSucceeds, Coroutines
  <2>2. r \in Coroutine /\ r.pc = "finishing" /\ r.job = wk[w].job /\ r.out = "success"
    BY <1>6, <2>1 DEF Coroutine, TaskState, Outcome
  <2> HIDE DEF r
  <2>3. Sound(r, jstate')
    BY <1>6, <2>1, <2>2 DEF Sound, Outcome
  <2> QED BY <1>2, <2>1, <2>3
<1>11. ASSUME NEW w \in Workers, NEW o \in Outcome,
              wk[w].pc \in {"started", "running", "interrupted"},
              wk' = [wk EXCEPT ![w] = [wk[w] EXCEPT !.pc = "finishing", !.out = o]]
       PROVE  Coroutines'
  <2> DEFINE r == [wk[w] EXCEPT !.pc = "finishing", !.out = o]
  <2>1. r \in Coroutine /\ r.pc = "finishing" /\ r.job = wk[w].job /\ r.out = o
    BY <1>6, <1>11 DEF Coroutine
  <2>2. wk' = [wk EXCEPT ![w] = r]
    BY <1>11
  <2> HIDE DEF r
  <2>3. Sound(r, jstate')
    BY <1>6, <1>11, <2>1 DEF Sound
  <2> QED BY <1>2, <2>2, <2>3
<1>12. ASSUME NEW w \in Workers, HandlerFails(w) PROVE Coroutines'
  <2> DEFINE o == IF wk[w].job[1] \in allow_failure THEN "allowed" ELSE "failed"
  <2>1. o \in Outcome
    BY DEF Outcome
  <2>2. /\ wk[w].pc \in {"started", "running", "interrupted"}
        /\ wk' = [wk EXCEPT ![w] = [wk[w] EXCEPT !.pc = "finishing", !.out = o]]
    BY <1>0, <1>12 DEF HandlerFails, Coroutines
  <2> HIDE DEF o
  <2> QED BY <1>11, <2>1, <2>2
<1>13. ASSUME NEW w \in Workers, HandlerInterrupted(w) PROVE Coroutines'
  <2>1. wk[w].pc = "interrupted"
    BY <1>13 DEF HandlerInterrupted
  <2>2. CASE wk' = [wk EXCEPT ![w] = [Idle EXCEPT !.pc = "gone"]]
    BY <1>2, <1>3, <2>2
  <2>3. CASE wk' = [wk EXCEPT ![w].pc = "finishing", ![w].out = "cancelled"]
    <3>1. wk' = [wk EXCEPT ![w] = [wk[w] EXCEPT !.pc = "finishing", !.out = "cancelled"]]
      BY <1>0, <2>3 DEF Coroutines
    <3> QED BY <1>11, <2>1, <3>1 DEF Outcome
  <2> QED BY <1>13, <2>2, <2>3 DEF HandlerInterrupted
<1>14. ASSUME NEW w \in Workers, Collect(w) PROVE Coroutines'
  <2> DEFINE v == [task EXCEPT ![wk[w].job[1]] = OutcomeStatus(wk[w].out)]
             r == [wk[w] EXCEPT !.pc = "settling", !.tasks = v]
  <2>1. wk' = [wk EXCEPT ![w] = r] /\ wk[w].pc = "finishing"
    BY <1>0, <1>14 DEF Collect, Coroutines
  <2>2. OutcomeStatus(wk[w].out) \in TaskState
    BY <1>6, <2>1 DEF OutcomeStatus, Outcome, TaskState
  <2>3. v \in View
    BY <1>0, <2>2 DEF Tables, View
  <2> HIDE DEF v
  <2>4. /\ r \in Coroutine /\ r.pc = "settling" /\ r.job = wk[w].job
        /\ r.out = wk[w].out /\ r.tasks = v
    BY <1>6, <2>1, <2>3 DEF Coroutine
  <2> HIDE DEF r
  <2>5. Sound(r, jstate')
    BY <1>6, <2>1, <2>3, <2>4 DEF Sound
  <2> QED BY <1>2, <2>1, <2>5
<1>15. ASSUME NEW p \in Procs, EnforceCancellations(p) PROVE Coroutines'
  <2>1. UNCHANGED wk \/ Interrupt(p)
    BY <1>15 DEF EnforceCancellations
  <2> QED BY <1>0, <1>1, <2>1, InterruptIsSound
<1>16. CASE CancelCommit
  BY <1>0, <1>16, InterruptIsSound DEF CancelCommit
<1>17. ASSUME NEW p \in Procs, Crash(p) PROVE Coroutines'
  BY <1>0, <1>17, CrashIsSound
<1>18. ASSUME NEW w \in Workers, DequeueRequeue(w) \/ ProcessDeadLetters(w) \/ SlipLease(w)
       PROVE  UNCHANGED wk
  BY <1>18 DEF DequeueRequeue, ProcessDeadLetters, SlipLease
<1>19. ASSUME NEW p \in Procs,
              \/ LetterStep(p) \/ WatchdogRequeue(p) \/ WatchdogDrain(p)
              \/ ReapHungTasks(p) \/ FinalizeOrphaned(p)
       PROVE  UNCHANGED wk
  BY <1>19 DEF LetterStep, DeadLetterLoad, ServiceCommit, WatchdogRequeue, WatchdogDrain,
     ReapHungTasks, FinalizeOrphaned
<1>20. ASSUME \/ RetryCommit \/ SkipCommit \/ \E order \in RowOrders : EnqueueCommit(order)
              \/ \E c \in Calls : ApiCall(c)
              \/ UNCHANGED vars
       PROVE  UNCHANGED wk
  BY <1>20 DEF RetryCommit, SkipCommit, EnqueueCommit, ApiCall, vars
<1> QED
  BY <1>1, <1>4, <1>5, <1>7, <1>8, <1>9, <1>10, <1>12, <1>13, <1>14, <1>15, <1>16, <1>17,
     <1>18, <1>19, <1>20 DEF Next, WorkerStep, WatchdogStep, ApiStep

\* The part of Sessions that belongs to the processes, and the API's part.
Services ==
    /\ cancelling \in [Procs -> BOOLEAN]
    /\ buffer \in [Procs -> SUBSET Jobs]
    /\ letters \in [Procs -> SUBSET Tasks]
    /\ svc \in [Procs -> Session]
    /\ \A p \in Procs : svc[p].kind # "closed" =>
           svc[p].tasks \in View /\ (svc[p].kind = "dead" => svc[p].task \in Tasks)

ApiSession ==
    /\ api \in Session
    /\ api.kind # "closed" => api.tasks \in View /\ api.rets \in [Tasks -> Nat]
    /\ api.kind \in {"retry", "skip"} => api.task \in Tasks
    /\ calls \subseteq Calls

\* A process opens a session, or closes it.
LEMMA ServiceOpens ==
    ASSUME Services, NEW p \in Procs, NEW r, svc' = [svc EXCEPT ![p] = r],
           r \in Session,
           r.kind # "closed" => r.tasks \in View /\ (r.kind = "dead" => r.task \in Tasks),
           cancelling' = cancelling, buffer' = buffer, letters' \in [Procs -> SUBSET Tasks]
    PROVE  Services'
<1>1. svc' \in [Procs -> Session]
  BY DEF Services
<1>2. \A q \in Procs : svc'[q] = IF q = p THEN r ELSE svc[q]
  BY DEF Services
<1> QED BY <1>1, <1>2 DEF Services

\* Every step keeps what the processes hold in memory typed.
LEMMA ServicesStep == ASSUME Inv, [Next]_vars PROVE Services'
<1>0. Services /\ Tables /\ Coroutines /\ JobRows
  BY DEF Inv, Sessions, Services
<1>1. CASE UNCHANGED process
  BY <1>0, <1>1 DEF process, Services
<1>2. proc \in [Workers -> Procs] /\ ApiProc \in Procs
  BY EngineAssumption
<1>3. \A p \in Procs : /\ UNCHANGED <<buffer, letters, svc>>
                       /\ cancelling' \in {cancelling, [cancelling EXCEPT ![p] = TRUE],
                                           [cancelling EXCEPT ![p] = FALSE]}
                       => Services'
  BY <1>0 DEF Services
<1>4. ASSUME NEW w \in Workers, HandlerInterrupted(w) PROVE Services'
  BY <1>2, <1>3, <1>4 DEF HandlerInterrupted
<1>5. ASSUME NEW p \in Procs, EnforceCancellations(p) PROVE Services'
  BY <1>3, <1>5 DEF EnforceCancellations
<1>6. CASE CancelCommit
  <2>1. cancelling' = [cancelling EXCEPT ![ApiProc] = Inflight(ApiProc) # {}]
    BY <1>6 DEF CancelCommit
  <2>2. cancelling' \in [Procs -> BOOLEAN]
    BY <1>0, <2>1 DEF Services
  <2> QED BY <1>0, <1>6, <2>2 DEF CancelCommit, Services
<1>7. ASSUME NEW p \in Procs, Requeue(p, Expired) PROVE buffer' \in [Procs -> SUBSET Jobs]
  BY <1>0, <1>7 DEF Requeue, Expired, Services
<1>8. ASSUME NEW w \in Workers, DequeueRequeue(w) PROVE Services'
  <2>1. buffer' \in [Procs -> SUBSET Jobs]
    BY <1>2, <1>7, <1>8 DEF DequeueRequeue
  <2> QED BY <1>0, <1>8, <2>1 DEF DequeueRequeue, Services
<1>9. ASSUME NEW w \in Workers, ProcessDeadLetters(w) PROVE Services'
  <2>1. {j[1] : j \in buffer[proc[w]]} \subseteq Tasks
    BY <1>0, <1>2 DEF Services, Jobs
  <2>2. /\ letters' = [letters EXCEPT ![proc[w]] = @ \cup {j[1] : j \in buffer[proc[w]]}]
        /\ buffer' = [buffer EXCEPT ![proc[w]] = {}]
        /\ UNCHANGED <<cancelling, svc>>
    BY <1>9 DEF ProcessDeadLetters
  <2>3. letters' \in [Procs -> SUBSET Tasks] /\ buffer' \in [Procs -> SUBSET Jobs]
    BY <1>0, <1>2, <2>1, <2>2 DEF Services
  <2> QED BY <1>0, <2>2, <2>3 DEF Services
<1>10. ASSUME NEW p \in Procs, WatchdogRequeue(p) PROVE Services'
  <2> DEFINE T == {j[1] : j \in {i \in Expired : attempts[i] >= PoisonMaxAttempts}}
  <2>1. T \subseteq Tasks
    BY DEF Expired, Jobs
  <2>2. letters' = [letters EXCEPT ![p] = T] /\ UNCHANGED <<cancelling, svc>>
    BY <1>10 DEF WatchdogRequeue
  <2>3. buffer' \in [Procs -> SUBSET Jobs]
    BY <1>7, <1>10 DEF WatchdogRequeue
  <2> HIDE DEF T
  <2> QED BY <1>0, <2>1, <2>2, <2>3 DEF Services
<1>11. ASSUME NEW p \in Procs, WatchdogDrain(p) PROVE Services'
  <2>1. buffer' \in [Procs -> SUBSET Jobs]
    BY <1>0, <1>11 DEF WatchdogDrain, Services
  <2> QED BY <1>0, <1>11, <2>1 DEF WatchdogDrain, Services
<1>12. ASSUME NEW p \in Procs, ReapHungTasks(p) PROVE Services'
  <2>1. letters' \in [Procs -> SUBSET Tasks]
    BY <1>0, <1>12 DEF ReapHungTasks, Services
  <2> QED BY <1>0, <1>12, <2>1 DEF ReapHungTasks, Services
<1>13. ASSUME NEW p \in Procs, NEW t \in Tasks, DeadLetterLoad(p, t) PROVE Services'
  <2>1. PICK r \in {Closed, Opened("dead", t)} : svc' = [svc EXCEPT ![p] = r]
    BY <1>13 DEF DeadLetterLoad
  <2>2. /\ r \in Session
        /\ r.kind # "closed" => r.tasks \in View /\ (r.kind = "dead" => r.task \in Tasks)
    BY <1>0, ClosedType, OpenedType
  <2>3. /\ cancelling' = cancelling /\ buffer' = buffer
        /\ letters' \in [Procs -> SUBSET Tasks]
    BY <1>0, <1>13 DEF DeadLetterLoad, Services
  <2> QED BY <1>0, <2>1, <2>2, <2>3, ServiceOpens
<1>14. ASSUME NEW p \in Procs, FinalizeOrphaned(p) PROVE Services'
  <2>1. PICK r \in {Closed, Opened("finalize", None)} : svc' = [svc EXCEPT ![p] = r]
    BY <1>14 DEF FinalizeOrphaned
  <2>2. /\ r \in Session
        /\ r.kind # "closed" => r.tasks \in View /\ (r.kind = "dead" => r.task \in Tasks)
    BY <1>0, ClosedType, OpenedType
  <2>3. UNCHANGED <<cancelling, buffer, letters>>
    BY <1>14 DEF FinalizeOrphaned
  <2>4. letters' \in [Procs -> SUBSET Tasks]
    BY <1>0, <2>3 DEF Services
  <2> QED BY <1>0, <2>1, <2>2, <2>3, <2>4, ServiceOpens
<1>15. ASSUME NEW p \in Procs, ServiceCommit(p) PROVE Services'
  <2>1. /\ svc' = [svc EXCEPT ![p] = Closed]
        /\ UNCHANGED <<cancelling, buffer, letters>>
    BY <1>15 DEF ServiceCommit
  <2>2. letters' \in [Procs -> SUBSET Tasks]
    BY <1>0, <2>1 DEF Services
  <2> QED BY <1>0, <2>1, <2>2, ClosedType, ServiceOpens
<1>16. ASSUME NEW p \in Procs, Crash(p) PROVE Services'
  <2>1. /\ svc' = [svc EXCEPT ![p] = Closed]
        /\ cancelling' = [cancelling EXCEPT ![p] = FALSE]
        /\ buffer' = [buffer EXCEPT ![p] = {}]
        /\ letters' = [letters EXCEPT ![p] = {}]
    BY <1>16 DEF Crash
  <2>2. \A q \in Procs : svc'[q] = IF q = p THEN Closed ELSE svc[q]
    BY <1>0, <2>1 DEF Services
  <2>3. svc' \in [Procs -> Session]
    BY <1>0, <2>1, ClosedType DEF Services
  <2>4. /\ cancelling' \in [Procs -> BOOLEAN] /\ buffer' \in [Procs -> SUBSET Jobs]
        /\ letters' \in [Procs -> SUBSET Tasks]
    BY <1>0, <2>1 DEF Services
  <2> QED BY <1>0, <2>2, <2>3, <2>4, ClosedType DEF Services
<1>17. ASSUME NEW w \in Workers,
              \/ \E j \in Jobs : Claim(w, j)
              \/ LoadTerminal(w) \/ LoadCancelled(w) \/ LoadTask(w) \/ Start(w) \/ Launch(w)
              \/ HandlerSucceeds(w) \/ HandlerRetries(w) \/ HandlerFails(w) \/ Collect(w)
              \/ \E order \in RowOrders : Settle(w, order)
              \/ SlipLease(w)
       PROVE  UNCHANGED process
  BY <1>17 DEF Claim, LoadTerminal, LoadCancelled, LoadTask, Start, Launch, HandlerSucceeds,
     HandlerRetries, HandlerFails, Collect, Settle, SlipLease
<1>18. ASSUME \/ RetryCommit \/ SkipCommit \/ \E order \in RowOrders : EnqueueCommit(order)
              \/ \E c \in Calls : ApiCall(c)
              \/ UNCHANGED vars
       PROVE  UNCHANGED process
  BY <1>18 DEF RetryCommit, SkipCommit, EnqueueCommit, ApiCall, vars
<1> QED
  BY <1>1, <1>4, <1>5, <1>6, <1>8, <1>9, <1>10, <1>11, <1>12, <1>13, <1>14, <1>15, <1>16,
     <1>17, <1>18 DEF Next, WorkerStep, LetterStep, WatchdogStep, ApiStep

\* Every step keeps the session of the API call typed.
LEMMA ApiSessionStep == ASSUME Inv, [Next]_vars PROVE ApiSession'
<1>0. ApiSession /\ Tables
  BY DEF Inv, Sessions, ApiSession
<1>1. CASE UNCHANGED client
  BY <1>0, <1>1 DEF client, ApiSession
<1>2. api' = Closed /\ calls' = calls => ApiSession'
  BY <1>0, ClosedType DEF ApiSession
<1>3. ASSUME NEW c \in Calls, ApiCall(c) PROVE ApiSession'
  <2>1. /\ c.op \in {"cancel", "retry", "skip"} /\ c.task \in Tasks \cup {None}
        /\ c.op \in {"retry", "skip"} => c.task \in Tasks
    BY EngineAssumption
  <2>2. api' = Opened(c.op, c.task) /\ calls' = calls \ {c}
    BY <1>3 DEF ApiCall
  <2> QED BY <1>0, <2>1, <2>2, OpenedType DEF ApiSession
<1>4. ASSUME RetryCommit PROVE ApiSession'
  <2> DEFINE reset == {t \in Downstream(api.task) \cup {api.task} :
                          api.tasks[t] \in {"failed", "cancelled", "skipped", "pending"}}
             new == [t \in Tasks |-> IF t \in reset THEN "pending" ELSE api.tasks[t]]
             rets == [t \in Tasks |-> IF t \in reset THEN 0 ELSE api.rets[t]]
  <2>1. api.kind = "retry" /\ api \in Session /\ api.tasks \in View /\ api.rets \in [Tasks -> Nat]
    BY <1>0, <1>4 DEF RetryCommit, ApiSession
  <2>2. /\ api' = [api EXCEPT !.kind = "enqueue", !.tasks = new, !.rets = rets,
                              !.ex = "running", !.cancel = FALSE]
        /\ calls' = calls
    BY <1>4 DEF RetryCommit
  <2> HIDE DEF reset
  <2>3. new \in View /\ rets \in [Tasks -> Nat]
    BY <2>1 DEF View, TaskState
  <2> HIDE DEF new, rets
  <2>4. /\ api' \in Session /\ api'.kind = "enqueue" /\ api'.tasks = new /\ api'.rets = rets
    BY <2>1, <2>2, <2>3 DEF Session, ExecutionState
  <2> QED BY <1>0, <2>2, <2>3, <2>4 DEF ApiSession
<1>5. CASE SkipCommit
  <2> DEFINE new == [api.tasks EXCEPT ![api.task] = "skipped"]
  <2>1. /\ api.kind = "skip" /\ api \in Session /\ api.tasks \in View
        /\ api.rets \in [Tasks -> Nat] /\ api.task \in Tasks
    BY <1>0, <1>5 DEF SkipCommit, ApiSession
  <2>2. api' = [api EXCEPT !.kind = "enqueue", !.tasks = new] /\ calls' = calls
    BY <1>5 DEF SkipCommit
  <2>3. new \in View
    BY <2>1 DEF View, TaskState
  <2> HIDE DEF new
  <2>4. /\ api' \in Session /\ api'.kind = "enqueue" /\ api'.tasks = new
        /\ api'.rets = api.rets
    BY <2>1, <2>2, <2>3 DEF Session
  <2> QED BY <1>0, <2>1, <2>2, <2>3, <2>4 DEF ApiSession
<1>6. ASSUME CancelCommit \/ \E order \in RowOrders : EnqueueCommit(order) PROVE ApiSession'
  BY <1>2, <1>6 DEF CancelCommit, EnqueueCommit
<1>7. ASSUME NEW p \in Procs, Crash(p) PROVE ApiSession'
  BY <1>0, <1>2, <1>7 DEF Crash, ApiSession
<1>8. ASSUME NEW w \in Workers, WorkerStep(w) \/ SlipLease(w) PROVE UNCHANGED client
  BY <1>8 DEF WorkerStep, Claim, LoadTerminal, LoadCancelled, LoadTask, Start, Launch,
     HandlerSucceeds, HandlerRetries, HandlerFails, HandlerInterrupted, Collect, Settle,
     DequeueRequeue, ProcessDeadLetters, SlipLease
<1>9. ASSUME NEW p \in Procs, LetterStep(p) \/ WatchdogStep(p) PROVE UNCHANGED client
  BY <1>9 DEF LetterStep, DeadLetterLoad, ServiceCommit, WatchdogStep, WatchdogRequeue,
     WatchdogDrain, EnforceCancellations, ReapHungTasks, FinalizeOrphaned
<1> QED
  BY <1>1, <1>3, <1>4, <1>5, <1>6, <1>7, <1>8, <1>9 DEF Next, ApiStep, vars

-----------------------------------------------------------------------------
(***************************************************************************)
(* The theorems.                                                           *)
(***************************************************************************)

\* A fresh execution, with the API call that goes on, satisfies the invariant.
LEMMA InvInit == Init => Inv
<1> SUFFICES ASSUME Init PROVE Inv
  OBVIOUS
<1>1. Tables
  BY DEF Init, Tables, View, TaskState, ExecutionState
<1>2. JobRows
  BY EngineAssumption DEF Init, JobRows, Jobs, Lifecycle!States
<1>3. Coroutines
  BY ClosedType DEF Init, Coroutines
<1>4. Sessions
  BY <1>1, ClosedType, OpenedType DEF Init, Sessions
<1> QED BY <1>1, <1>2, <1>3, <1>4 DEF Inv

\* No transaction, crash or lost lease breaks the invariant.
THEOREM InvHolds == Spec => []Inv
<1>1. ASSUME Inv, [Next]_vars PROVE Inv'
  <2>1. Sessions'
    BY <1>1, ServicesStep, ApiSessionStep DEF Services, ApiSession, Sessions
  <2> QED BY <1>1, <2>1, TablesStep, JobsStep, CoroutinesStep DEF Inv, JobsMove
<1> QED BY <1>1, InvInit, PTL DEF Spec

\* Type correctness of the execution's rows and of the jobs the workers hold.
THEOREM TypeCorrect == Spec => []TypeOK
<1>1. Inv => TypeOK
  BY DEF Inv, Tables, JobRows, Coroutines, TypeOK, View, ExecutionState
<1> QED BY <1>1, InvHolds, PTL

\* The transactions of workers, watchdogs and API calls, whatever they
\* interleave to, keep every job on its life cycle.
THEOREM Refinement == Spec => ImplementsLifecycle
<1>1. Init => Lifecycle!LInit
  BY DEF Init, Lifecycle!LInit
<1>2. Inv /\ [Next]_vars => [Lifecycle!LNext]_(Lifecycle!lifecycle)
  BY JobsStep DEF JobsMove
<1> QED
  BY <1>1, <1>2, InvHolds, PTL DEF Spec, ImplementsLifecycle, Lifecycle!LSpec
=============================================================================
