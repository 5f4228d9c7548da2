---------------------------- MODULE LaunchProofs ----------------------------
(***************************************************************************)
(* Proofs about Launch, for any number of API requests, scheduler replicas *)
(* and schedules, any quota and any length of time.                        *)
(***************************************************************************)
EXTENDS Launch, TLAPS, FiniteSetTheorems

-----------------------------------------------------------------------------
(***************************************************************************)
(* The times of a cron expression: the positive multiples of Period.       *)
(***************************************************************************)
OnSchedule(s, n) ==
    n \in Nat /\ (s \in Cron => \E k \in Nat \ {0} : n = k * Period)

\* Multiples of a period, counted.
LEMMA Multiples ==
    ASSUME NEW k \in Nat \ {0}, NEW n \in Nat, k * Period <= n
    PROVE  /\ (k * Period) % Period = 0
           /\ (k * Period) \div Period = k
           /\ k \in 1..(n \div Period)
<1>1. Period \in Nat /\ Period > 0
  BY LaunchAssumption
<1> DEFINE q == n \div Period
<1>2. q \in Nat /\ n < (q + 1) * Period
  BY <1>1
<1>3. (k * Period) % Period = 0 /\ (k * Period) \div Period = k
  BY <1>1
<1> HIDE DEF q
<1>4. ASSUME q + 1 <= k PROVE FALSE
  <2>1. (q + 1) * Period <= k * Period
    BY <1>1, <1>2, <1>4
  <2> QED BY <1>1, <1>2, <2>1
<1> QED BY <1>2, <1>3, <1>4 DEF q

\* compute_next_run names a time of the schedule.
LEMMA NextRunType ==
    ASSUME NEW s \in Schedules, NEW base \in Nat
    PROVE  NextRun(s, base) \in Nat /\ OnSchedule(s, NextRun(s, base))
<1>1. Period \in Nat /\ Period > 0
  BY LaunchAssumption
<1>2. base \div Period \in Nat
  BY <1>1
<1>3. (base \div Period) + 1 \in Nat \ {0} /\ ((base \div Period) + 1) * Period \in Nat
  BY <1>1, <1>2
<1> QED BY <1>1, <1>3 DEF NextRun, OnSchedule

-----------------------------------------------------------------------------
(***************************************************************************)
(* The catalog as it changes under the executions: what a session read of  *)
(* a workflow stays readable, because revisions are only added.            *)
(***************************************************************************)
CatalogTypes ==
    /\ revisions \in [Ids -> Seq(Document)]
    /\ is_archived \in [Ids -> BOOLEAN]

Grows ==
    \A i \in Ids : /\ Len(revisions[i]) <= Len(revisions'[i])
                   /\ \A n \in 1..Len(revisions[i]) : revisions'[i][n] = revisions[i][n]

\* create, update and archive add revisions and change none.
LEMMA CatalogStep ==
    ASSUME CatalogTypes, CatalogNext
    PROVE  CatalogTypes' /\ Grows
<1>1. PICK i \in Ids : (\E d \in Document : Add(i, d) \/ Revise(i, d)) \/ Archive(i)
  BY DEF CatalogNext
<1>2. ASSUME NEW d \in Document, Add(i, d) PROVE CatalogTypes' /\ Grows
  <2>1. revisions' = [revisions EXCEPT ![i] = <<d>>] /\ is_archived' = is_archived
    BY <1>2 DEF Add
  <2>2. revisions[i] = <<>> /\ <<d>> \in Seq(Document)
    BY <1>2 DEF Add, Exists
  <2>3. revisions' \in [Ids -> Seq(Document)]
    BY <2>1, <2>2 DEF CatalogTypes
  <2>4. Grows
    BY <2>1, <2>2 DEF Grows, CatalogTypes
  <2> QED BY <2>1, <2>3, <2>4 DEF CatalogTypes
<1>3. ASSUME NEW d \in Document, Revise(i, d) PROVE CatalogTypes' /\ Grows
  <2>1. revisions' = [revisions EXCEPT ![i] = Append(revisions[i], d)] /\ is_archived' = is_archived
    BY <1>3 DEF Revise, CatalogTypes
  <2>2. /\ revisions[i] \in Seq(Document) /\ Append(revisions[i], d) \in Seq(Document)
        /\ Len(Append(revisions[i], d)) = Len(revisions[i]) + 1
        /\ \A n \in 1..Len(revisions[i]) : Append(revisions[i], d)[n] = revisions[i][n]
    BY DEF CatalogTypes
  <2>3. revisions' \in [Ids -> Seq(Document)]
    BY <2>1, <2>2 DEF CatalogTypes
  <2>4. Grows
    <3> SUFFICES ASSUME NEW k \in Ids
                 PROVE  /\ Len(revisions[k]) <= Len(revisions'[k])
                        /\ \A n \in 1..Len(revisions[k]) : revisions'[k][n] = revisions[k][n]
      BY DEF Grows
    <3>1. revisions[k] \in Seq(Document) /\ Len(revisions[k]) \in Nat
      BY DEF CatalogTypes
    <3>2. revisions'[k] = IF k = i THEN Append(revisions[i], d) ELSE revisions[k]
      BY <2>1 DEF CatalogTypes
    <3> QED BY <2>2, <3>1, <3>2
  <2> QED BY <2>1, <2>3, <2>4 DEF CatalogTypes
<1>4. ASSUME Archive(i) PROVE CatalogTypes' /\ Grows
  BY <1>4 DEF Archive, CatalogTypes, Grows
<1> QED BY <1>1, <1>2, <1>3, <1>4

-----------------------------------------------------------------------------
(***************************************************************************)
(* The inductive invariant.  A session carries what it read from one       *)
(* statement to the next: the workflow it read is still there, the         *)
(* document it read is still that of the revision it noted, the key a      *)
(* replica inserts is the slot of the schedule it is at, and that slot is  *)
(* a time of the schedule that has come.                                   *)
(***************************************************************************)
Slots == Schedules \X Nat

Candidate == [schedule : Schedules, wf : Ids, slot : Nat]
Change == [schedule : Schedules, disable : BOOLEAN, next_run_at : Nat]

Execution ==
    [wf : Ids, key : Keys \cup {None} \cup Slots, document : Document, revision : Nat,
     retried : BOOLEAN, active : BOOLEAN, enqueued : BOOLEAN]

ScheduleRow == [wf : Ids, next_run_at : Nat, is_enabled : BOOLEAN, deleted : BOOLEAN]

TriggerCall ==
    [pc : {"idle", "lookup", "workflow", "revisions", "count", "spawn", "enqueue"},
     wf : Ids \cup {None}, key : Keys \cup {None} \cup Slots, defs : Nat,
     names : SUBSET UNION {task_names[l] : l \in TaskLists},
     document : Document \cup {None}, revision : Nat, retried : BOOLEAN, row : Nat]

Iteration ==
    [at : Nat, batch : SUBSET Candidate, current : Candidate \cup {None},
     pending : SUBSET Change]

\* A workflow that has been created, among the revisions rs.
Created(rs, i) == i \in Ids /\ rs[i] # <<>>

\* What a session in trigger_workflow has read, while the revisions are rs and
\* there are n executions.
SoundCall(c, rs, n) ==
    /\ c \in TriggerCall
    /\ c.pc # "idle" => Created(rs, c.wf)
    /\ c.pc \in {"count", "spawn"} =>
           c.revision \in DOMAIN rs[c.wf] /\ c.document = rs[c.wf][c.revision]
    /\ c.pc = "enqueue" => c.row \in 1..n

\* What a replica in run_once has read, at time t.
SoundIteration(l, rs, t) ==
    /\ l \in Iteration
    /\ l.current # None => l.current \in l.batch
    /\ \A c \in l.batch : Created(rs, c.wf) /\ OnSchedule(c.schedule, c.slot) /\ c.slot <= t
    /\ \A p \in l.pending : ~p.disable => OnSchedule(p.schedule, p.next_run_at)

\* A replica triggers the run of the schedule it is at, with its slot as key.
Linked(c, l) ==
    /\ c.pc # "idle" <=> l.current # None
    /\ c.pc # "idle" => c.key = <<l.current.schedule, l.current.slot>>

SessionsSound ==
    /\ tr \in [Sessions -> TriggerCall]
    /\ loop \in [Replicas -> Iteration]
    /\ \A s \in Sessions : SoundCall(tr[s], revisions, Len(executions))
    /\ \A s \in Callers : tr[s].key \in Keys \cup {None}
    /\ \A r \in Replicas : SoundIteration(loop[r], revisions, now) /\ Linked(tr[r], loop[r])

SchedulesSound ==
    /\ schedules \in [Schedules -> ScheduleRow \cup {None}]
    /\ \A s \in Schedules : schedules[s] # None =>
           Created(revisions, schedules[s].wf) /\ OnSchedule(s, schedules[s].next_run_at)

\* Clients do not send keys of the form the scheduler makes.
KeysApart == Keys \cap Slots = {} /\ None \notin Slots

\* A run with a schedule's key was due.
RunsDue ==
    KeysApart =>
        \A e \in Rows : executions[e].key \in Slots =>
            OnSchedule(executions[e].key[1], executions[e].key[2]) /\ executions[e].key[2] <= now

ExecutionsSound ==
    /\ executions \in Seq(Execution)
    /\ \A e \in Rows : Created(revisions, executions[e].wf)
    /\ OneRunPerKey
    /\ SnapshotMatches
    /\ RunsDue

Inv ==
    /\ CatalogTypes /\ now \in Nat
    /\ ExecutionsSound
    /\ SchedulesSound
    /\ SessionsSound

\* Nothing a session relies on is taken back by a step.
Forward ==
    /\ CatalogTypes' /\ Grows
    /\ Len(executions) \in Nat /\ Len(executions') \in Nat
    /\ Len(executions) <= Len(executions')
    /\ now \in Nat /\ now' \in Nat /\ now <= now'

\* Created workflows and readable revisions stay.
LEMMA CreatedStays ==
    ASSUME CatalogTypes, CatalogTypes', Grows, NEW i, Created(revisions, i)
    PROVE  /\ Created(revisions', i)
           /\ \A n \in DOMAIN revisions[i] :
                  n \in DOMAIN revisions'[i] /\ revisions'[i][n] = revisions[i][n]
<1>1. i \in Ids /\ revisions[i] \in Seq(Document) /\ revisions'[i] \in Seq(Document)
  BY DEF Created, CatalogTypes
<1>2. /\ Len(revisions[i]) \in Nat /\ Len(revisions'[i]) \in Nat
      /\ DOMAIN revisions[i] = 1..Len(revisions[i])
      /\ DOMAIN revisions'[i] = 1..Len(revisions'[i])
  BY <1>1
<1>3. Len(revisions[i]) # 0
  BY <1>1 DEF Created
<1>4. revisions'[i] # <<>>
  BY <1>1, <1>2, <1>3 DEF Grows
<1> QED BY <1>1, <1>2, <1>4 DEF Created, Grows

\* A session that does not step stays sound.
LEMMA CallStays ==
    ASSUME CatalogTypes, Forward, NEW c, SoundCall(c, revisions, Len(executions))
    PROVE  SoundCall(c, revisions', Len(executions'))
<1>1. c.pc # "idle" => Created(revisions', c.wf)
  BY CreatedStays DEF SoundCall, Forward
<1>2. c.pc \in {"count", "spawn"} =>
          c.revision \in DOMAIN revisions'[c.wf] /\ c.document = revisions'[c.wf][c.revision]
  BY CreatedStays DEF SoundCall, Forward
<1> QED BY <1>1, <1>2 DEF SoundCall, Forward

\* ... and so does a replica's iteration.
LEMMA IterationStays ==
    ASSUME CatalogTypes, Forward, NEW l, SoundIteration(l, revisions, now)
    PROVE  SoundIteration(l, revisions', now')
<1> SUFFICES ASSUME NEW c \in l.batch
             PROVE  Created(revisions', c.wf) /\ c.slot <= now'
  BY DEF SoundIteration
<1>1. Created(revisions, c.wf) /\ c.slot <= now /\ c.slot \in Nat
  BY DEF SoundIteration, OnSchedule
<1> QED BY <1>1, CreatedStays DEF Forward

\* No session steps.
LEMMA NoSessionStep ==
    ASSUME CatalogTypes, Forward, SessionsSound, tr' = tr, loop' = loop
    PROVE  SessionsSound'
<1>1. \A s \in Sessions : SoundCall(tr[s], revisions', Len(executions'))
  BY CallStays DEF SessionsSound
<1>2. \A r \in Replicas : SoundIteration(loop[r], revisions', now')
  BY IterationStays DEF SessionsSound
<1> QED BY <1>1, <1>2 DEF SessionsSound

\* An API request takes a step.
LEMMA CallerStep ==
    ASSUME CatalogTypes, Forward, SessionsSound, NEW s \in Callers, NEW c,
           tr' = [tr EXCEPT ![s] = c], loop' = loop,
           SoundCall(c, revisions', Len(executions')), c.key \in Keys \cup {None}
    PROVE  SessionsSound'
<1>1. s \in Sessions /\ s \notin Replicas
  BY LaunchAssumption DEF Sessions
<1>2. \A v \in Sessions : tr'[v] = IF v = s THEN c ELSE tr[v]
  BY DEF SessionsSound
<1>3. tr' \in [Sessions -> TriggerCall]
  BY DEF SessionsSound, SoundCall
<1>4. \A v \in Sessions : SoundCall(tr[v], revisions', Len(executions'))
  BY CallStays DEF SessionsSound
<1>5. \A r \in Replicas : SoundIteration(loop[r], revisions', now')
  BY IterationStays DEF SessionsSound
<1>6. \A v \in Sessions : SoundCall(tr'[v], revisions', Len(executions'))
  BY <1>2, <1>4
<1>7. \A v \in Callers : tr'[v].key \in Keys \cup {None}
  BY <1>2 DEF SessionsSound, Sessions
<1>8. \A r \in Replicas : tr'[r] = tr[r]
  BY <1>1, <1>2 DEF Sessions
<1> QED BY <1>3, <1>5, <1>6, <1>7, <1>8 DEF SessionsSound

\* A scheduler replica takes a step.
LEMMA ReplicaMoves ==
    ASSUME CatalogTypes, Forward, SessionsSound, NEW s \in Replicas, NEW c, NEW l,
           tr' = [tr EXCEPT ![s] = c], loop' = [loop EXCEPT ![s] = l],
           SoundCall(c, revisions', Len(executions')), SoundIteration(l, revisions', now'),
           Linked(c, l)
    PROVE  SessionsSound'
<1>1. s \in Sessions /\ s \notin Callers
  BY LaunchAssumption DEF Sessions
<1>2. \A v \in Sessions : tr'[v] = IF v = s THEN c ELSE tr[v]
  BY DEF SessionsSound
<1>3. \A v \in Replicas : loop'[v] = IF v = s THEN l ELSE loop[v]
  BY DEF SessionsSound
<1>4. tr' \in [Sessions -> TriggerCall] /\ loop' \in [Replicas -> Iteration]
  BY DEF SessionsSound, SoundCall, SoundIteration
<1>5. \A v \in Sessions : SoundCall(tr[v], revisions', Len(executions'))
  BY CallStays DEF SessionsSound
<1>6. \A r \in Replicas : SoundIteration(loop[r], revisions', now')
  BY IterationStays DEF SessionsSound
<1>7. \A v \in Sessions : SoundCall(tr'[v], revisions', Len(executions'))
  BY <1>2, <1>5
<1>8. \A v \in Callers : tr'[v] = tr[v]
  BY <1>1, <1>2 DEF Sessions
<1>9. \A r \in Replicas : /\ SoundIteration(loop'[r], revisions', now')
                          /\ Linked(tr'[r], loop'[r])
  BY <1>2, <1>3, <1>6 DEF SessionsSound, Sessions
<1> QED BY <1>4, <1>7, <1>8, <1>9 DEF SessionsSound

\* An idle session and a resting replica.
LEMMA IdleIsSound ==
    /\ \A rs, n : SoundCall(NoCall, rs, n)
    /\ \A rs, t : SoundIteration(NoLoop, rs, t)
    /\ Linked(NoCall, NoLoop) /\ NoCall.key = None
    /\ NoCall \in TriggerCall /\ NoLoop \in Iteration
BY DEF NoCall, NoLoop, SoundCall, SoundIteration, Linked, TriggerCall, Iteration

\* A call that ends: the scheduler goes on to the next schedule of its batch.
LEMMA ReturnStep ==
    ASSUME CatalogTypes, Forward, SessionsSound, NEW s \in Sessions, tr[s].pc # "idle",
           NEW ok, Return(s, ok)
    PROVE  SessionsSound'
<1>1. tr' = [tr EXCEPT ![s] = NoCall]
  BY DEF Return
<1>2. CASE s \notin Replicas
  <2>1. loop' = loop /\ s \in Callers
    BY <1>2 DEF Return, Sessions
  <2> QED BY <1>1, <2>1, IdleIsSound, CallerStep
<1>3. CASE s \in Replicas
  <2> DEFINE c == loop[s].current
             p == [schedule |-> c.schedule, disable |-> FALSE,
                   next_run_at |-> NextRun(c.schedule, loop[s].at)]
             l == [loop[s] EXCEPT !.batch = @ \ {c}, !.current = None, !.pending = @ \cup {p}]
  <2>1. /\ loop[s] \in Iteration /\ c # None /\ c \in Candidate
        /\ SoundIteration(loop[s], revisions, now)
    BY <1>3 DEF SessionsSound, Linked, SoundIteration, Iteration
  <2>2. loop' = [loop EXCEPT ![s] = l]
    BY <1>3 DEF Return, SessionsSound
  <2>3. c.schedule \in Schedules /\ loop[s].at \in Nat
    BY <2>1 DEF Candidate, Iteration
  <2>4. p \in Change /\ OnSchedule(p.schedule, p.next_run_at)
    BY <2>3, NextRunType DEF Change
  <2> HIDE DEF p
  <2>5. /\ l \in Iteration /\ l.current = None /\ l.batch = loop[s].batch \ {c}
        /\ l.pending = loop[s].pending \cup {p}
    BY <2>1, <2>4 DEF Iteration
  <2> HIDE DEF l, c
  <2>6. SoundIteration(l, revisions, now)
    BY <2>1, <2>4, <2>5 DEF SoundIteration
  <2>7. SoundIteration(l, revisions', now')
    BY <2>6, IterationStays
  <2>8. Linked(NoCall, l)
    BY <2>5 DEF Linked, NoCall
  <2> QED BY <1>1, <1>3, <2>2, <2>7, <2>8, IdleIsSound, ReplicaMoves
<1> QED BY <1>2, <1>3

\* A rollback: the call and the iteration it belongs to are gone.
LEMMA AbortStep ==
    ASSUME CatalogTypes, Forward, SessionsSound, NEW s \in Sessions, Abort(s)
    PROVE  SessionsSound'
<1>1. tr' = [tr EXCEPT ![s] = NoCall]
  BY DEF Abort
<1>2. CASE s \notin Replicas
  <2>1. loop' = loop /\ s \in Callers
    BY <1>2 DEF Abort, Sessions
  <2> QED BY <1>1, <2>1, IdleIsSound, CallerStep
<1>3. CASE s \in Replicas
  <2>1. loop' = [loop EXCEPT ![s] = NoLoop]
    BY <1>3 DEF Abort
  <2> QED BY <1>1, <1>3, <2>1, IdleIsSound, ReplicaMoves
<1> QED BY <1>2, <1>3

\* A call that goes on with the same workflow and the same key.
LEMMA GoOn ==
    ASSUME CatalogTypes, Forward, SessionsSound, NEW s \in Sessions, tr[s].pc # "idle",
           NEW c, tr' = [tr EXCEPT ![s] = c], SoundCall(c, revisions', Len(executions')),
           c.key = tr[s].key, c.pc # "idle",
           NEW P, s \in Replicas => P \in {{}, loop[s].pending},
           loop' = IF s \in Replicas THEN [loop EXCEPT ![s] = [loop[s] EXCEPT !.pending = P]]
                   ELSE loop
    PROVE  SessionsSound'
<1>1. CASE s \notin Replicas
  <2>1. loop' = loop /\ s \in Callers
    BY <1>1 DEF Sessions
  <2>2. c.key \in Keys \cup {None}
    BY <2>1 DEF SessionsSound
  <2> QED BY <2>1, <2>2, CallerStep
<1>2. CASE s \in Replicas
  <2> DEFINE l == [loop[s] EXCEPT !.pending = P]
  <2>1. SoundIteration(loop[s], revisions, now) /\ Linked(tr[s], loop[s])
    BY <1>2 DEF SessionsSound
  <2>2. /\ l \in Iteration /\ l.batch = loop[s].batch /\ l.current = loop[s].current
        /\ l.pending = P
    BY <1>2, <2>1 DEF SoundIteration, Iteration
  <2>3. loop' = [loop EXCEPT ![s] = l]
    BY <1>2
  <2> HIDE DEF l
  <2>4. SoundIteration(l, revisions, now)
    BY <1>2, <2>1, <2>2 DEF SoundIteration
  <2>5. SoundIteration(l, revisions', now')
    BY <2>4, IterationStays
  <2>6. Linked(c, l)
    BY <2>1, <2>2 DEF Linked
  <2> QED BY <1>2, <2>3, <2>5, <2>6, ReplicaMoves
<1> QED BY <1>1, <1>2

\* Schedules that no transaction writes stay sound.
LEMMA SchedulesStay ==
    ASSUME CatalogTypes, CatalogTypes', Grows, SchedulesSound, schedules' = schedules
    PROVE  SchedulesSound'
BY CreatedStays DEF SchedulesSound

\* A replica's commit writes times of the schedules and nothing else.
LEMMA FlushedSound ==
    ASSUME CatalogTypes, SchedulesSound, revisions' = revisions,
           NEW P \in SUBSET Change, Flushable(P),
           \A p \in P : ~p.disable => OnSchedule(p.schedule, p.next_run_at),
           schedules' = Flushed(P)
    PROVE  SchedulesSound'
<1>1. ASSUME NEW s \in Schedules
      PROVE  \/ schedules'[s] = schedules[s]
             \/ /\ schedules[s] # None
                /\ \/ schedules'[s] = [schedules[s] EXCEPT !.is_enabled = FALSE]
                   \/ \E n \in Nat : /\ OnSchedule(s, n)
                                     /\ schedules'[s] = [schedules[s] EXCEPT !.next_run_at = n]
  <2>1. CASE ~\E p \in P : p.schedule = s
    BY <2>1 DEF Flushed
  <2>2. CASE \E p \in P : p.schedule = s
    <3> DEFINE p == CHOOSE q \in P : q.schedule = s
    <3>1. p \in P /\ p.schedule = s
      BY <2>2
    <3>2. schedules'[s] = IF p.disable THEN [schedules[s] EXCEPT !.is_enabled = FALSE]
                          ELSE [schedules[s] EXCEPT !.next_run_at = p.next_run_at]
      BY <2>2 DEF Flushed
    <3> HIDE DEF p
    <3>3. schedules[s] # None /\ p.next_run_at \in Nat
      BY <3>1 DEF Flushable, Live, Change
    <3>4. ~p.disable => OnSchedule(s, p.next_run_at)
      BY <3>1
    <3> QED BY <3>2, <3>3, <3>4
  <2> QED BY <2>1, <2>2
<1>2. ASSUME NEW s \in Schedules
      PROVE  /\ schedules'[s] \in ScheduleRow \cup {None}
             /\ schedules'[s] # None => /\ Created(revisions, schedules'[s].wf)
                                        /\ OnSchedule(s, schedules'[s].next_run_at)
  <2>1. CASE schedules'[s] = schedules[s]
    BY <2>1 DEF SchedulesSound
  <2>2. schedules[s] # None => /\ schedules[s] \in ScheduleRow
                               /\ Created(revisions, schedules[s].wf)
                               /\ OnSchedule(s, schedules[s].next_run_at)
    BY DEF SchedulesSound
  <2>3. CASE schedules[s] # None /\ schedules'[s] = [schedules[s] EXCEPT !.is_enabled = FALSE]
    <3>1. /\ schedules'[s] \in ScheduleRow /\ schedules'[s].wf = schedules[s].wf
          /\ schedules'[s].next_run_at = schedules[s].next_run_at
      BY <2>2, <2>3 DEF ScheduleRow
    <3> QED BY <2>2, <2>3, <3>1
  <2>4. ASSUME NEW n \in Nat, OnSchedule(s, n), schedules[s] # None,
               schedules'[s] = [schedules[s] EXCEPT !.next_run_at = n]
        PROVE  /\ schedules'[s] \in ScheduleRow /\ Created(revisions, schedules'[s].wf)
               /\ OnSchedule(s, schedules'[s].next_run_at)
    <3>1. /\ schedules'[s] \in ScheduleRow /\ schedules'[s].wf = schedules[s].wf
          /\ schedules'[s].next_run_at = n
      BY <2>2, <2>4 DEF ScheduleRow
    <3> QED BY <2>2, <2>4, <3>1
  <2> QED BY <1>1, <2>1, <2>3, <2>4
<1>3. schedules' \in [Schedules -> ScheduleRow \cup {None}]
  <2>1. schedules' = [s \in Schedules |-> schedules'[s]]
    BY DEF Flushed
  <2> QED BY <1>2, <2>1
<1> QED BY <1>2, <1>3 DEF SchedulesSound

-----------------------------------------------------------------------------
(***************************************************************************)
(* The rows of executions.                                                 *)
(***************************************************************************)

\* What makes a row an execution of a revision of its workflow.
SoundRow(r, rs) ==
    /\ r \in Execution /\ Created(rs, r.wf)
    /\ r.revision \in DOMAIN rs[r.wf] /\ r.document = rs[r.wf][r.revision]

\* A run of the scheduler's, at time t.
DueRow(r, t) ==
    KeysApart => (r.key \in Slots => OnSchedule(r.key[1], r.key[2]) /\ r.key[2] <= t)

\* A sound row stays sound and a due row due.
LEMMA RowStays ==
    ASSUME CatalogTypes, Forward, NEW r, SoundRow(r, revisions), DueRow(r, now)
    PROVE  SoundRow(r, revisions') /\ DueRow(r, now')
<1>1. SoundRow(r, revisions')
  BY CreatedStays DEF SoundRow, Forward
<1>2. DueRow(r, now')
  <2> SUFFICES ASSUME KeysApart, r.key \in Slots
               PROVE  OnSchedule(r.key[1], r.key[2]) /\ r.key[2] <= now'
    BY DEF DueRow
  <2>1. OnSchedule(r.key[1], r.key[2]) /\ r.key[2] <= now
    BY DEF DueRow
  <2>2. r.key[2] \in Nat
    BY <2>1 DEF OnSchedule
  <2> QED BY <2>1, <2>2 DEF Forward
<1> QED BY <1>1, <1>2

\* The invariant of the rows, row by row.
LEMMA RowByRow ==
    ExecutionsSound <=>
        /\ executions \in Seq(Execution)
        /\ OneRunPerKey
        /\ \A e \in Rows : SoundRow(executions[e], revisions) /\ DueRow(executions[e], now)
BY DEF ExecutionsSound, SnapshotMatches, RunsDue, SoundRow, DueRow, Rows

\* The same, after a step.
LEMMA RowByRowNext ==
    ASSUME executions' \in Seq(Execution), OneRunPerKey',
           \A e \in DOMAIN executions' : /\ SoundRow(executions'[e], revisions')
                                         /\ DueRow(executions'[e], now')
    PROVE  ExecutionsSound'
BY DEF ExecutionsSound, SnapshotMatches, RunsDue, SoundRow, DueRow, Rows

\* Rows that only change their status keep the invariant.
LEMMA ExecutionsStay ==
    ASSUME CatalogTypes, Forward, ExecutionsSound, executions' \in Seq(Execution),
           DOMAIN executions' = DOMAIN executions,
           \A e \in Rows : /\ executions'[e].wf = executions[e].wf
                           /\ executions'[e].key = executions[e].key
                           /\ executions'[e].document = executions[e].document
                           /\ executions'[e].revision = executions[e].revision
    PROVE  ExecutionsSound'
<1>1. OneRunPerKey'
  BY DEF ExecutionsSound, OneRunPerKey, Rows
<1>2. ASSUME NEW e \in Rows
      PROVE  SoundRow(executions'[e], revisions') /\ DueRow(executions'[e], now')
  <2>1. SoundRow(executions[e], revisions') /\ DueRow(executions[e], now')
    BY RowByRow, RowStays
  <2>2. executions'[e] \in Execution
    BY DEF Rows
  <2> QED BY <2>1, <2>2 DEF SoundRow, DueRow
<1> QED BY <1>1, <1>2, RowByRowNext DEF Rows

\* An inserted row keeps it, if it is sound and its key is not taken.
LEMMA SpawnAppends ==
    ASSUME CatalogTypes, Forward, ExecutionsSound, NEW r, executions' = Append(executions, r),
           SoundRow(r, revisions'), DueRow(r, now'), WithKey(r.key) = {}
    PROVE  ExecutionsSound'
<1>1. r \in Execution /\ executions \in Seq(Execution)
  BY DEF SoundRow, ExecutionsSound
<1> DEFINE n == Len(executions)
<1>2. /\ executions' \in Seq(Execution) /\ n \in Nat
      /\ DOMAIN executions = 1..n /\ DOMAIN executions' = 1..(n + 1)
      /\ \A e \in 1..n : executions'[e] = executions[e]
      /\ executions'[n + 1] = r
  BY <1>1
<1> HIDE DEF n
<1>3. ASSUME NEW e \in 1..n
      PROVE  SoundRow(executions'[e], revisions') /\ DueRow(executions'[e], now')
  BY <1>2, RowByRow, RowStays DEF Rows
<1>4. \A e \in DOMAIN executions' : /\ SoundRow(executions'[e], revisions')
                                    /\ DueRow(executions'[e], now')
  <2> TAKE e \in DOMAIN executions'
  <2>1. e \in 1..n \/ e = n + 1
    BY <1>2
  <2> QED BY <1>2, <1>3, <2>1
<1>5. \A e \in 1..n : r.key # None => executions[e].key # r.key
  BY <1>2 DEF WithKey, Rows
<1>6. OneRunPerKey'
  <2> SUFFICES ASSUME NEW e \in 1..(n + 1), NEW f \in 1..(n + 1),
                      executions'[e].key # None, executions'[e].key = executions'[f].key
               PROVE  e = f
    BY <1>2 DEF OneRunPerKey, Rows
  <2>1. (e \in 1..n \/ e = n + 1) /\ (f \in 1..n \/ f = n + 1)
    BY <1>2
  <2>2. CASE e \in 1..n /\ f \in 1..n
    BY <1>2, <2>2 DEF ExecutionsSound, OneRunPerKey, Rows
  <2>3. CASE e \in 1..n /\ f = n + 1
    BY <1>2, <1>5, <2>3
  <2>4. CASE e = n + 1 /\ f \in 1..n
    BY <1>2, <1>5, <2>4
  <2> QED BY <2>1, <2>2, <2>3, <2>4
<1> QED BY <1>2, <1>4, <1>6, RowByRowNext

-----------------------------------------------------------------------------
(***************************************************************************)
(* Every step preserves the invariant.                                     *)
(***************************************************************************)

\* The tables stay, only sessions move.
LEMMA SessionOnly ==
    ASSUME Inv, UNCHANGED <<catalog, executions, schedules, now>>
    PROVE  /\ Forward /\ revisions' = revisions /\ executions' = executions
           /\ SessionsSound' => Inv'
<1>1. /\ revisions' = revisions /\ is_archived' = is_archived
      /\ executions' = executions /\ schedules' = schedules /\ now' = now
  BY DEF catalog
<1>2. CatalogTypes' /\ Grows
  BY <1>1 DEF CatalogTypes, Grows, Inv
<1>3. Forward
  BY <1>1, <1>2 DEF Forward, Inv, ExecutionsSound
<1>4. ExecutionsSound'
  BY <1>1 DEF Inv, ExecutionsSound, OneRunPerKey, SnapshotMatches, RunsDue, Rows
<1>5. SchedulesSound'
  BY <1>1, <1>2, SchedulesStay DEF Inv
<1> QED BY <1>1, <1>2, <1>3, <1>4, <1>5 DEF Inv

\* What a session's state tells.
LEMMA SessionFacts ==
    ASSUME Inv, NEW s \in Sessions
    PROVE  /\ tr[s] \in TriggerCall /\ SoundCall(tr[s], revisions, Len(executions))
           /\ tr[s].pc # "idle" =>
                  /\ tr[s].wf \in Ids
                  /\ revisions[tr[s].wf] \in Seq(Document)
                  /\ Len(revisions[tr[s].wf]) \in Nat \ {0}
                  /\ DOMAIN revisions[tr[s].wf] = 1..Len(revisions[tr[s].wf])
                  /\ Latest(tr[s].wf) \in Document
                  /\ Len(revisions[tr[s].wf]) \in DOMAIN revisions[tr[s].wf]
           /\ s \in Replicas => SoundIteration(loop[s], revisions, now) /\ Linked(tr[s], loop[s])
           /\ s \in Callers => tr[s].key \in Keys \cup {None}
<1>1. tr[s] \in TriggerCall /\ SoundCall(tr[s], revisions, Len(executions))
  BY DEF Inv, SessionsSound
<1>2. ASSUME tr[s].pc # "idle"
      PROVE  /\ tr[s].wf \in Ids
             /\ revisions[tr[s].wf] \in Seq(Document)
             /\ Len(revisions[tr[s].wf]) \in Nat \ {0}
             /\ DOMAIN revisions[tr[s].wf] = 1..Len(revisions[tr[s].wf])
             /\ Latest(tr[s].wf) \in Document
             /\ Len(revisions[tr[s].wf]) \in DOMAIN revisions[tr[s].wf]
  <2> DEFINE R == revisions[tr[s].wf]
  <2>1. tr[s].wf \in Ids /\ R # <<>>
    BY <1>1, <1>2 DEF SoundCall, Created
  <2>2. R \in Seq(Document)
    BY <2>1 DEF Inv, CatalogTypes
  <2>3. Len(R) \in Nat \ {0} /\ DOMAIN R = 1..Len(R) /\ Len(R) \in DOMAIN R
    BY <2>1, <2>2
  <2>4. R[Len(R)] \in Document
    BY <2>2, <2>3
  <2> QED BY <2>1, <2>2, <2>3, <2>4 DEF Latest
<1> QED BY <1>1, <1>2 DEF Inv, SessionsSound

\* A statement of trigger_workflow that only reads.
LEMMA ReadStep ==
    ASSUME Inv, UNCHANGED <<catalog, executions, schedules, now>>, NEW s \in Sessions,
           tr[s].pc # "idle",
           NEW c, tr' = [tr EXCEPT ![s] = c], SoundCall(c, revisions, Len(executions)),
           c.key = tr[s].key, c.pc # "idle", loop' = loop
    PROVE  Inv'
<1>1. Forward /\ revisions' = revisions /\ executions' = executions
  BY SessionOnly
<1>2. SoundCall(c, revisions', Len(executions'))
  BY <1>1
<1>3. ASSUME s \in Replicas
      PROVE  loop' = [loop EXCEPT ![s] = [loop[s] EXCEPT !.pending = loop[s].pending]]
  <2>1. loop[s] \in Iteration /\ loop \in [Replicas -> Iteration]
    BY <1>3 DEF Inv, SessionsSound
  <2>2. [loop[s] EXCEPT !.pending = loop[s].pending] = loop[s]
    BY <2>1 DEF Iteration
  <2> QED BY <2>1, <2>2, <1>3
<1> DEFINE P == loop[s].pending
<1>4. s \in Replicas => P \in {{}, loop[s].pending}
  OBVIOUS
<1>5. loop' = IF s \in Replicas THEN [loop EXCEPT ![s] = [loop[s] EXCEPT !.pending = P]] ELSE loop
  BY <1>3
<1> HIDE DEF P
<1>6. SessionsSound'
  BY <1>1, <1>2, <1>4, <1>5, GoOn DEF Inv
<1> QED BY <1>6, SessionOnly

\* A call that ends without having written anything.
LEMMA ReturnOnly ==
    ASSUME Inv, UNCHANGED <<catalog, executions, schedules, now>>, NEW s \in Sessions,
           tr[s].pc # "idle", NEW ok, Return(s, ok)
    PROVE  Inv'
BY SessionOnly, ReturnStep DEF Inv

\* trigger_workflow's SELECT of the execution with the key.
LEMMA LookupStep ==
    ASSUME Inv, NEW s \in Sessions, Lookup(s)
    PROVE  Inv'
<1>1. UNCHANGED <<catalog, executions, schedules, now>> /\ tr[s].pc = "lookup"
  BY DEF Lookup
<1>2. CASE Return(s, TRUE)
  BY <1>1, <1>2, ReturnOnly
<1>3. CASE tr' = [tr EXCEPT ![s].pc = "workflow"] /\ loop' = loop
  <2> DEFINE c == [tr[s] EXCEPT !.pc = "workflow"]
  <2>1. tr[s] \in TriggerCall /\ SoundCall(tr[s], revisions, Len(executions))
    BY SessionFacts
  <2>2. /\ c \in TriggerCall /\ c.pc = "workflow" /\ c.wf = tr[s].wf /\ c.key = tr[s].key
    BY <2>1 DEF TriggerCall
  <2>3. tr' = [tr EXCEPT ![s] = c]
    BY <1>3
  <2> HIDE DEF c
  <2>4. SoundCall(c, revisions, Len(executions))
    BY <1>1, <2>1, <2>2 DEF SoundCall
  <2> QED BY <1>1, <1>3, <2>2, <2>3, <2>4, ReadStep
<1> QED BY <1>2, <1>3 DEF Lookup

\* ... its SELECT of the workflow: what it reads exists and stays.
LEMMA LoadWorkflowStep ==
    ASSUME Inv, NEW s \in Sessions, LoadWorkflow(s)
    PROVE  Inv'
<1>1. UNCHANGED <<catalog, executions, schedules, now>> /\ tr[s].pc = "workflow"
  BY DEF LoadWorkflow
<1>2. CASE Return(s, FALSE)
  BY <1>1, <1>2, ReturnOnly
<1> DEFINE n == Len(revisions[tr[s].wf])
           N == task_names[Latest(tr[s].wf).tasks]
<1>3. CASE /\ tr' = [tr EXCEPT ![s].pc = "revisions", ![s].defs = n, ![s].names = N]
           /\ loop' = loop
  <2> DEFINE c == [tr[s] EXCEPT !.pc = "revisions", !.defs = n, !.names = N]
  <2>1. tr[s] \in TriggerCall /\ SoundCall(tr[s], revisions, Len(executions))
    BY SessionFacts
  <2>2. n \in Nat /\ Latest(tr[s].wf).tasks \in TaskLists
    BY <1>1, SessionFacts DEF Document
  <2>3. N \in SUBSET UNION {task_names[l] : l \in TaskLists}
    BY <2>2
  <2>4. tr' = [tr EXCEPT ![s] = c]
    BY <1>3 DEF Inv, SessionsSound
  <2> HIDE DEF n, N
  <2>5. /\ c \in TriggerCall /\ c.pc = "revisions" /\ c.wf = tr[s].wf /\ c.key = tr[s].key
    BY <2>1, <2>2, <2>3 DEF TriggerCall
  <2> HIDE DEF c
  <2>6. SoundCall(c, revisions, Len(executions))
    BY <1>1, <2>1, <2>5 DEF SoundCall
  <2> QED BY <1>1, <1>3, <2>4, <2>5, <2>6, ReadStep
<1> QED BY <1>2, <1>3 DEF LoadWorkflow

\* ... of the revisions: a revision it has read cannot change.
LEMMA LoadRevisionsStep ==
    ASSUME Inv, NEW s \in Sessions, LoadRevisions(s)
    PROVE  Inv'
<1>1. /\ UNCHANGED <<catalog, executions, schedules, now>> /\ tr[s].pc = "revisions"
      /\ loop' = loop
  BY DEF LoadRevisions
<1> DEFINE d == Latest(tr[s].wf)
           n == Len(revisions[tr[s].wf])
           c == [tr[s] EXCEPT !.pc = "count", !.document = d, !.revision = n]
<1>2. tr[s] \in TriggerCall /\ SoundCall(tr[s], revisions, Len(executions))
  BY SessionFacts
<1>3. /\ n \in Nat /\ d \in Document /\ n \in DOMAIN revisions[tr[s].wf]
      /\ d = revisions[tr[s].wf][n]
  BY <1>1, SessionFacts DEF Latest
<1>4. tr' = [tr EXCEPT ![s] = c]
  BY DEF Inv, SessionsSound, LoadRevisions
<1> HIDE DEF n, d
<1>5. /\ c \in TriggerCall /\ c.pc = "count" /\ c.wf = tr[s].wf /\ c.key = tr[s].key
      /\ c.document = d /\ c.revision = n
  BY <1>2, <1>3 DEF TriggerCall
<1> HIDE DEF c
<1>6. SoundCall(c, revisions, Len(executions))
  BY <1>1, <1>2, <1>3, <1>5 DEF SoundCall
<1> QED BY <1>1, <1>4, <1>5, <1>6, ReadStep

\* ... and the count that the quota is compared with.
LEMMA CountActiveStep ==
    ASSUME Inv, NEW s \in Sessions, CountActive(s)
    PROVE  Inv'
<1>1. UNCHANGED <<catalog, executions, schedules, now>> /\ tr[s].pc = "count"
  BY DEF CountActive
<1>2. CASE Return(s, FALSE)
  BY <1>1, <1>2, ReturnOnly
<1>3. CASE tr' = [tr EXCEPT ![s].pc = "spawn"] /\ loop' = loop
  <2> DEFINE c == [tr[s] EXCEPT !.pc = "spawn"]
  <2>1. tr[s] \in TriggerCall /\ SoundCall(tr[s], revisions, Len(executions))
    BY SessionFacts
  <2>2. /\ c \in TriggerCall /\ c.pc = "spawn" /\ c.wf = tr[s].wf /\ c.key = tr[s].key
        /\ c.document = tr[s].document /\ c.revision = tr[s].revision
    BY <2>1 DEF TriggerCall
  <2>3. tr' = [tr EXCEPT ![s] = c]
    BY <1>3
  <2> HIDE DEF c
  <2>4. SoundCall(c, revisions, Len(executions))
    BY <1>1, <2>1, <2>2 DEF SoundCall
  <2> QED BY <1>1, <1>3, <2>2, <2>3, <2>4, ReadStep
<1> QED BY <1>2, <1>3 DEF CountActive

\* The insert of _spawn, with what the replica had not committed.
LEMMA SpawnStep ==
    ASSUME Inv, NEW s \in Sessions, Spawn(s)
    PROVE  Inv'
<1>1. /\ UNCHANGED <<catalog, now>> /\ revisions' = revisions /\ is_archived' = is_archived
      /\ now' = now /\ tr[s].pc = "spawn"
  BY DEF Spawn, catalog
<1>2. CatalogTypes /\ CatalogTypes' /\ Grows /\ now \in Nat /\ now' \in Nat
  BY <1>1 DEF Inv, CatalogTypes, Grows
<1>3. tr[s] \in TriggerCall /\ SoundCall(tr[s], revisions, Len(executions))
  BY SessionFacts
<1>4. CASE Abort(s)
  <2>1. UNCHANGED <<catalog, executions, schedules, now>>
    BY <1>1, <1>4 DEF Abort
  <2> QED BY <1>4, <2>1, SessionOnly, AbortStep DEF Inv
<1>5. CASE ~(KeyTaken(tr[s].key) \/ DanglingTask(s) \/ ~Flushable(Pending(s)))
  <2> DEFINE r == [wf |-> tr[s].wf, key |-> tr[s].key, document |-> tr[s].document,
                   revision |-> tr[s].revision, retried |-> tr[s].retried,
                   active |-> TRUE, enqueued |-> FALSE]
             n == Len(executions) + 1
             c == [tr[s] EXCEPT !.pc = "enqueue", !.row = n]
  <2>1. /\ executions' = Append(executions, r)
        /\ schedules' = Flushed(Pending(s))
        /\ loop' = IF s \in Replicas THEN [loop EXCEPT ![s].pending = {}] ELSE loop
        /\ Flushable(Pending(s)) /\ WithKey(tr[s].key) = {}
    BY <1>5 DEF Spawn, KeyTaken
  <2>2. tr' = [tr EXCEPT ![s] = c]
    BY <1>5 DEF Spawn, Inv, SessionsSound
  <2>3. SoundRow(r, revisions) /\ r.key = tr[s].key
    <3>1. /\ Created(revisions, tr[s].wf) /\ tr[s].wf \in Ids
          /\ tr[s].revision \in DOMAIN revisions[tr[s].wf]
          /\ tr[s].document = revisions[tr[s].wf][tr[s].revision]
      BY <1>1, <1>3 DEF SoundCall, Created
    <3>2. revisions[tr[s].wf] \in Seq(Document)
      BY <3>1 DEF Inv, CatalogTypes
    <3>3. tr[s].document \in Document
      BY <3>1, <3>2
    <3> QED BY <1>3, <3>1, <3>3 DEF SoundRow, Execution, TriggerCall
  <2>4. DueRow(r, now)
    <3> SUFFICES ASSUME KeysApart, tr[s].key \in Slots
                 PROVE  OnSchedule(tr[s].key[1], tr[s].key[2]) /\ tr[s].key[2] <= now
      BY DEF DueRow
    <3>1. s \in Replicas
      BY SessionFacts DEF KeysApart, Sessions
    <3>2. SoundIteration(loop[s], revisions, now) /\ Linked(tr[s], loop[s])
      BY <3>1, SessionFacts
    <3>3. /\ loop[s].current \in loop[s].batch
          /\ tr[s].key = <<loop[s].current.schedule, loop[s].current.slot>>
      BY <1>1, <3>2 DEF Linked, SoundIteration
    <3> QED BY <3>2, <3>3 DEF SoundIteration
  <2>5. r \in Execution /\ executions \in Seq(Execution)
    BY <2>3 DEF SoundRow, Inv, ExecutionsSound
  <2> HIDE DEF r
  <2>6. /\ Len(executions) \in Nat /\ Len(executions') = n /\ n \in Nat /\ n \in 1..n
        /\ Len(executions) <= n
    BY <2>1, <2>5
  <2> HIDE DEF c, n
  <2>7. Forward
    BY <1>1, <1>2, <2>6 DEF Forward
  <2>8. ExecutionsSound'
    BY <1>1, <1>2, <2>1, <2>3, <2>4, <2>7, SpawnAppends DEF Inv
  <2>9. SchedulesSound'
    <3>1. /\ Pending(s) \in SUBSET Change
          /\ \A p \in Pending(s) : ~p.disable => OnSchedule(p.schedule, p.next_run_at)
      <4>1. CASE s \in Replicas
        BY <4>1, SessionFacts DEF Pending, SoundIteration, Iteration
      <4>2. CASE s \notin Replicas
        BY <4>2 DEF Pending
      <4> QED BY <4>1, <4>2
    <3> QED BY <1>1, <1>2, <2>1, <3>1, FlushedSound DEF Inv
  <2>10. /\ c \in TriggerCall /\ c.pc = "enqueue" /\ c.wf = tr[s].wf /\ c.key = tr[s].key
         /\ c.row = n
    BY <1>3, <2>6 DEF TriggerCall, c
  <2>11. SoundCall(c, revisions', Len(executions'))
    BY <1>1, <1>3, <2>6, <2>10 DEF SoundCall
  <2> DEFINE P == {}
  <2>12. loop' = IF s \in Replicas THEN [loop EXCEPT ![s] = [loop[s] EXCEPT !.pending = P]]
                 ELSE loop
    BY <2>1 DEF Inv, SessionsSound
  <2>13. s \in Replicas => P \in {{}, loop[s].pending}
    OBVIOUS
  <2> HIDE DEF P
  <2>14. SessionsSound'
    BY <1>1, <1>2, <2>2, <2>7, <2>10, <2>11, <2>12, <2>13, GoOn DEF Inv
  <2> QED BY <1>2, <2>8, <2>9, <2>14 DEF Inv
<1> QED BY <1>4, <1>5 DEF Spawn

\* A step that changes the status of one row.
LEMMA StatusStep ==
    ASSUME Inv, UNCHANGED <<catalog, schedules, now>>, NEW e \in Rows, NEW x \in Execution,
           executions' = [executions EXCEPT ![e] = x],
           x.wf = executions[e].wf, x.key = executions[e].key,
           x.document = executions[e].document, x.revision = executions[e].revision
    PROVE  /\ Forward
           /\ SessionsSound' => Inv'
<1>1. revisions' = revisions /\ is_archived' = is_archived /\ now' = now /\ schedules' = schedules
  BY DEF catalog
<1>2. CatalogTypes /\ CatalogTypes' /\ Grows /\ now \in Nat /\ now' \in Nat
  BY <1>1 DEF Inv, CatalogTypes, Grows
<1>3. /\ executions \in Seq(Execution) /\ executions' \in Seq(Execution)
      /\ DOMAIN executions' = DOMAIN executions /\ Len(executions') = Len(executions)
      /\ Len(executions) \in Nat
  BY DEF Inv, ExecutionsSound, Rows
<1>4. Forward
  BY <1>2, <1>1, <1>3 DEF Forward
<1>5. ExecutionsSound'
  <2>1. \A f \in Rows : executions'[f] = IF f = e THEN x ELSE executions[f]
    BY DEF Rows
  <2> QED BY <1>2, <1>3, <1>4, <2>1, ExecutionsStay DEF Inv
<1>6. SchedulesSound'
  BY <1>1, <1>2, SchedulesStay DEF Inv
<1> QED BY <1>2, <1>4, <1>5, <1>6 DEF Inv

\* The transaction that enqueues the first tasks changes a status only.
LEMMA EnqueueFirstStep ==
    ASSUME Inv, NEW s \in Sessions, EnqueueFirst(s)
    PROVE  Inv'
<1>1. /\ UNCHANGED <<catalog, schedules, now>> /\ tr[s].pc = "enqueue" /\ Return(s, TRUE)
  BY DEF EnqueueFirst
<1> DEFINE e == tr[s].row
           x == [executions[e] EXCEPT !.enqueued = TRUE]
<1>2. executions \in Seq(Execution) /\ e \in Rows
  <2>1. executions \in Seq(Execution) /\ e \in 1..Len(executions)
    BY <1>1, SessionFacts DEF Inv, ExecutionsSound, SoundCall
  <2> QED BY <2>1 DEF Rows
<1>3. executions' = [executions EXCEPT ![e] = x]
  BY DEF EnqueueFirst
<1>4. executions[e] \in Execution
  BY <1>2 DEF Rows
<1>5. /\ x \in Execution /\ x.wf = executions[e].wf /\ x.key = executions[e].key
      /\ x.document = executions[e].document /\ x.revision = executions[e].revision
  BY <1>4 DEF Execution
<1> HIDE DEF x, e
<1>6. Forward /\ (SessionsSound' => Inv')
  BY <1>1, <1>2, <1>3, <1>5, StatusStep
<1> QED BY <1>1, <1>6, ReturnStep DEF Inv

\* An execution reaches a terminal status.
LEMMA FinishStep ==
    ASSUME Inv, NEW e \in Rows, Finish(e)
    PROVE  Inv'
<1>1. UNCHANGED <<catalog, schedules, now>> /\ tr' = tr /\ loop' = loop
  BY DEF Finish
<1> DEFINE x == [executions[e] EXCEPT !.active = FALSE]
<1>2. executions' = [executions EXCEPT ![e] = x]
  BY DEF Finish
<1>3. executions[e] \in Execution
  BY DEF Rows, Inv, ExecutionsSound
<1>4. /\ x \in Execution /\ x.wf = executions[e].wf /\ x.key = executions[e].key
      /\ x.document = executions[e].document /\ x.revision = executions[e].revision
  BY <1>3 DEF Execution
<1> HIDE DEF x
<1>5. Forward /\ (SessionsSound' => Inv')
  BY <1>1, <1>2, <1>4, StatusStep
<1> QED BY <1>1, <1>5, NoSessionStep DEF Inv

\* Every statement of trigger_workflow keeps the invariant.
LEMMA TriggerStepSound ==
    ASSUME Inv, NEW s \in Sessions, TriggerStep(s)
    PROVE  Inv'
BY LookupStep, LoadWorkflowStep, LoadRevisionsStep, CountActiveStep, SpawnStep, EnqueueFirstStep
   DEF TriggerStep

\* An API request is made.
LEMMA TriggerBegins ==
    ASSUME Inv, NEW s \in Callers, NEW i \in Ids, NEW k \in Keys \cup {None}, Trigger(s, i, k)
    PROVE  Inv'
<1>1. UNCHANGED <<catalog, executions, schedules, now>> /\ loop' = loop
  BY DEF Trigger
<1> DEFINE c == [NoCall EXCEPT !.pc = "lookup", !.wf = i, !.key = k]
<1>2. /\ c \in TriggerCall /\ c.pc = "lookup" /\ c.wf = i /\ c.key = k
  BY DEF TriggerCall, NoCall
<1>3. tr' = [tr EXCEPT ![s] = c] /\ Created(revisions, i)
  BY DEF Trigger, Exists, Created
<1> HIDE DEF c
<1>4. Forward /\ revisions' = revisions /\ executions' = executions
  BY <1>1, SessionOnly
<1>5. SoundCall(c, revisions', Len(executions'))
  BY <1>2, <1>3, <1>4 DEF SoundCall
<1>6. SessionsSound'
  BY <1>1, <1>2, <1>3, <1>4, <1>5, CallerStep DEF Inv
<1> QED BY <1>1, <1>6, SessionOnly

\* A retry is asked for: its snapshot is that of a row.
LEMMA RetryBegins ==
    ASSUME Inv, NEW s \in Callers, NEW e \in Rows, RetryExecution(s, e)
    PROVE  Inv'
<1>1. UNCHANGED <<catalog, executions, schedules, now>> /\ loop' = loop
  BY DEF RetryExecution
<1> DEFINE i == executions[e].wf
           n == Len(revisions[i])
           N == task_names[Latest(i).tasks]
           c == [NoCall EXCEPT !.pc = "spawn", !.wf = i, !.defs = n, !.names = N,
                               !.document = executions[e].document,
                               !.revision = executions[e].revision, !.retried = TRUE]
<1>2. SoundRow(executions[e], revisions)
  BY RowByRow DEF Inv
<1>3. i \in Ids /\ revisions[i] \in Seq(Document) /\ revisions[i] # <<>>
  BY <1>2 DEF SoundRow, Created, Inv, CatalogTypes
<1>4. n \in Nat \ {0} /\ n \in DOMAIN revisions[i]
  BY <1>3
<1>5. Latest(i) \in Document
  BY <1>3, <1>4 DEF Latest
<1>6. N \in SUBSET UNION {task_names[l] : l \in TaskLists}
  BY <1>5 DEF Document
<1>7. /\ executions[e].document \in Document /\ executions[e].revision \in Nat
  BY <1>2 DEF SoundRow, Execution
<1>8. tr' = [tr EXCEPT ![s] = c]
  BY DEF RetryExecution
<1> HIDE DEF n, N
<1>9. /\ c \in TriggerCall /\ c.pc = "spawn" /\ c.wf = i /\ c.key = None
      /\ c.document = executions[e].document /\ c.revision = executions[e].revision
  BY <1>3, <1>4, <1>6, <1>7 DEF TriggerCall, NoCall
<1> HIDE DEF c
<1>10. Forward /\ revisions' = revisions /\ executions' = executions
  BY <1>1, SessionOnly
<1>11. SoundCall(c, revisions', Len(executions'))
  BY <1>2, <1>9, <1>10 DEF SoundCall, SoundRow
<1>12. SessionsSound'
  BY <1>1, <1>8, <1>9, <1>10, <1>11, CallerStep DEF Inv
<1> QED BY <1>1, <1>12, SessionOnly

\* run_once reads the clock and the schedules that are due.
LEMMA PollStep ==
    ASSUME Inv, NEW r \in Replicas, Poll(r)
    PROVE  Inv'
<1>1. UNCHANGED <<catalog, executions, schedules, now>> /\ tr' = tr /\ loop[r] = NoLoop
  BY DEF Poll
<1> DEFINE B == {[schedule |-> s, wf |-> schedules[s].wf, slot |-> schedules[s].next_run_at] :
                     s \in {t \in Schedules : Due(t)}}
           l == [loop[r] EXCEPT !.at = now, !.batch = B]
<1>2. loop' = [loop EXCEPT ![r] = l]
  BY DEF Poll, Inv, SessionsSound
<1>3. /\ r \in Sessions /\ loop[r] \in Iteration /\ now \in Nat
      /\ SoundCall(tr[r], revisions, Len(executions)) /\ Linked(tr[r], loop[r])
  BY DEF Inv, SessionsSound, Sessions
<1>4. ASSUME NEW c \in B
      PROVE  /\ c \in Candidate /\ Created(revisions, c.wf)
             /\ OnSchedule(c.schedule, c.slot) /\ c.slot <= now
  <2>1. PICK s \in Schedules : /\ Due(s)
                               /\ c = [schedule |-> s, wf |-> schedules[s].wf,
                                       slot |-> schedules[s].next_run_at]
    OBVIOUS
  <2>2. schedules[s] # None /\ schedules[s].next_run_at <= now
    BY <2>1 DEF Due, Live
  <2>3. Created(revisions, schedules[s].wf) /\ OnSchedule(s, schedules[s].next_run_at)
    BY <2>2 DEF Inv, SchedulesSound
  <2> QED BY <2>1, <2>2, <2>3 DEF Candidate, OnSchedule, Created
<1> HIDE DEF B
<1>5. /\ l \in Iteration /\ l.batch = B /\ l.current = None /\ l.pending = {}
  <2>1. B \in SUBSET Candidate
    BY <1>4
  <2>2. loop[r].current = None /\ loop[r].pending = {} /\ now \in Nat
    BY <1>1, <1>3 DEF NoLoop
  <2>3. l \in Iteration
    BY <1>3, <2>1, <2>2 DEF Iteration
  <2>4. l.batch = B /\ l.current = loop[r].current /\ l.pending = loop[r].pending
    BY <1>3 DEF Iteration
  <2> QED BY <2>2, <2>3, <2>4
<1>6. tr' = [tr EXCEPT ![r] = tr[r]]
  BY <1>1 DEF Inv, SessionsSound
<1> HIDE DEF l
<1>7. SoundIteration(l, revisions, now)
  BY <1>4, <1>5 DEF SoundIteration
<1>8. Linked(tr[r], l)
  BY <1>1, <1>3, <1>5 DEF Linked, NoLoop
<1>9. Forward /\ revisions' = revisions /\ executions' = executions /\ now' = now
  BY <1>1, SessionOnly
<1>10. SoundCall(tr[r], revisions', Len(executions')) /\ SoundIteration(l, revisions', now')
  BY <1>3, <1>7, <1>9
<1> DEFINE c == tr[r]
<1>11. tr' = [tr EXCEPT ![r] = c] /\ SoundCall(c, revisions', Len(executions')) /\ Linked(c, l)
  BY <1>6, <1>8, <1>10
<1> HIDE DEF c
<1>12. SessionsSound'
  BY <1>2, <1>9, <1>10, <1>11, ReplicaMoves DEF Inv
<1> QED BY <1>1, <1>12, SessionOnly

\* run_once goes on to the next schedule.
LEMMA TakeScheduleStep ==
    ASSUME Inv, NEW r \in Replicas, NEW d \in loop[r].batch, TakeSchedule(r, d)
    PROVE  Inv'
<1>1. UNCHANGED <<catalog, executions, schedules, now>> /\ loop[r].current = None
  BY DEF TakeSchedule
<1>2. /\ r \in Sessions /\ SoundIteration(loop[r], revisions, now) /\ loop[r] \in Iteration
      /\ SoundCall(tr[r], revisions, Len(executions)) /\ Linked(tr[r], loop[r])
      /\ tr \in [Sessions -> TriggerCall] /\ loop \in [Replicas -> Iteration]
  BY DEF Inv, SessionsSound, Sessions
<1>3. /\ d \in Candidate /\ Created(revisions, d.wf) /\ OnSchedule(d.schedule, d.slot)
      /\ d.slot <= now /\ d # None
  BY <1>2, LaunchAssumption DEF SoundIteration, Iteration, Candidate
<1>4. Forward /\ revisions' = revisions /\ executions' = executions /\ now' = now
  BY <1>1, SessionOnly
<1>5. CASE is_archived[d.wf]
  <2> DEFINE p == [schedule |-> d.schedule, disable |-> TRUE, next_run_at |-> 0]
             l == [loop[r] EXCEPT !.batch = @ \ {d}, !.pending = @ \cup {p}]
             c == tr[r]
  <2>1. tr' = tr /\ loop' = [loop EXCEPT ![r] = l]
    BY <1>2, <1>5 DEF TakeSchedule
  <2>2. p \in Change /\ p.disable
    BY <1>3 DEF Change, Candidate
  <2> HIDE DEF p
  <2>3. /\ l \in Iteration /\ l.batch = loop[r].batch \ {d} /\ l.current = None
        /\ l.pending = loop[r].pending \cup {p}
    BY <1>1, <1>2, <2>2 DEF Iteration
  <2> HIDE DEF l
  <2>4. SoundIteration(l, revisions', now')
    BY <1>2, <1>4, <2>2, <2>3 DEF SoundIteration
  <2>5. Linked(c, l)
    BY <1>1, <1>2, <2>3 DEF Linked
  <2>6. tr' = [tr EXCEPT ![r] = c] /\ SoundCall(c, revisions', Len(executions'))
    BY <1>2, <1>4, <2>1
  <2> HIDE DEF c
  <2>7. SessionsSound'
    BY <1>4, <2>1, <2>4, <2>5, <2>6, ReplicaMoves DEF Inv
  <2> QED BY <1>1, <2>7, SessionOnly
<1>6. CASE ~is_archived[d.wf]
  <2> DEFINE l == [loop[r] EXCEPT !.current = d]
             c == [NoCall EXCEPT !.pc = "lookup", !.wf = d.wf, !.key = <<d.schedule, d.slot>>]
  <2>1. tr' = [tr EXCEPT ![r] = c] /\ loop' = [loop EXCEPT ![r] = l]
    BY <1>2, <1>6 DEF TakeSchedule
  <2>2. /\ l \in Iteration /\ l.batch = loop[r].batch /\ l.current = d
        /\ l.pending = loop[r].pending
    BY <1>2, <1>3 DEF Iteration
  <2>3. <<d.schedule, d.slot>> \in Slots
    BY <1>3 DEF Slots, Candidate
  <2>4. /\ c \in TriggerCall /\ c.pc = "lookup" /\ c.wf = d.wf
        /\ c.key = <<d.schedule, d.slot>>
    BY <1>3, <2>3 DEF TriggerCall, NoCall, Created
  <2> HIDE DEF l, c
  <2>5. SoundIteration(l, revisions', now')
    BY <1>2, <1>4, <2>2 DEF SoundIteration
  <2>6. Linked(c, l)
    BY <1>3, <2>2, <2>4 DEF Linked
  <2>7. SoundCall(c, revisions', Len(executions'))
    BY <1>3, <1>4, <2>4 DEF SoundCall
  <2>8. SessionsSound'
    BY <1>4, <2>1, <2>5, <2>6, <2>7, ReplicaMoves DEF Inv
  <2> QED BY <1>1, <2>8, SessionOnly
<1> QED BY <1>5, <1>6

\* run_once commits and rests.
LEMMA EndLoopStep ==
    ASSUME Inv, NEW r \in Replicas, EndLoop(r)
    PROVE  Inv'
<1>1. /\ UNCHANGED <<catalog, executions, now>> /\ revisions' = revisions
      /\ is_archived' = is_archived /\ executions' = executions /\ now' = now /\ tr' = tr
      /\ loop[r].batch = {} /\ loop' = [loop EXCEPT ![r] = NoLoop]
  BY DEF EndLoop, catalog
<1>2. CatalogTypes' /\ Grows /\ Forward
  BY <1>1 DEF Inv, CatalogTypes, Grows, Forward, ExecutionsSound
<1>3. ExecutionsSound'
  BY <1>1 DEF Inv, ExecutionsSound, OneRunPerKey, SnapshotMatches, RunsDue, Rows
<1>4. /\ r \in Sessions /\ SoundIteration(loop[r], revisions, now) /\ loop[r] \in Iteration
      /\ SoundCall(tr[r], revisions, Len(executions)) /\ Linked(tr[r], loop[r])
      /\ tr \in [Sessions -> TriggerCall]
  BY DEF Inv, SessionsSound, Sessions
<1>5. SchedulesSound'
  <2>1. CASE Flushable(loop[r].pending)
    <3> DEFINE P == loop[r].pending
    <3>1. P \in SUBSET Change /\ \A p \in P : ~p.disable => OnSchedule(p.schedule, p.next_run_at)
      BY <1>4 DEF SoundIteration, Iteration
    <3>2. schedules' = Flushed(P) /\ Flushable(P)
      BY <2>1 DEF EndLoop
    <3> HIDE DEF P
    <3> QED BY <1>1, <3>1, <3>2, FlushedSound DEF Inv
  <2>2. CASE ~Flushable(loop[r].pending)
    BY <1>2, <2>2, SchedulesStay DEF Inv, EndLoop
  <2> QED BY <2>1, <2>2
<1>6. loop[r].current = None
  BY <1>1, <1>4 DEF SoundIteration
<1> DEFINE c == tr[r]
<1>7. /\ tr' = [tr EXCEPT ![r] = c] /\ SoundCall(c, revisions', Len(executions'))
      /\ Linked(c, NoLoop)
  BY <1>1, <1>4, <1>6 DEF Linked, NoLoop
<1> HIDE DEF c
<1>8. SessionsSound'
  BY <1>1, <1>2, <1>7, IdleIsSound, ReplicaMoves DEF Inv
<1> QED BY <1>1, <1>2, <1>3, <1>5, <1>8 DEF Inv

\* A replica dies.
LEMMA CrashStep ==
    ASSUME Inv, NEW r \in Replicas, ReplicaCrash(r)
    PROVE  Inv'
<1>1. UNCHANGED <<catalog, executions, schedules, now>>
  BY DEF ReplicaCrash
<1>2. tr' = [tr EXCEPT ![r] = NoCall] /\ loop' = [loop EXCEPT ![r] = NoLoop]
  BY DEF ReplicaCrash
<1>3. Forward
  BY <1>1, SessionOnly
<1>4. SessionsSound'
  BY <1>2, <1>3, IdleIsSound, ReplicaMoves DEF Inv
<1> QED BY <1>1, <1>4, SessionOnly

\* The schedules are edited.
LEMMA EditStep ==
    ASSUME Inv, NEW s \in Schedules,
           DeleteSchedule(s) \/ \E i \in Ids : CreateSchedule(s, i)
    PROVE  Inv'
<1>1. /\ UNCHANGED <<catalog, executions, now>> /\ revisions' = revisions
      /\ is_archived' = is_archived /\ executions' = executions /\ now' = now
      /\ tr' = tr /\ loop' = loop
  BY DEF DeleteSchedule, CreateSchedule, catalog
<1>2. CatalogTypes' /\ Grows /\ Forward
  BY <1>1 DEF Inv, CatalogTypes, Grows, Forward, ExecutionsSound
<1>3. ExecutionsSound'
  BY <1>1 DEF Inv, ExecutionsSound, OneRunPerKey, SnapshotMatches, RunsDue, Rows
<1>4. SessionsSound'
  BY <1>1, <1>2, NoSessionStep DEF Inv
<1>5. SchedulesSound /\ now \in Nat
  BY DEF Inv
<1>6. PICK x : /\ schedules' = [schedules EXCEPT ![s] = x]
               /\ x \in ScheduleRow /\ Created(revisions, x.wf) /\ OnSchedule(s, x.next_run_at)
  <2>1. CASE DeleteSchedule(s)
    <3> DEFINE x == [schedules[s] EXCEPT !.deleted = TRUE]
    <3>1. schedules' = [schedules EXCEPT ![s] = x] /\ schedules[s] # None
      BY <2>1 DEF DeleteSchedule, Live
    <3>2. /\ schedules[s] \in ScheduleRow /\ Created(revisions, schedules[s].wf)
          /\ OnSchedule(s, schedules[s].next_run_at)
      BY <1>5, <3>1 DEF SchedulesSound
    <3>3. /\ x \in ScheduleRow /\ x.wf = schedules[s].wf
          /\ x.next_run_at = schedules[s].next_run_at
      BY <3>2 DEF ScheduleRow
    <3> QED BY <3>1, <3>2, <3>3
  <2>2. ASSUME NEW i \in Ids, CreateSchedule(s, i)
        PROVE  \E x : /\ schedules' = [schedules EXCEPT ![s] = x]
                      /\ x \in ScheduleRow /\ Created(revisions, x.wf)
                      /\ OnSchedule(s, x.next_run_at)
    <3> DEFINE x == [wf |-> i, next_run_at |-> NextRun(s, now), is_enabled |-> TRUE,
                     deleted |-> FALSE]
    <3>1. schedules' = [schedules EXCEPT ![s] = x] /\ Created(revisions, i)
      BY <2>2 DEF CreateSchedule, Exists, Created
    <3>2. NextRun(s, now) \in Nat /\ OnSchedule(s, NextRun(s, now))
      BY <1>5, NextRunType
    <3>3. x \in ScheduleRow /\ x.wf = i /\ x.next_run_at = NextRun(s, now)
      BY <3>2 DEF ScheduleRow
    <3> QED BY <3>1, <3>2, <3>3
  <2> QED BY <2>1, <2>2
<1>7. SchedulesSound'
  BY <1>1, <1>5, <1>6 DEF SchedulesSound
<1> QED BY <1>1, <1>2, <1>3, <1>4, <1>7 DEF Inv

\* The clock and the catalog move on, the tables and the sessions stay.
LEMMA WorldStep ==
    ASSUME Inv, executions' = executions, schedules' = schedules, tr' = tr, loop' = loop,
           CatalogTypes', Grows, now' \in Nat, now <= now'
    PROVE  Inv'
<1>1. Forward /\ executions \in Seq(Execution)
  BY DEF Inv, Forward, ExecutionsSound
<1>2. ExecutionsSound'
  BY <1>1, ExecutionsStay DEF Inv
<1>3. SchedulesSound' /\ SessionsSound'
  BY <1>1, SchedulesStay, NoSessionStep DEF Inv
<1> QED BY <1>2, <1>3 DEF Inv

\* The empty tables, with idle sessions, satisfy the invariant.
LEMMA InitInv ==
    ASSUME Init PROVE Inv
<1>1. /\ revisions = [i \in Ids |-> <<>>] /\ is_archived = [i \in Ids |-> FALSE]
      /\ executions = <<>> /\ schedules = [s \in Schedules |-> None]
      /\ tr = [s \in Sessions |-> NoCall] /\ loop = [r \in Replicas |-> NoLoop] /\ now = 0
  BY DEF Init, CatalogInit
<1>2. CatalogTypes /\ now \in Nat
  BY <1>1 DEF CatalogTypes
<1>3. ExecutionsSound
  BY <1>1 DEF ExecutionsSound, OneRunPerKey, SnapshotMatches, RunsDue, Rows
<1>4. SchedulesSound
  BY <1>1 DEF SchedulesSound
<1>5. SessionsSound
  BY <1>1, IdleIsSound DEF SessionsSound, Sessions
<1> QED BY <1>2, <1>3, <1>4, <1>5 DEF Inv

\* Every step of requests, replicas and catalog keeps the invariant.
LEMMA NextInv ==
    ASSUME Inv, [Next]_vars
    PROVE  Inv'
<1>1. CASE CatalogNext /\ UNCHANGED launch
  <2>1. CatalogTypes' /\ Grows
    BY <1>1, CatalogStep DEF Inv
  <2>2. now \in Nat
    BY DEF Inv
  <2> QED BY <1>1, <2>1, <2>2, WorldStep DEF launch
<1>2. CASE \E s \in Schedules : DeleteSchedule(s) \/ \E i \in Ids : CreateSchedule(s, i)
  BY <1>2, EditStep
<1>3. ASSUME NEW s \in Callers,
             \/ TriggerStep(s)
             \/ \E i \in Ids, k \in Keys \cup {None} : Trigger(s, i, k)
             \/ \E e \in Rows : RetryExecution(s, e)
      PROVE  Inv'
  BY <1>3, TriggerStepSound, TriggerBegins, RetryBegins DEF Sessions
<1>4. ASSUME NEW r \in Replicas, ReplicaStep(r) \/ ReplicaCrash(r)
      PROVE  Inv'
  BY <1>4, TriggerStepSound, PollStep, TakeScheduleStep, EndLoopStep, CrashStep
     DEF Sessions, ReplicaStep
<1>5. CASE \E e \in Rows : Finish(e)
  BY <1>5, FinishStep
<1>6. CASE Tick
  <2>1. /\ executions' = executions /\ schedules' = schedules /\ tr' = tr /\ loop' = loop
        /\ revisions' = revisions /\ is_archived' = is_archived /\ now' = now + 1
    BY <1>6 DEF Tick, catalog
  <2>2. CatalogTypes' /\ Grows
    BY <2>1 DEF Inv, CatalogTypes, Grows
  <2>3. now' \in Nat /\ now <= now'
    BY <2>1 DEF Inv
  <2> QED BY <2>1, <2>2, <2>3, WorldStep
<1>7. CASE UNCHANGED vars
  <2>1. UNCHANGED <<catalog, executions, schedules, now>> /\ tr' = tr /\ loop' = loop
    BY <1>7 DEF vars, launch
  <2> QED BY <2>1, SessionOnly, NoSessionStep DEF Inv
<1> QED BY <1>1, <1>2, <1>3, <1>4, <1>5, <1>6, <1>7 DEF Next

\* The inductive invariant holds in every reachable state.
THEOREM InvHolds == Spec => []Inv
BY InitInv, NextInv, PTL DEF Spec

\* Types: every execution and schedule refers to a workflow that exists, and
\* a replica is in trigger_workflow exactly while it has a current schedule.
THEOREM TypeCorrect == Spec => []TypeOK
<1>1. Inv => TypeOK
  <2> SUFFICES ASSUME Inv PROVE TypeOK
    OBVIOUS
  <2>1. \A e \in Rows : /\ executions[e].wf \in Ids
                        /\ executions[e].document \in Document
                        /\ executions[e].revision \in Nat
    BY RowByRow DEF Inv, SoundRow, Execution
  <2>2. \A s \in Schedules : schedules[s] # None =>
            schedules[s].wf \in Ids /\ schedules[s].next_run_at \in Nat
    BY DEF Inv, SchedulesSound, Created, OnSchedule
  <2>3. \A s \in Sessions : tr[s].pc # "idle" => tr[s].wf \in Ids
    BY SessionFacts
  <2>4. \A r \in Replicas : (tr[r].pc # "idle") <=> (loop[r].current # None)
    BY DEF Inv, SessionsSound, Linked
  <2> QED BY <2>1, <2>2, <2>3, <2>4 DEF TypeOK
<1> QED BY <1>1, InvHolds, PTL

\* trigger_workflow with an idempotency key makes one execution, however the
\* lookups and inserts of the sessions interleave.
THEOREM OneRun == Spec => []OneRunPerKey
<1>1. Inv => OneRunPerKey
  BY DEF Inv, ExecutionsSound
<1> QED BY <1>1, InvHolds, PTL

\* An execution runs the document of the revision it records.
THEOREM Snapshots == Spec => []SnapshotMatches
<1>1. Inv => SnapshotMatches
  BY DEF Inv, ExecutionsSound
<1> QED BY <1>1, InvHolds, PTL

-----------------------------------------------------------------------------
(***************************************************************************)
(* A cron schedule runs at most once for each of its times.                *)
(***************************************************************************)
LEMMA OncePerSlot ==
    ASSUME Inv, KeysApart
    PROVE  CronOncePerSlot
<1> SUFFICES ASSUME NEW s \in Cron
             PROVE  LET runs == {e \in Rows : executions[e].key \in {s} \X Nat}
                    IN /\ \A e \in runs : /\ executions[e].key[2] % Period = 0
                                          /\ executions[e].key[2] <= now
                       /\ Cardinality(runs) <= now \div Period
  BY DEF CronOncePerSlot
<1> DEFINE runs == {e \in Rows : executions[e].key \in {s} \X Nat}
           turn(e) == executions[e].key[2] \div Period
           f == [e \in runs |-> turn(e)]
<1>1. /\ Period \in Nat \ {0} /\ s \in Schedules /\ now \in Nat
      /\ executions \in Seq(Execution) /\ OneRunPerKey /\ RunsDue
  BY LaunchAssumption DEF Inv, ExecutionsSound
<1>2. ASSUME NEW e \in runs
      PROVE  /\ executions[e].key = <<s, turn(e) * Period>>
             /\ executions[e].key[2] % Period = 0 /\ executions[e].key[2] <= now
             /\ turn(e) \in 1..(now \div Period) /\ executions[e].key # None
  <2>1. executions[e].key \in Slots /\ executions[e].key \in {s} \X Nat
    BY <1>1 DEF Slots
  <2>2. OnSchedule(executions[e].key[1], executions[e].key[2]) /\ executions[e].key[2] <= now
    BY <1>1, <2>1 DEF RunsDue
  <2>3. executions[e].key[1] = s /\ executions[e].key = <<s, executions[e].key[2]>>
    BY <2>1
  <2>4. PICK k \in Nat \ {0} : executions[e].key[2] = k * Period
    BY <2>2, <2>3 DEF OnSchedule
  <2>5. /\ (k * Period) % Period = 0 /\ (k * Period) \div Period = k
        /\ k \in 1..(now \div Period)
    BY <1>1, <2>2, <2>4, Multiples
  <2> QED BY <2>1, <2>2, <2>3, <2>4, <2>5 DEF KeysApart
<1> HIDE DEF turn
<1>3. IsFiniteSet(1..(now \div Period)) /\ Cardinality(1..(now \div Period)) = now \div Period
  <2>1. now \div Period \in Nat
    BY <1>1
  <2> QED BY <2>1, FS_Interval
<1>4. f \in Injection(runs, 1..(now \div Period))
  <2>1. f \in [runs -> 1..(now \div Period)]
    BY <1>2
  <2>2. ASSUME NEW a \in runs, NEW b \in runs, f[a] = f[b] PROVE a = b
    <3>1. executions[a].key = executions[b].key /\ executions[a].key # None
      BY <1>2, <2>2
    <3> QED BY <1>1, <3>1 DEF OneRunPerKey
  <2> QED BY <2>1, <2>2 DEF Injection, IsInjective
<1>5. Cardinality(runs) <= now \div Period
  BY <1>3, <1>4, FS_Injection
<1> QED BY <1>2, <1>5

\* A cron schedule runs at most once for each of its times and never early,
\* for any number of replicas and crashes, provided clients send no key of the
\* form the scheduler makes.
THEOREM CronOnce ==
    ASSUME KeysApart
    PROVE  Spec => []CronOncePerSlot
<1>1. Inv => CronOncePerSlot
  BY OncePerSlot
<1> QED BY <1>1, InvHolds, PTL

-----------------------------------------------------------------------------
(***************************************************************************)
(* The quota.  Between the count and the insert a session holds a place:   *)
(* the runs that count and the places held are bounded together.           *)
(***************************************************************************)
Counted == {e \in Active : ~executions[e].retried}
Held == {s \in Sessions : tr[s].pc = "spawn" /\ ~tr[s].retried}

QuotaInv == Cardinality(Counted) + Cardinality(Held) <= Quota - 1 + Cardinality(Sessions)

\* All of these are finite, so that their sizes are numbers.
LEMMA FiniteCounts ==
    ASSUME Inv
    PROVE  /\ IsFiniteSet(Active) /\ IsFiniteSet(Counted) /\ IsFiniteSet(Held)
           /\ IsFiniteSet(Sessions) /\ Quota \in Nat \ {0}
           /\ Cardinality(Active) \in Nat /\ Cardinality(Counted) \in Nat
           /\ Cardinality(Held) \in Nat /\ Cardinality(Sessions) \in Nat
           /\ Cardinality(Counted) <= Cardinality(Active)
           /\ Cardinality(Held) <= Cardinality(Sessions)
<1>1. IsFiniteSet(Rows)
  <2>1. Rows = 1..Len(executions) /\ Len(executions) \in Nat
    BY DEF Rows, Inv, ExecutionsSound
  <2> QED BY <2>1, FS_Interval
<1>2. IsFiniteSet(Sessions) /\ Quota \in Nat \ {0}
  BY LaunchAssumption, FS_Union DEF Sessions
<1>3. IsFiniteSet(Active)
  BY <1>1, FS_Subset DEF Active
<1>4. Counted \in SUBSET Active /\ Held \in SUBSET Sessions
  BY DEF Counted, Held
<1> QED BY <1>2, <1>3, <1>4, FS_Subset, FS_CardinalityType

\* A step after which no more runs count and no more places are held.
LEMMA QuietStep ==
    ASSUME Inv, QuotaInv, DOMAIN executions' = DOMAIN executions,
           \A e \in Rows : executions'[e].active /\ ~executions'[e].retried
                               => executions[e].active /\ ~executions[e].retried,
           \A v \in Sessions : \/ tr'[v] = tr[v]
                               \/ tr'[v].pc # "spawn"
                               \/ tr'[v].retried
    PROVE  QuotaInv'
<1>1. Counted' \in SUBSET Counted
  BY DEF Counted, Active, Rows
<1>2. Held' \in SUBSET Held
  BY DEF Held, Sessions
<1> DEFINE C == Counted'
           H == Held'
<1>3. /\ Cardinality(C) \in Nat /\ Cardinality(C) <= Cardinality(Counted)
      /\ Cardinality(H) \in Nat /\ Cardinality(H) <= Cardinality(Held)
  BY <1>1, <1>2, FiniteCounts, FS_Subset, FS_CardinalityType
<1>4. QuotaInv' <=> Cardinality(C) + Cardinality(H) <= Quota - 1 + Cardinality(Sessions)
  BY DEF QuotaInv, Sessions
<1> HIDE DEF C, H
<1> QED BY <1>3, <1>4, FiniteCounts DEF QuotaInv

\* The count: fewer runs than the quota, and each session may go on.
LEMMA CountKeepsQuota ==
    ASSUME Inv, Inv', Cardinality(Active) < Quota, executions' = executions
    PROVE  QuotaInv'
<1>1. Counted' = Counted /\ Sessions' = Sessions
  BY DEF Counted, Active, Rows, Sessions
<1>2. Held' \in SUBSET Sessions
  BY DEF Held, Sessions
<1> DEFINE H == Held'
<1>3. Cardinality(H) \in Nat /\ Cardinality(H) <= Cardinality(Sessions)
  BY <1>2, FiniteCounts, FS_Subset, FS_CardinalityType
<1>4. QuotaInv' <=> Cardinality(Counted) + Cardinality(H) <= Quota - 1 + Cardinality(Sessions)
  BY <1>1 DEF QuotaInv
<1> HIDE DEF H
<1> QED BY <1>3, <1>4, FiniteCounts

\* The insert: a place held becomes a run that counts.
LEMMA SpawnKeepsQuota ==
    ASSUME Inv, QuotaInv, NEW s \in Sessions, tr[s].pc = "spawn", NEW r,
           executions' = Append(executions, r), r.retried = tr[s].retried,
           NEW c, tr' = [tr EXCEPT ![s] = c], c.pc # "spawn"
    PROVE  QuotaInv'
<1> DEFINE n == Len(executions)
           C == Counted'
           H == Held'
<1>1. /\ n \in Nat /\ DOMAIN executions = 1..n /\ DOMAIN executions' = 1..(n + 1)
      /\ \A e \in 1..n : executions'[e] = executions[e]
      /\ executions'[n + 1] = r
  BY DEF Inv, ExecutionsSound
<1>2. \A v \in Sessions : tr'[v] = IF v = s THEN c ELSE tr[v]
  BY DEF Inv, SessionsSound
<1>3. QuotaInv' <=> Cardinality(C) + Cardinality(H) <= Quota - 1 + Cardinality(Sessions)
  BY DEF QuotaInv, Sessions
<1>4. H = Held \ {s}
  BY <1>2 DEF Held, Sessions
<1> HIDE DEF n
<1>5. CASE tr[s].retried
  <2>1. C \in SUBSET Counted
    <3> SUFFICES ASSUME NEW e \in C PROVE e \in Counted
      OBVIOUS
    <3>1. e \in 1..(n + 1) /\ executions'[e].active /\ ~executions'[e].retried
      BY <1>1 DEF Counted, Active, Rows
    <3>2. e # n + 1
      BY <1>1, <1>5, <3>1
    <3>3. e \in 1..n
      BY <1>1, <3>1, <3>2
    <3> QED BY <1>1, <3>1, <3>3 DEF Counted, Active, Rows
  <2> HIDE DEF C, H
  <2>2. H \in SUBSET Held
    BY <1>4
  <2>3. /\ Cardinality(C) \in Nat /\ Cardinality(C) <= Cardinality(Counted)
        /\ Cardinality(H) \in Nat /\ Cardinality(H) <= Cardinality(Held)
    BY <2>1, <2>2, FiniteCounts, FS_Subset, FS_CardinalityType
  <2> QED BY <1>3, <2>3, FiniteCounts DEF QuotaInv
<1>6. CASE ~tr[s].retried
  <2>1. C \in SUBSET (Counted \cup {n + 1})
    <3> SUFFICES ASSUME NEW e \in C PROVE e \in Counted \cup {n + 1}
      OBVIOUS
    <3>1. e \in 1..(n + 1) /\ executions'[e].active /\ ~executions'[e].retried
      BY <1>1 DEF Counted, Active, Rows
    <3>2. e = n + 1 \/ e \in 1..n
      BY <1>1, <3>1
    <3> QED BY <1>1, <3>1, <3>2 DEF Counted, Active, Rows
  <2>2. s \in Held
    BY <1>6 DEF Held
  <2> HIDE DEF C, H
  <2>3. Cardinality(H) = Cardinality(Held) - 1
    BY <1>4, <2>2, FiniteCounts, FS_RemoveElement
  <2>4. /\ IsFiniteSet(Counted \cup {n + 1})
        /\ Cardinality(Counted \cup {n + 1}) <= Cardinality(Counted) + 1
        /\ Cardinality(Counted \cup {n + 1}) \in Nat
    <3>1. IsFiniteSet(Counted) /\ Cardinality(Counted) \in Nat
      BY FiniteCounts
    <3>2. /\ IsFiniteSet(Counted \cup {n + 1})
          /\ Cardinality(Counted \cup {n + 1})
                 = IF n + 1 \in Counted THEN Cardinality(Counted) ELSE Cardinality(Counted) + 1
      BY <3>1, FS_AddElement
    <3> QED BY <3>1, <3>2
  <2>5. Cardinality(C) \in Nat /\ Cardinality(C) <= Cardinality(Counted \cup {n + 1})
    BY <2>1, <2>4, FS_Subset, FS_CardinalityType
  <2> QED BY <1>3, <2>3, <2>4, <2>5, FiniteCounts DEF QuotaInv
<1> QED BY <1>5, <1>6

\* The statements of trigger_workflow.
LEMMA TriggerKeepsQuota ==
    ASSUME Inv, Inv', QuotaInv, NEW s \in Sessions, TriggerStep(s)
    PROVE  QuotaInv'
<1>1. tr \in [Sessions -> TriggerCall]
  BY DEF Inv, SessionsSound
<1>2. NoCall.pc = "idle" /\ NoCall \in TriggerCall
  BY IdleIsSound DEF NoCall
<1>3. ASSUME NEW c, tr' = [tr EXCEPT ![s] = c], c.pc # "spawn", executions' = executions
      PROVE  QuotaInv'
  <2>1. \A v \in Sessions : tr'[v] = tr[v] \/ tr'[v].pc # "spawn"
    BY <1>1, <1>3
  <2> QED BY <1>3, <2>1, QuietStep DEF Rows
<1>4. ASSUME NEW ok, Return(s, ok), executions' = executions PROVE QuotaInv'
  BY <1>2, <1>3, <1>4 DEF Return
<1>5. CASE Lookup(s)
  <2>1. executions' = executions
    BY <1>5 DEF Lookup
  <2>2. CASE tr' = [tr EXCEPT ![s].pc = "workflow"]
    <3> DEFINE c == [tr[s] EXCEPT !.pc = "workflow"]
    <3>1. tr' = [tr EXCEPT ![s] = c] /\ c.pc # "spawn"
      BY <1>1, <2>2 DEF TriggerCall
    <3> HIDE DEF c
    <3> QED BY <1>3, <2>1, <3>1
  <2> QED BY <1>4, <1>5, <2>1, <2>2 DEF Lookup
<1>6. CASE LoadWorkflow(s)
  <2>1. executions' = executions
    BY <1>6 DEF LoadWorkflow
  <2>2. CASE tr' = [tr EXCEPT ![s].pc = "revisions", ![s].defs = Len(revisions[tr[s].wf]),
                              ![s].names = task_names[Latest(tr[s].wf).tasks]]
    <3> DEFINE c == [tr[s] EXCEPT !.pc = "revisions", !.defs = Len(revisions[tr[s].wf]),
                                  !.names = task_names[Latest(tr[s].wf).tasks]]
    <3>1. tr' = [tr EXCEPT ![s] = c] /\ c.pc # "spawn"
      BY <1>1, <2>2 DEF TriggerCall
    <3> HIDE DEF c
    <3> QED BY <1>3, <2>1, <3>1
  <2> QED BY <1>4, <1>6, <2>1, <2>2 DEF LoadWorkflow
<1>7. CASE LoadRevisions(s)
  <2> DEFINE c == [tr[s] EXCEPT !.pc = "count", !.document = Latest(tr[s].wf),
                                !.revision = Len(revisions[tr[s].wf])]
  <2>1. tr' = [tr EXCEPT ![s] = c] /\ c.pc # "spawn" /\ executions' = executions
    BY <1>1, <1>7 DEF LoadRevisions, TriggerCall
  <2> HIDE DEF c
  <2> QED BY <1>3, <2>1
<1>8. CASE CountActive(s)
  <2>1. executions' = executions /\ (Return(s, FALSE) \/ ~(Cardinality(Active) >= Quota))
    BY <1>8 DEF CountActive
  <2>2. CASE ~(Cardinality(Active) >= Quota)
    <3>1. Cardinality(Active) < Quota
      BY <2>2, FiniteCounts
    <3> QED BY <2>1, <3>1, CountKeepsQuota
  <2> QED BY <1>4, <2>1, <2>2
<1>9. CASE Spawn(s)
  <2>1. tr[s].pc = "spawn"
    BY <1>9 DEF Spawn
  <2>2. CASE Abort(s)
    <3>1. tr' = [tr EXCEPT ![s] = NoCall] /\ executions' = executions
      BY <2>2 DEF Abort
    <3> QED BY <1>2, <1>3, <3>1
  <2>3. CASE ~(KeyTaken(tr[s].key) \/ DanglingTask(s) \/ ~Flushable(Pending(s)))
    <3> DEFINE r == [wf |-> tr[s].wf, key |-> tr[s].key, document |-> tr[s].document,
                     revision |-> tr[s].revision, retried |-> tr[s].retried,
                     active |-> TRUE, enqueued |-> FALSE]
               c == [tr[s] EXCEPT !.pc = "enqueue", !.row = Len(executions) + 1]
    <3>1. executions' = Append(executions, r)
      BY <1>9, <2>3 DEF Spawn
    <3>2. tr' = [tr EXCEPT ![s] = c] /\ c.pc # "spawn"
      BY <1>1, <1>9, <2>3 DEF Spawn, TriggerCall
    <3>3. r.retried = tr[s].retried
      OBVIOUS
    <3> HIDE DEF r, c
    <3> QED BY <2>1, <3>1, <3>2, <3>3, SpawnKeepsQuota
  <2> QED BY <1>9, <2>2, <2>3 DEF Spawn
<1>10. CASE EnqueueFirst(s)
  <2>1. /\ executions' = [executions EXCEPT ![tr[s].row].enqueued = TRUE]
        /\ tr' = [tr EXCEPT ![s] = NoCall]
    BY <1>10 DEF EnqueueFirst, Return
  <2>2. executions \in Seq(Execution)
    BY DEF Inv, ExecutionsSound
  <2>3. /\ DOMAIN executions' = DOMAIN executions
        /\ \A e \in Rows : /\ executions'[e].active = executions[e].active
                           /\ executions'[e].retried = executions[e].retried
    <3>1. \A e \in Rows : executions[e] \in Execution
      BY <2>2 DEF Rows
    <3> QED BY <2>1, <2>2, <3>1 DEF Rows, Execution
  <2>4. \A v \in Sessions : tr'[v] = tr[v] \/ tr'[v].pc # "spawn"
    BY <1>1, <1>2, <2>1
  <2> QED BY <2>3, <2>4, QuietStep
<1> QED BY <1>5, <1>6, <1>7, <1>8, <1>9, <1>10 DEF TriggerStep

\* Every step keeps the runs and the places within the bound.
LEMMA NextKeepsQuota ==
    ASSUME Inv, Inv', QuotaInv, [Next]_vars
    PROVE  QuotaInv'
<1>1. tr \in [Sessions -> TriggerCall] /\ executions \in Seq(Execution)
  BY DEF Inv, SessionsSound, ExecutionsSound
<1>2. NoCall.pc = "idle"
  BY DEF NoCall
<1>3. ASSUME executions' = executions, tr' = tr PROVE QuotaInv'
  BY <1>3, QuietStep
<1>4. ASSUME NEW s \in Sessions, NEW c, tr' = [tr EXCEPT ![s] = c],
             c.pc # "spawn" \/ c.retried, executions' = executions
      PROVE  QuotaInv'
  <2>1. \A v \in Sessions : tr'[v] = tr[v] \/ tr'[v].pc # "spawn" \/ tr'[v].retried
    BY <1>1, <1>4
  <2> QED BY <1>4, <2>1, QuietStep
<1>5. CASE CatalogNext /\ UNCHANGED launch
  BY <1>3, <1>5 DEF launch
<1>6. CASE \E s \in Schedules : DeleteSchedule(s) \/ \E i \in Ids : CreateSchedule(s, i)
  BY <1>3, <1>6 DEF DeleteSchedule, CreateSchedule
<1>7. ASSUME NEW s \in Callers, NEW i \in Ids, NEW k \in Keys \cup {None}, Trigger(s, i, k)
      PROVE  QuotaInv'
  <2> DEFINE c == [NoCall EXCEPT !.pc = "lookup", !.wf = i, !.key = k]
  <2>1. tr' = [tr EXCEPT ![s] = c] /\ c.pc # "spawn" /\ executions' = executions
    BY <1>7 DEF Trigger, NoCall
  <2> HIDE DEF c
  <2> QED BY <1>4, <2>1 DEF Sessions
<1>8. ASSUME NEW s \in Callers, NEW e \in Rows, RetryExecution(s, e)
      PROVE  QuotaInv'
  <2> DEFINE c == [NoCall EXCEPT !.pc = "spawn", !.wf = executions[e].wf,
                                 !.defs = Len(revisions[executions[e].wf]),
                                 !.names = task_names[Latest(executions[e].wf).tasks],
                                 !.document = executions[e].document,
                                 !.revision = executions[e].revision, !.retried = TRUE]
  <2>1. tr' = [tr EXCEPT ![s] = c] /\ c.retried /\ executions' = executions
    BY <1>8 DEF RetryExecution, NoCall
  <2> HIDE DEF c
  <2> QED BY <1>4, <2>1 DEF Sessions
<1>9. ASSUME NEW r \in Replicas, Poll(r) \/ EndLoop(r)
      PROVE  QuotaInv'
  BY <1>3, <1>9 DEF Poll, EndLoop
<1>10. ASSUME NEW r \in Replicas, NEW d \in loop[r].batch, TakeSchedule(r, d)
       PROVE  QuotaInv'
  <2> DEFINE c == [NoCall EXCEPT !.pc = "lookup", !.wf = d.wf, !.key = <<d.schedule, d.slot>>]
  <2>1. /\ executions' = executions
        /\ tr' = tr \/ tr' = [tr EXCEPT ![r] = c]
    BY <1>10 DEF TakeSchedule
  <2>2. c.pc # "spawn"
    BY DEF NoCall
  <2> HIDE DEF c
  <2> QED BY <1>3, <1>4, <2>1, <2>2 DEF Sessions
<1>11. ASSUME NEW r \in Replicas, ReplicaCrash(r)
       PROVE  QuotaInv'
  BY <1>2, <1>4, <1>11 DEF ReplicaCrash, Sessions
<1>12. ASSUME NEW e \in Rows, Finish(e)
       PROVE  QuotaInv'
  <2>1. executions' = [executions EXCEPT ![e].active = FALSE] /\ tr' = tr
    BY <1>12 DEF Finish
  <2>2. \A f \in Rows : executions[f] \in Execution
    BY <1>1 DEF Rows
  <2>3. /\ DOMAIN executions' = DOMAIN executions
        /\ \A f \in Rows : executions'[f].active /\ ~executions'[f].retried
                               => executions[f].active /\ ~executions[f].retried
    BY <1>1, <2>1, <2>2 DEF Rows, Execution
  <2> QED BY <2>1, <2>3, QuietStep
<1>13. CASE Tick
  BY <1>3, <1>13 DEF Tick
<1>14. CASE UNCHANGED vars
  BY <1>3, <1>14 DEF vars, launch
<1>15. ASSUME NEW s \in Sessions, TriggerStep(s)
       PROVE  QuotaInv'
  BY <1>15, TriggerKeepsQuota
<1>16. ASSUME NEW s \in Callers,
              \/ TriggerStep(s)
              \/ \E i \in Ids, k \in Keys \cup {None} : Trigger(s, i, k)
              \/ \E e \in Rows : RetryExecution(s, e)
       PROVE  QuotaInv'
  BY <1>7, <1>8, <1>15, <1>16 DEF Sessions
<1>17. ASSUME NEW r \in Replicas, ReplicaStep(r) \/ ReplicaCrash(r)
       PROVE  QuotaInv'
  BY <1>9, <1>10, <1>11, <1>15, <1>17 DEF Sessions, ReplicaStep
<1> QED BY <1>5, <1>6, <1>12, <1>13, <1>14, <1>16, <1>17 DEF Next

\* Triggers that overlap exceed the tenant's quota by less than the number of
\* sessions that can be between the count and the insert.
THEOREM Quotas == Spec => []QuotaOvershoot
<1>1. Init => QuotaInv
  <2> SUFFICES ASSUME Init PROVE QuotaInv
    OBVIOUS
  <2>1. Inv
    BY InitInv
  <2>2. Counted = {} /\ Held = {}
    BY DEF Init, Counted, Active, Rows, Held, NoCall
  <2>3. Cardinality({}) = 0
    BY FS_EmptySet
  <2> QED BY <2>1, <2>2, <2>3, FiniteCounts DEF QuotaInv
<1>2. Inv /\ Inv' /\ QuotaInv /\ [Next]_vars => QuotaInv'
  BY NextKeepsQuota
<1>3. Inv /\ QuotaInv => QuotaOvershoot
  BY FiniteCounts DEF QuotaInv, QuotaOvershoot, Counted
<1> QED BY <1>1, <1>2, <1>3, InvHolds, PTL DEF Spec
=============================================================================
