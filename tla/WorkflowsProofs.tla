-------------------------- MODULE WorkflowsProofs --------------------------
(***************************************************************************)
(* Proofs about Workflows, for any number of requests, workflows, names    *)
(* and revisions.  What keeps an update from being lost is the unique      *)
(* constraint on (workflow, revision): a session whose revision number is  *)
(* still the newest has read nothing that was changed since.               *)
(***************************************************************************)
EXTENDS Workflows, TLAPS

Updating == {"loaded", "read", "checked"}

Request == [pc : {"idle", "insert", "archive"} \cup Updating,
            id : Ids \cup {None}, name : Names \cup {None}, tasks : TaskLists \cup {None},
            row : Names \cup {None}, revision : Nat, document : Document \cup {None}]

Requests ==
    /\ req \in [Clients -> Request]
    /\ \A c \in Clients :
           /\ req[c].pc = "insert" => req[c].name \in Names /\ req[c].tasks \in TaskLists
           /\ req[c].pc \in Updating \cup {"archive"} => req[c].id \in Ids /\ Exists(req[c].id)
           /\ req[c].pc \in Updating => req[c].row \in Names
           /\ req[c].pc \in {"read", "checked"} => req[c].document \in Document

Tables ==
    /\ name \in [Ids -> Names \cup {None}]
    /\ current_revision \in [Ids -> Nat]
    /\ is_archived \in [Ids -> BOOLEAN]
    /\ tasks \in [Ids -> TaskLists \cup {None}]
    /\ revisions \in [Ids -> Seq(Document)]

\* A workflow that was never created has no revision.
Absent == \A i \in Ids : ~Exists(i) => revisions[i] = <<>>

\* What a session has read is current as long as its revision is the newest.
Fresh ==
    \A c \in Clients : req[c].pc \in Updating =>
        /\ req[c].revision < MaxRevision
        /\ req[c].revision <= Len(revisions[req[c].id])
        /\ req[c].revision = Len(revisions[req[c].id]) =>
               /\ req[c].row = name[req[c].id]
               /\ req[c].pc # "loaded" => req[c].document = Latest(req[c].id)

\* The inductive invariant.
Inv ==
    /\ Tables
    /\ Requests
    /\ Absent
    /\ NamesUnique
    /\ HeadConsistent
    /\ Fresh

\* The empty catalog satisfies the invariant.
LEMMA InvInit == Init => Inv
<1> SUFFICES ASSUME Init PROVE Inv
  OBVIOUS
<1>1. \A c \in Clients : req[c] = Idle
  BY DEF Init
<1>2. Idle \in Request
  BY DEF Idle, Request
<1>3. Requests
  BY <1>1, <1>2 DEF Init, Requests, Updating, Idle
<1>4. Tables /\ Absent /\ NamesUnique /\ HeadConsistent
  BY DEF Init, Tables, Absent, NamesUnique, HeadConsistent, Exists
<1>5. Fresh
  BY <1>1 DEF Fresh, Idle, Updating
<1> QED BY <1>3, <1>4, <1>5 DEF Inv

\* The invariant speaks of the tables and of each request by itself: a step
\* that leaves the tables alone has to keep it for one client only.
LEMMA RequestStep ==
    ASSUME Inv, NEW c \in Clients, NEW r \in Request, Goto(c, r), UNCHANGED catalog,
           r.pc = "insert" => r.name \in Names /\ r.tasks \in TaskLists,
           r.pc \in Updating \cup {"archive"} => r.id \in Ids /\ Exists(r.id),
           r.pc \in Updating =>
               /\ r.row \in Names
               /\ r.revision < MaxRevision
               /\ r.revision <= Len(revisions[r.id])
               /\ r.revision = Len(revisions[r.id]) =>
                      r.row = name[r.id] /\ (r.pc # "loaded" => r.document = Latest(r.id)),
           r.pc \in {"read", "checked"} => r.document \in Document
    PROVE  Inv'
<1>1. /\ name' = name /\ current_revision' = current_revision /\ is_archived' = is_archived
      /\ tasks' = tasks /\ revisions' = revisions
  BY DEF catalog
<1>2. (Tables /\ Absent /\ NamesUnique /\ HeadConsistent)'
  BY <1>1 DEF Inv, Tables, Absent, NamesUnique, HeadConsistent, Exists, Latest
<1>3. /\ req' \in [Clients -> Request]
      /\ \A d \in Clients : req'[d] = IF d = c THEN r ELSE req[d]
  BY DEF Inv, Requests, Goto
<1>4. Requests'
  BY <1>1, <1>3 DEF Inv, Requests, Exists
<1>5. Fresh'
  BY <1>1, <1>3 DEF Inv, Fresh, Latest
<1> QED BY <1>2, <1>4, <1>5 DEF Inv

\* The calls and reads of a request keep the invariant: none writes a table.
LEMMA ReadStep ==
    ASSUME Inv, NEW c \in Clients, Call(c) \/ UpdateRead(c) \/ UpdateCheck(c)
    PROVE  Inv'
<1> USE WorkflowsAssumption
<1>0. /\ req[c] \in Request /\ Idle \in Request
      /\ \A i \in Ids : Exists(i) => name[i] \in Names /\ Latest(i) \in Document
  <2>1. req[c] \in Request /\ Idle \in Request
    BY DEF Inv, Requests, Idle, Request
  <2>2. ASSUME NEW i \in Ids, Exists(i) PROVE name[i] \in Names /\ Latest(i) \in Document
    <3>1. name[i] \in Names
      BY <2>2 DEF Inv, Tables, Exists
    <3>2. revisions[i] \in Seq(Document) /\ Len(revisions[i]) > 0
      BY <2>2 DEF Inv, Tables, HeadConsistent
    <3>3. revisions[i][Len(revisions[i])] \in Document
      BY <3>2
    <3> QED BY <3>1, <3>3 DEF Latest
  <2> QED BY <2>1, <2>2
<1>1. ASSUME NEW n \in Names, NEW ts \in TaskLists, CreateCheck(c, n, ts) PROVE Inv'
  <2> DEFINE r == [Idle EXCEPT !.pc = "insert", !.name = n, !.tasks = ts]
  <2>1. r \in Request /\ r.pc = "insert" /\ r.name = n /\ r.tasks = ts
    BY DEF Request, Idle
  <2>2. Goto(c, r) /\ UNCHANGED catalog
    BY <1>1 DEF CreateCheck
  <2> HIDE DEF r
  <2> QED BY <2>1, <2>2, RequestStep DEF Updating
<1>2. ASSUME NEW i \in Ids, NEW n \in Names, Clone(c, i, n) PROVE Inv'
  <2> DEFINE r == [Idle EXCEPT !.pc = "insert", !.name = n, !.tasks = Latest(i).tasks]
  <2>0. Latest(i).tasks \in TaskLists
    BY <1>0, <1>2 DEF Clone, Document
  <2>1. r \in Request /\ r.pc = "insert" /\ r.name = n /\ r.tasks = Latest(i).tasks
    BY <2>0 DEF Request, Idle
  <2>2. Goto(c, r) /\ UNCHANGED catalog
    BY <1>2 DEF Clone
  <2> HIDE DEF r
  <2> QED BY <2>0, <2>1, <2>2, RequestStep DEF Updating
<1>3. ASSUME NEW i \in Ids, NEW n \in Names \cup {None}, NEW ts \in TaskLists \cup {None},
             UpdateLoad(c, i, n, ts)
      PROVE  Inv'
  <2> DEFINE r == [Idle EXCEPT !.pc = "loaded", !.id = i, !.name = n, !.tasks = ts,
                               !.row = name[i], !.revision = current_revision[i]]
  <2>0. /\ Exists(i) /\ name[i] \in Names
        /\ current_revision[i] \in Nat /\ current_revision[i] = Len(revisions[i])
        /\ current_revision[i] < MaxRevision
    BY <1>0, <1>3 DEF UpdateLoad, Inv, Tables, HeadConsistent
  <2>1. /\ r \in Request /\ r.pc = "loaded" /\ r.id = i /\ r.row = name[i]
        /\ r.revision = current_revision[i]
    BY <2>0 DEF Request, Idle, Updating
  <2>2. Goto(c, r) /\ UNCHANGED catalog
    BY <1>3 DEF UpdateLoad
  <2> HIDE DEF r
  <2> QED BY <2>0, <2>1, <2>2, RequestStep DEF Updating
<1>4. ASSUME NEW i \in Ids, ArchiveLoad(c, i) PROVE Inv'
  <2> DEFINE r == [Idle EXCEPT !.pc = "archive", !.id = i]
  <2>1. r \in Request /\ r.pc = "archive" /\ r.id = i
    BY DEF Request, Idle
  <2>2. Goto(c, r) /\ UNCHANGED catalog /\ Exists(i)
    BY <1>4 DEF ArchiveLoad
  <2> HIDE DEF r
  <2> QED BY <2>1, <2>2, RequestStep DEF Updating
<1>5. CASE UpdateRead(c)
  <2> DEFINE r == [req[c] EXCEPT !.pc = "read", !.document = Latest(req[c].id)]
  <2>0. req[c].pc \in Updating /\ req[c].id \in Ids /\ Exists(req[c].id)
    BY <1>5 DEF UpdateRead, Updating, Inv, Requests
  <2>1. /\ r \in Request /\ r.pc = "read" /\ r.id = req[c].id /\ r.row = req[c].row
        /\ r.revision = req[c].revision /\ r.document = Latest(req[c].id)
    BY <1>0, <2>0 DEF Request, Updating
  <2>2. Goto(c, r) /\ UNCHANGED catalog
    BY <1>5 DEF UpdateRead
  <2> HIDE DEF r
  <2>3. r.row \in Names
    BY <2>0, <2>1 DEF Inv, Requests
  <2>4. /\ r.revision < MaxRevision
        /\ r.revision <= Len(revisions[r.id])
        /\ r.revision = Len(revisions[r.id]) => r.row = name[r.id]
    BY <2>0, <2>1 DEF Inv, Fresh
  <2> QED BY <1>0, <2>0, <2>1, <2>2, <2>3, <2>4, RequestStep DEF Updating
<1>6. CASE UpdateCheck(c)
  <2> DEFINE r == [req[c] EXCEPT !.pc = "checked"]
  <2>1. CASE Goto(c, Idle)
    BY <1>0, <1>6, <2>1, RequestStep DEF UpdateCheck, Idle, Updating
  <2>2. CASE Goto(c, r)
    <3>0. req[c].pc = "read" /\ req[c].pc \in Updating
      BY <1>6 DEF UpdateCheck, Updating
    <3>1. /\ r \in Request /\ r.pc = "checked" /\ r.id = req[c].id /\ r.row = req[c].row
          /\ r.revision = req[c].revision /\ r.document = req[c].document
      BY <1>0 DEF Request, Updating
    <3>2. UNCHANGED catalog
      BY <1>6 DEF UpdateCheck
    <3> HIDE DEF r
    <3>3. r.row \in Names /\ r.document \in Document /\ r.id \in Ids /\ Exists(r.id)
      BY <3>0, <3>1 DEF Inv, Requests
    <3>4. /\ r.revision < MaxRevision
          /\ r.revision <= Len(revisions[r.id])
          /\ r.revision = Len(revisions[r.id]) =>
                 r.row = name[r.id] /\ r.document = Latest(r.id)
      BY <3>0, <3>1 DEF Inv, Fresh
    <3> QED BY <2>2, <3>1, <3>2, <3>3, <3>4, RequestStep DEF Updating
  <2> QED BY <1>6, <2>1, <2>2 DEF UpdateCheck
<1> QED BY <1>1, <1>2, <1>3, <1>4, <1>5, <1>6 DEF Call

-----------------------------------------------------------------------------
(***************************************************************************)
(* The transactions that write.                                            *)
(***************************************************************************)

\* A committed insert: the workflow, its definitions and revision 1 under a
\* name nobody has.
Inserts(c, i) ==
    /\ req[c].pc = "insert" /\ Goto(c, Idle)
    /\ ~NameExists(req[c].name, None) /\ ~Exists(i)
    /\ name' = [name EXCEPT ![i] = req[c].name]
    /\ current_revision' = [current_revision EXCEPT ![i] = 1]
    /\ tasks' = [tasks EXCEPT ![i] = req[c].tasks]
    /\ revisions' = [revisions EXCEPT ![i] =
                        <<[name |-> req[c].name, revision |-> 1, tasks |-> req[c].tasks]>>]
    /\ UNCHANGED is_archived

\* A committed update, on sessions that were not overtaken.
Updates(c) ==
    /\ req[c].pc = "checked" /\ Goto(c, Idle)
    /\ NewName(c) # req[c].row => ~NameExists(NewName(c), req[c].id)
    /\ RevisionNumber(c) > Len(revisions[req[c].id])
    /\ WriteRow(c) /\ ReplaceTasks(c)
    /\ revisions' = [revisions EXCEPT ![req[c].id] =
                        Append(@, [name |-> NewName(c), revision |-> RevisionNumber(c),
                                   tasks |-> NewTasks(c)])]

\* A session that commits an update read the newest revision: what it writes
\* is that revision with what the client sent changed.
LEMMA UpdateReadsNewest ==
    ASSUME Inv, NEW c \in Clients, Updates(c)
    PROVE  LET i == req[c].id
           IN /\ i \in Ids /\ Exists(i)
              /\ RevisionNumber(c) = Len(revisions[i]) + 1
              /\ RevisionNumber(c) \in 1..MaxRevision
              /\ req[c].row = name[i] /\ req[c].document = Latest(i)
              /\ Latest(i).name = name[i] /\ Latest(i) \in Document
              /\ revisions[i] \in Seq(Document) /\ Len(revisions[i]) > 0
              /\ NewName(c) \in Names /\ NewTasks(c) \in TaskLists
<1> DEFINE i == req[c].id
<1> USE WorkflowsAssumption
<1>1. /\ req[c].pc = "checked" /\ req[c].pc \in Updating /\ i \in Ids /\ Exists(i)
      /\ req[c].row \in Names /\ req[c].document \in Document
      /\ req[c] \in Request
  BY DEF Updates, Updating, Inv, Requests
<1>2. revisions[i] \in Seq(Document) /\ Len(revisions[i]) > 0 /\ Len(revisions[i]) \in Nat
  BY <1>1 DEF Inv, Tables, HeadConsistent
<1>3. req[c].revision \in Nat /\ req[c].name \in Names \cup {None}
      /\ req[c].tasks \in TaskLists \cup {None}
  BY <1>1 DEF Request
<1>4. /\ req[c].revision < MaxRevision
      /\ req[c].revision = Len(revisions[i])
      /\ req[c].row = name[i] /\ req[c].document = Latest(i)
  BY <1>1, <1>2, <1>3 DEF Updates, RevisionNumber, Inv, Fresh
<1>5. Latest(i).name = name[i]
  BY <1>1 DEF Inv, HeadConsistent
<1>6. NewName(c) \in Names /\ NewTasks(c) \in TaskLists
  BY <1>1, <1>3 DEF NewName, NewTasks, Document
<1> QED BY <1>1, <1>2, <1>3, <1>4, <1>5, <1>6 DEF RevisionNumber

\* A step of the system reads only, or commits a transaction of one request.
LEMMA Steps ==
    ASSUME Inv, [Next]_vars
    PROVE  \/ UNCHANGED vars
           \/ \E c \in Clients : \/ Call(c) \/ UpdateRead(c) \/ UpdateCheck(c)
                                 \/ Goto(c, Idle) /\ UNCHANGED catalog
                                 \/ \E i \in Ids : Inserts(c, i)
                                 \/ Updates(c)
                                 \/ ArchiveCommit(c)
<1> SUFFICES ASSUME NEW c \in Clients, Call(c) \/ Step(c)
             PROVE  \/ Call(c) \/ UpdateRead(c) \/ UpdateCheck(c)
                    \/ Goto(c, Idle) /\ UNCHANGED catalog
                    \/ \E i \in Ids : Inserts(c, i)
                    \/ Updates(c)
                    \/ ArchiveCommit(c)
  BY DEF Next
<1>1. ASSUME Insert(c)
      PROVE  (Goto(c, Idle) /\ UNCHANGED catalog) \/ \E i \in Ids : Inserts(c, i)
  BY <1>1 DEF Insert, Inserts
<1>2. ASSUME UpdateCommit(c) PROVE (Goto(c, Idle) /\ UNCHANGED catalog) \/ Updates(c)
  <2>1. CASE /\ NewName(c) # req[c].row => ~NameExists(NewName(c), req[c].id)
             /\ ~(RevisionNumber(c) <= Len(revisions[req[c].id]))
    <3>0. req[c].pc = "checked" /\ req[c].pc \in Updating
      BY <1>2 DEF UpdateCommit, Updating
    <3>1. req[c].revision \in Nat /\ revisions[req[c].id] \in Seq(Document)
      BY <3>0 DEF Inv, Requests, Request, Tables
    <3>2. RevisionNumber(c) > Len(revisions[req[c].id])
      BY <2>1, <3>1 DEF RevisionNumber
    <3> QED BY <1>2, <2>1, <3>2 DEF UpdateCommit, Updates
  <2> QED BY <1>2, <2>1 DEF UpdateCommit
<1> QED BY <1>1, <1>2 DEF Step

\* create_workflow's and clone_workflow's transaction keeps the invariant.
LEMMA InsertStep ==
    ASSUME Inv, NEW c \in Clients, NEW i \in Ids, Inserts(c, i)
    PROVE  Inv'
<1> DEFINE d == [name |-> req[c].name, revision |-> 1, tasks |-> req[c].tasks]
<1> USE WorkflowsAssumption
<1>1. req[c].name \in Names /\ req[c].tasks \in TaskLists /\ req[c].name # None
  BY DEF Inserts, Inv, Requests
<1>2. d \in Document /\ <<d>> \in Seq(Document) /\ Len(<<d>>) = 1 /\ <<d>>[1] = d
  BY <1>1 DEF Document
<1>3. /\ name' = [name EXCEPT ![i] = req[c].name]
      /\ current_revision' = [current_revision EXCEPT ![i] = 1]
      /\ tasks' = [tasks EXCEPT ![i] = req[c].tasks]
      /\ revisions' = [revisions EXCEPT ![i] = <<d>>]
      /\ is_archived' = is_archived
      /\ ~Exists(i) /\ revisions[i] = <<>>
  BY DEF Inserts, Inv, Absent
<1>4. Tables'
  BY <1>1, <1>2, <1>3 DEF Inv, Tables
<1>5. /\ \A k \in Ids \ {i} : /\ name'[k] = name[k] /\ revisions'[k] = revisions[k]
                             /\ current_revision'[k] = current_revision[k]
                             /\ tasks'[k] = tasks[k]
      /\ name'[i] = req[c].name /\ revisions'[i] = <<d>>
      /\ current_revision'[i] = 1 /\ tasks'[i] = req[c].tasks
  BY <1>3 DEF Inv, Tables
<1>6. Absent'
  BY <1>1, <1>5 DEF Inv, Absent, Exists
<1>7. NamesUnique'
  BY <1>1, <1>5 DEF Inv, NamesUnique, Exists, Inserts, NameExists
<1>8. HeadConsistent'
  <2> SUFFICES ASSUME NEW k \in Ids, Exists(k)'
               PROVE  /\ current_revision'[k] = Len(revisions'[k])
                      /\ Len(revisions'[k]) > 0
                      /\ revisions'[k][Len(revisions'[k])] =
                            [name |-> name'[k], revision |-> current_revision'[k],
                             tasks |-> tasks'[k]]
    BY DEF HeadConsistent, Latest
  <2>1. CASE k = i
    <3>1. Len(revisions'[i]) = 1 /\ revisions'[i][1] = d
      BY <1>2, <1>5
    <3>2. /\ name'[k] = req[c].name /\ current_revision'[k] = 1 /\ tasks'[k] = req[c].tasks
          /\ Len(revisions'[k]) = 1
      BY <1>5, <2>1, <3>1
    <3>3. revisions'[k][Len(revisions'[k])] = d
      BY <2>1, <3>1
    <3>4. d = [name |-> name'[k], revision |-> current_revision'[k], tasks |-> tasks'[k]]
      BY <3>2
    <3> HIDE DEF d
    <3> QED BY <3>2, <3>3, <3>4
  <2>2. CASE k # i
    BY <1>5, <2>2 DEF Inv, HeadConsistent, Latest, Exists
  <2> QED BY <2>1, <2>2
<1>9. /\ req' \in [Clients -> Request]
      /\ \A e \in Clients : req'[e] = IF e = c THEN Idle ELSE req[e]
  BY DEF Inv, Requests, Inserts, Goto, Idle, Request
<1>10. \A k \in Ids : Exists(k) => k # i /\ Exists(k)'
  BY <1>3, <1>5 DEF Exists
<1>11. Requests'
  BY <1>9, <1>10 DEF Inv, Requests, Idle, Updating
<1>12. Fresh'
  <2> SUFFICES ASSUME NEW e \in Clients, req'[e].pc \in Updating
               PROVE  /\ req'[e].revision < MaxRevision
                      /\ req'[e].revision <= Len(revisions'[req'[e].id])
                      /\ req'[e].revision = Len(revisions'[req'[e].id]) =>
                            /\ req'[e].row = name'[req'[e].id]
                            /\ req'[e].pc # "loaded" =>
                                 req'[e].document = revisions'[req'[e].id][Len(revisions'[req'[e].id])]
    BY DEF Fresh, Latest
  <2>1. req'[e] = req[e] /\ req[e].id \in Ids \ {i}
    BY <1>9, <1>10 DEF Idle, Updating, Inv, Requests
  <2> QED BY <1>5, <2>1 DEF Inv, Fresh, Latest
<1> QED BY <1>4, <1>6, <1>7, <1>8, <1>11, <1>12 DEF Inv

\* update_workflow's transaction keeps the invariant: it overtakes the other
\* sessions of the workflow, whose revision is no longer the newest.
LEMMA UpdateStep ==
    ASSUME Inv, NEW c \in Clients, Updates(c)
    PROVE  Inv'
<1> DEFINE i == req[c].id
           n == Len(revisions[i]) + 1
           d == [name |-> NewName(c), revision |-> n, tasks |-> NewTasks(c)]
<1> USE WorkflowsAssumption
<1>1. /\ i \in Ids /\ Exists(i) /\ RevisionNumber(c) = n /\ n \in Nat
      /\ revisions[i] \in Seq(Document) /\ req[c].row = name[i]
      /\ NewName(c) \in Names /\ NewTasks(c) \in TaskLists /\ NewName(c) # None
  BY UpdateReadsNewest
<1>2. /\ d \in Document /\ Append(revisions[i], d) \in Seq(Document)
      /\ Len(Append(revisions[i], d)) = n /\ Append(revisions[i], d)[n] = d
  BY <1>1 DEF Document
<1>3. /\ name' = [name EXCEPT ![i] = NewName(c)]
      /\ current_revision' = [current_revision EXCEPT ![i] = n]
      /\ tasks' = [tasks EXCEPT ![i] = NewTasks(c)]
      /\ revisions' = [revisions EXCEPT ![i] = Append(revisions[i], d)]
      /\ is_archived' = is_archived
  BY <1>1 DEF Updates, WriteRow, ReplaceTasks, Inv, Tables
<1> HIDE DEF i, n, d
<1>4. Tables'
  BY <1>1, <1>2, <1>3 DEF Inv, Tables
<1>5. /\ \A k \in Ids \ {i} : /\ name'[k] = name[k] /\ revisions'[k] = revisions[k]
                             /\ current_revision'[k] = current_revision[k]
                             /\ tasks'[k] = tasks[k]
      /\ name'[i] = NewName(c) /\ revisions'[i] = Append(revisions[i], d)
      /\ current_revision'[i] = n /\ tasks'[i] = NewTasks(c)
  BY <1>1, <1>3 DEF Inv, Tables
<1>6. Absent' /\ \A k \in Ids : Exists(k) => Exists(k)'
  BY <1>1, <1>5 DEF Inv, Absent, Exists
<1>7. NamesUnique'
  <2>1. \A k \in Ids \ {i} : name[k] # NewName(c)
    BY <1>1 DEF Updates, NameExists, Inv, NamesUnique, Exists, i
  <2> QED BY <1>1, <1>5, <2>1 DEF Inv, NamesUnique, Exists
<1>8. HeadConsistent'
  <2> SUFFICES ASSUME NEW k \in Ids, Exists(k)'
               PROVE  /\ current_revision'[k] = Len(revisions'[k])
                      /\ Len(revisions'[k]) > 0
                      /\ revisions'[k][Len(revisions'[k])] =
                            [name |-> name'[k], revision |-> current_revision'[k],
                             tasks |-> tasks'[k]]
    BY DEF HeadConsistent, Latest
  <2>1. CASE k = i
    <3>1. Len(revisions'[i]) = n /\ n > 0 /\ revisions'[i][n] = d
      BY <1>1, <1>2, <1>5 DEF n
    <3> QED BY <1>5, <2>1, <3>1 DEF d
  <2>2. CASE k # i
    BY <1>5, <2>2 DEF Inv, HeadConsistent, Latest, Exists
  <2> QED BY <2>1, <2>2
<1>9. /\ req' \in [Clients -> Request]
      /\ \A e \in Clients : req'[e] = IF e = c THEN Idle ELSE req[e]
  BY DEF Inv, Requests, Updates, Goto, Idle, Request
<1>11. Requests'
  BY <1>6, <1>9 DEF Inv, Requests, Idle, Updating
<1>12. Fresh'
  <2> SUFFICES ASSUME NEW e \in Clients, req'[e].pc \in Updating
               PROVE  /\ req'[e].revision < MaxRevision
                      /\ req'[e].revision <= Len(revisions'[req'[e].id])
                      /\ req'[e].revision = Len(revisions'[req'[e].id]) =>
                            /\ req'[e].row = name'[req'[e].id]
                            /\ req'[e].pc # "loaded" =>
                                 req'[e].document = revisions'[req'[e].id][Len(revisions'[req'[e].id])]
    BY DEF Fresh, Latest
  <2>1. req'[e] = req[e] /\ req[e].id \in Ids /\ req[e].revision \in Nat
    BY <1>9 DEF Idle, Updating, Inv, Requests, Request
  <2>2. CASE req[e].id = i
    <3>1. req[e].revision < n /\ Len(revisions'[i]) = n
      BY <1>1, <1>2, <1>5, <2>1, <2>2 DEF n, Inv, Fresh
    <3> QED BY <1>1, <2>1, <2>2, <3>1 DEF Inv, Fresh
  <2>3. CASE req[e].id # i
    BY <1>5, <2>1, <2>3 DEF Inv, Fresh, Latest
  <2> QED BY <2>2, <2>3
<1> QED BY <1>4, <1>6, <1>7, <1>8, <1>11, <1>12 DEF Inv

\* archive_workflow's transaction keeps the invariant.
LEMMA ArchiveStep ==
    ASSUME Inv, NEW c \in Clients, ArchiveCommit(c)
    PROVE  Inv'
<1>1. /\ name' = name /\ current_revision' = current_revision
      /\ tasks' = tasks /\ revisions' = revisions
      /\ is_archived' = [is_archived EXCEPT ![req[c].id] = TRUE]
  BY DEF ArchiveCommit
<1>2. (Tables /\ Absent /\ NamesUnique /\ HeadConsistent)'
  BY <1>1 DEF Inv, Tables, Absent, NamesUnique, HeadConsistent, Exists, Latest
<1>3. /\ req' \in [Clients -> Request]
      /\ \A e \in Clients : req'[e] = IF e = c THEN Idle ELSE req[e]
  BY DEF Inv, Requests, ArchiveCommit, Goto, Idle, Request
<1>4. Requests' /\ Fresh'
  BY <1>1, <1>3 DEF Inv, Requests, Fresh, Exists, Latest, Idle, Updating
<1> QED BY <1>2, <1>4 DEF Inv

\* Every step keeps the invariant.
LEMMA InvStep == Inv /\ [Next]_vars => Inv'
<1> SUFFICES ASSUME Inv, [Next]_vars PROVE Inv'
  OBVIOUS
<1>1. CASE UNCHANGED vars
  BY <1>1 DEF vars, catalog, Inv, Tables, Requests, Absent, NamesUnique, HeadConsistent, Fresh,
              Exists, Latest
<1>2. ASSUME NEW c \in Clients, Goto(c, Idle), UNCHANGED catalog PROVE Inv'
  <2>1. Idle \in Request /\ Idle.pc = "idle"
    BY DEF Idle, Request
  <2> QED BY <1>2, <2>1, RequestStep DEF Updating
<1> QED BY <1>1, <1>2, Steps, ReadStep, InsertStep, UpdateStep, ArchiveStep

\* The invariant holds in every reachable state.
THEOREM InvHolds == Spec => []Inv
BY InvInit, InvStep, PTL DEF Spec

\* Type correctness of the tables and of what the sessions have read.
THEOREM TypeCorrect == Spec => []TypeOK
<1>1. Inv => TypeOK
  BY DEF Inv, Tables, Requests, Request, Updating, TypeOK
<1> QED BY <1>1, InvHolds, PTL

\* The names of a tenant's workflows are unique although name_exists and the
\* write are separate statements.
THEOREM UniqueNames == Spec => []NamesUnique
<1>1. Inv => NamesUnique
  BY DEF Inv
<1> QED BY <1>1, InvHolds, PTL

\* The row and the task definitions are those of the newest revision whenever
\* another transaction can look.
THEOREM HeadIsNewest == Spec => []HeadConsistent
<1>1. Inv => HeadConsistent
  BY DEF Inv
<1> QED BY <1>1, InvHolds, PTL

-----------------------------------------------------------------------------
(***************************************************************************)
(* Action properties and refinement.                                       *)
(***************************************************************************)

\* A step changes no revision list, starts one or appends to one.
LEMMA RevisionsStep ==
    ASSUME Inv, [Next]_vars
    PROVE  \/ UNCHANGED revisions
           \/ \E c \in Clients, i \in Ids : Inserts(c, i)
           \/ \E c \in Clients : Updates(c)
BY Steps DEF vars, catalog, Call, CreateCheck, Clone, UpdateLoad, ArchiveLoad, UpdateRead,
             UpdateCheck, ArchiveCommit

\* No update is lost: whatever was committed between a session's reads and its
\* commit, a new revision is its predecessor with what the client sent.
THEOREM UpdatesKept == Spec => NoLostUpdate
<1> DEFINE Kept ==
      \A i \in Ids :
          \/ revisions'[i] = revisions[i]
          \/ revisions[i] = <<>>
          \/ \E c \in Clients :
                /\ req[c].pc = "checked" /\ req[c].id = i /\ req'[c] = Idle
                /\ revisions'[i] = Append(revisions[i],
                     [name |-> IF req[c].name # None THEN req[c].name ELSE Latest(i).name,
                      revision |-> Len(revisions[i]) + 1,
                      tasks |-> IF req[c].tasks # None THEN req[c].tasks
                                ELSE Latest(i).tasks])
<1>1. ASSUME Inv, [Next]_vars PROVE Kept
  <2>0. revisions \in [Ids -> Seq(Document)] /\ req \in [Clients -> Request]
    BY <1>1 DEF Inv, Tables, Requests
  <2>1. CASE UNCHANGED revisions
    BY <2>1
  <2>2. ASSUME NEW c \in Clients, NEW i \in Ids, Inserts(c, i) PROVE Kept
    <3>1. revisions[i] = <<>>
      BY <1>1, <2>2 DEF Inserts, Inv, Absent
    <3>2. \A k \in Ids \ {i} : revisions'[k] = revisions[k]
      BY <2>0, <2>2 DEF Inserts
    <3> QED BY <3>1, <3>2
  <2>3. ASSUME NEW c \in Clients, Updates(c) PROVE Kept
    <3> DEFINE i == req[c].id
    <3>1. /\ i \in Ids /\ RevisionNumber(c) = Len(revisions[i]) + 1
          /\ req[c].row = Latest(i).name /\ req[c].document = Latest(i)
      BY <1>1, <2>3, UpdateReadsNewest
    <3>2. \A k \in Ids \ {i} : revisions'[k] = revisions[k]
      BY <2>0, <2>3 DEF Updates
    <3>3. req[c].pc = "checked" /\ req'[c] = Idle
      BY <2>0, <2>3 DEF Updates, Goto
    <3>4. revisions'[i] = Append(revisions[i],
            [name |-> NewName(c), revision |-> RevisionNumber(c), tasks |-> NewTasks(c)])
      BY <2>0, <2>3, <3>1 DEF Updates
    <3>5. /\ NewName(c) = IF req[c].name # None THEN req[c].name ELSE Latest(i).name
          /\ NewTasks(c) = IF req[c].tasks # None THEN req[c].tasks ELSE Latest(i).tasks
      BY <3>1 DEF NewName, NewTasks
    <3> QED BY <3>1, <3>2, <3>3, <3>4, <3>5
  <2> QED BY <1>1, <2>1, <2>2, <2>3, RevisionsStep
<1>2. Inv /\ [Next]_vars => [Kept]_vars
  BY <1>1
<1> QED BY <1>2, InvHolds, PTL DEF Spec, NoLostUpdate

\* In the catalog, a workflow exists when it has a revision.
LEMMA ExistsAlike ==
    ASSUME Inv, NEW i \in Ids
    PROVE  /\ revisions[i] # <<>> <=> Exists(i)
           /\ Exists(i) => revisions[i][Len(revisions[i])].name = name[i]
<1>1. CASE Exists(i)
  <2>1. revisions[i] \in Seq(Document) /\ Len(revisions[i]) > 0
    BY <1>1 DEF Inv, Tables, HeadConsistent
  <2>2. revisions[i] # <<>>
    BY <2>1
  <2>3. Latest(i).name = name[i]
    BY <1>1 DEF Inv, HeadConsistent
  <2> QED BY <1>1, <2>2, <2>3 DEF Latest
<1>2. CASE ~Exists(i)
  BY <1>2 DEF Inv, Absent
<1> QED BY <1>1, <1>2

\* A step of the requests is a step of the catalog, or none.
LEMMA CatalogStep ==
    ASSUME Inv, [Next]_vars
    PROVE  Abstract!CatalogNext \/ (revisions' = revisions /\ is_archived' = is_archived)
<1> USE WorkflowsAssumption
<1>2. ASSUME NEW c \in Clients, NEW i \in Ids, Inserts(c, i) PROVE Abstract!CatalogNext
  <2> DEFINE d == [name |-> req[c].name, revision |-> 1, tasks |-> req[c].tasks]
  <2>1. req[c].name \in Names /\ req[c].tasks \in TaskLists
    BY <1>2 DEF Inserts, Inv, Requests
  <2>2. d \in Abstract!Document /\ d.name = req[c].name /\ d.revision = 1
    BY <2>1 DEF Abstract!Document
  <2>3. ~Abstract!Exists(i)
    BY <1>2, ExistsAlike DEF Inserts, Abstract!Exists
  <2>4. Abstract!Available(req[c].name, i)
    <3>1. \A k \in Ids : name[k] # req[c].name
      BY <1>2 DEF Inserts, NameExists
    <3> QED BY <3>1, ExistsAlike DEF Abstract!Available, Abstract!Exists, Abstract!Latest
  <2>5. revisions' = [revisions EXCEPT ![i] = <<d>>] /\ UNCHANGED is_archived
    BY <1>2 DEF Inserts
  <2> HIDE DEF d
  <2>6. Abstract!Add(i, d)
    BY <2>2, <2>3, <2>4, <2>5 DEF Abstract!Add
  <2> QED BY <2>2, <2>6 DEF Abstract!CatalogNext
<1>3. ASSUME NEW c \in Clients, Updates(c) PROVE Abstract!CatalogNext
  <2> DEFINE i == req[c].id
             d == [name |-> NewName(c), revision |-> RevisionNumber(c), tasks |-> NewTasks(c)]
  <2>1. /\ i \in Ids /\ Exists(i) /\ req[c].row = name[i]
        /\ RevisionNumber(c) = Len(revisions[i]) + 1 /\ RevisionNumber(c) \in 1..MaxRevision
        /\ NewName(c) \in Names /\ NewTasks(c) \in TaskLists
    BY <1>3, UpdateReadsNewest
  <2>2. d \in Abstract!Document /\ d.name = NewName(c) /\ d.revision = Len(revisions[i]) + 1
    BY <2>1 DEF Abstract!Document
  <2>3. Abstract!Exists(i)
    BY <2>1, ExistsAlike DEF Abstract!Exists
  <2>4. Abstract!Available(NewName(c), i)
    <3>1. \A k \in Ids \ {i} : name[k] # NewName(c)
      BY <1>3, <2>1 DEF Updates, NameExists, Inv, NamesUnique, Exists
    <3> QED BY <3>1, ExistsAlike DEF Abstract!Available, Abstract!Exists, Abstract!Latest
  <2>5. revisions' = [revisions EXCEPT ![i] = Append(@, d)] /\ UNCHANGED is_archived
    BY <1>3 DEF Updates, WriteRow
  <2> HIDE DEF d
  <2>6. Abstract!Revise(i, d)
    BY <2>2, <2>3, <2>4, <2>5 DEF Abstract!Revise
  <2> QED BY <2>1, <2>2, <2>6 DEF Abstract!CatalogNext
<1>4. ASSUME NEW c \in Clients, ArchiveCommit(c) PROVE Abstract!CatalogNext
  <2>1. req[c].id \in Ids /\ Exists(req[c].id)
    BY <1>4 DEF ArchiveCommit, Inv, Requests
  <2>2. Abstract!Archive(req[c].id)
    BY <1>4, <2>1, ExistsAlike DEF ArchiveCommit, Abstract!Archive, Abstract!Exists
  <2> QED BY <2>1, <2>2 DEF Abstract!CatalogNext
<1>5. ASSUME NEW c \in Clients,
             Call(c) \/ UpdateRead(c) \/ UpdateCheck(c) \/ (Goto(c, Idle) /\ UNCHANGED catalog)
      PROVE  revisions' = revisions /\ is_archived' = is_archived
  BY <1>5 DEF catalog, Call, CreateCheck, Clone, UpdateLoad, ArchiveLoad, UpdateRead, UpdateCheck
<1>6. UNCHANGED vars => revisions' = revisions /\ is_archived' = is_archived
  BY DEF vars, catalog
<1>7. ASSUME NEW c \in Clients,
             \/ Call(c) \/ UpdateRead(c) \/ UpdateCheck(c)
             \/ Goto(c, Idle) /\ UNCHANGED catalog
             \/ \E i \in Ids : Inserts(c, i)
             \/ Updates(c)
             \/ ArchiveCommit(c)
      PROVE  Abstract!CatalogNext \/ (revisions' = revisions /\ is_archived' = is_archived)
  BY <1>2, <1>3, <1>4, <1>5, <1>7
<1> QED BY <1>6, <1>7, Steps

\* The requests, whatever their statements interleave to, implement Catalog:
\* the rest of the system may take each operation for atomic.
THEOREM Refinement == Spec => ImplementsCatalog
<1>1. Init => Abstract!CatalogInit
  BY DEF Init, Abstract!CatalogInit
<1>2. Inv /\ [Next]_vars => [Abstract!CatalogNext]_(Abstract!catalog)
  BY CatalogStep DEF Abstract!catalog
<1> QED
  BY <1>1, <1>2, InvHolds, PTL DEF Spec, ImplementsCatalog, Abstract!CatalogSpec
=============================================================================
