----------------------------- MODULE Workflows -----------------------------
(***************************************************************************)
(* A tenant's workflows: create, update, archive and clone of              *)
(* backend/services/workflow_service.py, each request in a session of its  *)
(* own.  A request reads in several statements and writes in one           *)
(* transaction, with the transactions of other requests in between; what   *)
(* holds them apart is two unique constraints, (tenant, name) and          *)
(* (workflow, revision).  Every query filters by tenant: one is enough.    *)
(***************************************************************************)
EXTENDS Naturals, Sequences, FiniteSets

CONSTANTS
    Ids,          \* workflow ids (uuid4): one is used up by each creation
    Names,        \* workflow names, stripped
    TaskLists,    \* task lists that DagService.validate accepts (see Dag)
    Clients,      \* API requests in progress
    MaxRevision,  \* bound on the revisions of a workflow
    None

ASSUME WorkflowsAssumption ==
    None \notin Names \cup TaskLists \cup Ids /\ MaxRevision \in Nat \ {0}

VARIABLES
    name, current_revision, is_archived,  \* columns of workflows
    tasks,      \* task definitions (the tasks table), per workflow
    revisions,  \* workflow_revisions.document in the order of revision
    req         \* each client's request and what its session has read

catalog == <<name, current_revision, is_archived, tasks, revisions>>
vars == <<catalog, req>>

Document == [name : Names, revision : Nat, tasks : TaskLists]

\* A request is what the client sent (name and tasks may be left out of an
\* update) and what the session has read so far.
Idle == [pc |-> "idle", id |-> None, name |-> None, tasks |-> None,
         row |-> None, revision |-> 0, document |-> None]

Exists(i) == name[i] # None
Latest(i) == revisions[i][Len(revisions[i])]

Init ==
    /\ name = [i \in Ids |-> None]
    /\ current_revision = [i \in Ids |-> 0]
    /\ is_archived = [i \in Ids |-> FALSE]
    /\ tasks = [i \in Ids |-> None]
    /\ revisions = [i \in Ids |-> <<>>]
    /\ req = [c \in Clients |-> Idle]

Goto(c, r) == req' = [req EXCEPT ![c] = r]

(***************************************************************************)
(* create_workflow: name_exists, then the insert.                          *)
(***************************************************************************)

\* The name is looked up among all workflows, archived ones too.
NameExists(n, except) == \E i \in Ids : i # except /\ name[i] = n

CreateCheck(c, n, ts) ==
    /\ req[c].pc = "idle"
    /\ ~NameExists(n, None)
    /\ Goto(c, [Idle EXCEPT !.pc = "insert", !.name = n, !.tasks = ts])
    /\ UNCHANGED catalog

\* MUTANT: name_exists is taken for a guarantee.
InsertUnchecked(c) ==
    \E i \in Ids :
        /\ req[c].pc = "insert" /\ ~Exists(i)
        /\ name' = [name EXCEPT ![i] = req[c].name]
        /\ current_revision' = [current_revision EXCEPT ![i] = 1]
        /\ tasks' = [tasks EXCEPT ![i] = req[c].tasks]
        /\ revisions' = [revisions EXCEPT ![i] =
                            <<[name |-> req[c].name, revision |-> 1, tasks |-> req[c].tasks]>>]
        /\ Goto(c, Idle)
        /\ UNCHANGED is_archived

\* The workflow, its tasks and revision 1 in one transaction.  The flush that
\* inserts the workflow waits for a transaction that inserts the same name,
\* and raises IntegrityError when that one commits.
Insert(c) ==
    /\ req[c].pc = "insert"
    /\ Goto(c, Idle)
    /\ IF NameExists(req[c].name, None)
       THEN UNCHANGED catalog
       ELSE \E i \in Ids :
               /\ ~Exists(i)
               /\ name' = [name EXCEPT ![i] = req[c].name]
               /\ current_revision' = [current_revision EXCEPT ![i] = 1]
               /\ tasks' = [tasks EXCEPT ![i] = req[c].tasks]
               /\ revisions' = [revisions EXCEPT ![i] =
                                   <<[name |-> req[c].name, revision |-> 1, tasks |-> req[c].tasks]>>]
               /\ UNCHANGED is_archived

(***************************************************************************)
(* clone_workflow: the latest document of another workflow, archived or    *)
(* not, under a new name.                                                  *)
(***************************************************************************)
Clone(c, i, n) ==
    /\ req[c].pc = "idle"
    /\ Exists(i)
    /\ ~NameExists(n, None)
    /\ Goto(c, [Idle EXCEPT !.pc = "insert", !.name = n, !.tasks = Latest(i).tasks])
    /\ UNCHANGED catalog

(***************************************************************************)
(* update_workflow.                                                        *)
(***************************************************************************)

\* MUTANT: the 404 is forgotten.
UpdateLoadAny(c, i, n, ts) ==
    /\ req[c].pc = "idle"
    /\ current_revision[i] < MaxRevision
    /\ Goto(c, [Idle EXCEPT !.pc = "loaded", !.id = i, !.name = n, !.tasks = ts,
                            !.row = name[i], !.revision = current_revision[i]])
    /\ UNCHANGED catalog

\* get_workflow: the row; 404 when it is absent or archived.
UpdateLoad(c, i, n, ts) ==
    /\ req[c].pc = "idle"
    /\ Exists(i) /\ ~is_archived[i]
    /\ current_revision[i] < MaxRevision
    /\ Goto(c, [Idle EXCEPT !.pc = "loaded", !.id = i, !.name = n, !.tasks = ts,
                            !.row = name[i], !.revision = current_revision[i]])
    /\ UNCHANGED catalog

\* get_latest_revision: the tasks of an update that brings none.
UpdateRead(c) ==
    /\ req[c].pc = "loaded"
    /\ Goto(c, [req[c] EXCEPT !.pc = "read", !.document = Latest(req[c].id)])
    /\ UNCHANGED catalog

NewName(c) == IF req[c].name # None THEN req[c].name ELSE req[c].row
NewTasks(c) == IF req[c].tasks # None THEN req[c].tasks ELSE req[c].document.tasks

\* name_exists for a name that changes: 409, or go on.
UpdateCheck(c) ==
    /\ req[c].pc = "read"
    /\ IF NewName(c) # req[c].row /\ NameExists(NewName(c), req[c].id)
       THEN Goto(c, Idle)
       ELSE Goto(c, [req[c] EXCEPT !.pc = "checked"])
    /\ UNCHANGED catalog

\* MUTANT: the next revision number is taken from the table.
RevisionNumberOfTable(c) == Len(revisions[req[c].id]) + 1

\* The next revision number comes from the row the session loaded.
RevisionNumber(c) == req[c].revision + 1

\* MUTANT: the whole row is written back.
WriteRowWhole(c) ==
    LET i == req[c].id
    IN /\ name' = [name EXCEPT ![i] = NewName(c)]
       /\ current_revision' = [current_revision EXCEPT ![i] = RevisionNumber(c)]
       /\ is_archived' = [is_archived EXCEPT ![i] = FALSE]

\* The UPDATE carries the columns that differ from what was loaded.
WriteRow(c) ==
    LET i == req[c].id
    IN /\ name' = [name EXCEPT ![i] = IF NewName(c) # req[c].row THEN NewName(c) ELSE @]
       /\ current_revision' = [current_revision EXCEPT ![i] = RevisionNumber(c)]
       /\ UNCHANGED is_archived

\* MUTANT: the definitions that were deleted come back only if the client
\* sent some.
ReplaceTasksIfSent(c) == tasks' = [tasks EXCEPT ![req[c].id] = req[c].tasks]

\* The old definitions are deleted and the new ones inserted.
ReplaceTasks(c) == tasks' = [tasks EXCEPT ![req[c].id] = NewTasks(c)]

\* One transaction, which waits for others that write the same row.  It is
\* rolled back by the constraint on the name (the autoflush in front of the
\* DELETE raises) or by the one on the revision (commit raises: 409).
UpdateCommit(c) ==
    LET i == req[c].id
    IN /\ req[c].pc = "checked"
       /\ Goto(c, Idle)
       /\ IF \/ NewName(c) # req[c].row /\ NameExists(NewName(c), i)
             \/ RevisionNumber(c) <= Len(revisions[i])
          THEN UNCHANGED catalog
          ELSE /\ WriteRow(c)
               /\ ReplaceTasks(c)
               /\ revisions' = [revisions EXCEPT ![i] =
                      Append(@, [name |-> NewName(c), revision |-> RevisionNumber(c),
                                 tasks |-> NewTasks(c)])]

(***************************************************************************)
(* archive_workflow: one column of a row that was loaded before.           *)
(***************************************************************************)
ArchiveLoad(c, i) ==
    /\ req[c].pc = "idle"
    /\ Exists(i)
    /\ Goto(c, [Idle EXCEPT !.pc = "archive", !.id = i])
    /\ UNCHANGED catalog

ArchiveCommit(c) ==
    /\ req[c].pc = "archive"
    /\ is_archived' = [is_archived EXCEPT ![req[c].id] = TRUE]
    /\ Goto(c, Idle)
    /\ UNCHANGED <<name, current_revision, tasks, revisions>>

Step(c) ==
    \/ Insert(c)
    \/ UpdateRead(c) \/ UpdateCheck(c) \/ UpdateCommit(c)
    \/ ArchiveCommit(c)

Call(c) ==
    \/ \E n \in Names, ts \in TaskLists : CreateCheck(c, n, ts)
    \/ \E i \in Ids, n \in Names : Clone(c, i, n)
    \/ \E i \in Ids, n \in Names \cup {None}, ts \in TaskLists \cup {None} :
           UpdateLoad(c, i, n, ts)
    \/ \E i \in Ids : ArchiveLoad(c, i)

Next == \E c \in Clients : Call(c) \/ Step(c)

Spec == Init /\ [][Next]_vars

(***************************************************************************)
(* Properties.                                                             *)
(***************************************************************************)

\* Types of the tables and of the requests.
TypeOK ==
    /\ name \in [Ids -> Names \cup {None}]
    /\ current_revision \in [Ids -> Nat]
    /\ is_archived \in [Ids -> BOOLEAN]
    /\ tasks \in [Ids -> TaskLists \cup {None}]
    /\ revisions \in [Ids -> Seq(Document)]
    /\ \A c \in Clients :
           /\ req[c].pc \in {"idle", "insert", "loaded", "read", "checked", "archive"}
           /\ req[c].pc = "insert" => req[c].name \in Names /\ req[c].tasks \in TaskLists
           /\ req[c].pc \in {"loaded", "read", "checked", "archive"} =>
                  req[c].id \in Ids /\ Exists(req[c].id)

\* No two workflows of a tenant share a name, whoever created, cloned or
\* renamed them at the same time.
NamesUnique ==
    \A i, k \in Ids : (Exists(i) /\ name[i] = name[k]) => i = k

\* The tables agree whenever a transaction can look: the row and the task
\* definitions are those of the newest revision, and no number is missing.
HeadConsistent ==
    \A i \in Ids : Exists(i) =>
        /\ current_revision[i] = Len(revisions[i])
        /\ Len(revisions[i]) > 0
        /\ Latest(i) = [name |-> name[i], revision |-> current_revision[i], tasks |-> tasks[i]]

\* No update is lost and history is never rewritten: a new revision is its
\* predecessor with exactly what the client sent changed, whatever other
\* clients committed between this session's reads and its commit.
NoLostUpdate ==
    [][\A i \in Ids :
          \/ revisions'[i] = revisions[i]
          \/ revisions[i] = <<>>
          \/ \E c \in Clients :
                /\ req[c].pc = "checked" /\ req[c].id = i /\ req'[c] = Idle
                /\ revisions'[i] = Append(revisions[i],
                     [name |-> IF req[c].name # None THEN req[c].name ELSE Latest(i).name,
                      revision |-> Len(revisions[i]) + 1,
                      tasks |-> IF req[c].tasks # None THEN req[c].tasks
                                ELSE Latest(i).tasks])]_vars

\* Whatever the requests' statements interleave to, the tables show the rest
\* of the system a catalog whose operations are atomic: names are unique,
\* revisions only grow, an archived workflow never comes back.
Abstract == INSTANCE Catalog

ImplementsCatalog == Abstract!CatalogSpec
=============================================================================
