------------------------------ MODULE Catalog ------------------------------
(***************************************************************************)
(* What backend/services/workflow_service.py promises the rest of the      *)
(* system: a workflow is the list of its revisions, which only grows; its  *)
(* row and its task definitions are those of the newest one; names are     *)
(* unique in a tenant and archiving is for good.  Workflows implements     *)
(* this, Launch builds on it.                                              *)
(***************************************************************************)
EXTENDS Naturals, Sequences

CONSTANTS
    Ids,          \* workflow ids (uuid4): one is used up by each creation
    Names,        \* workflow names, stripped
    TaskLists,    \* task lists that DagService.validate accepts (see Dag)
    MaxRevision   \* bound on the revisions of a workflow

VARIABLES
    revisions,    \* documents in the order of their revision number
    is_archived

catalog == <<revisions, is_archived>>

Document == [name : Names, revision : 1..MaxRevision, tasks : TaskLists]

Exists(i) == revisions[i] # <<>>
Latest(i) == revisions[i][Len(revisions[i])]

CatalogInit ==
    /\ revisions = [i \in Ids |-> <<>>]
    /\ is_archived = [i \in Ids |-> FALSE]

Available(n, i) == \A k \in Ids \ {i} : Exists(k) => Latest(k).name # n

\* create_workflow, clone_workflow.
Add(i, d) ==
    /\ ~Exists(i) /\ Available(d.name, i)
    /\ d.revision = 1
    /\ revisions' = [revisions EXCEPT ![i] = <<d>>]
    /\ UNCHANGED is_archived

\* update_workflow.
Revise(i, d) ==
    /\ Exists(i) /\ Available(d.name, i)
    /\ d.revision = Len(revisions[i]) + 1
    /\ revisions' = [revisions EXCEPT ![i] = Append(@, d)]
    /\ UNCHANGED is_archived

\* archive_workflow.
Archive(i) ==
    /\ Exists(i)
    /\ is_archived' = [is_archived EXCEPT ![i] = TRUE]
    /\ UNCHANGED revisions

CatalogNext ==
    \E i \in Ids :
        \/ \E d \in Document : Add(i, d) \/ Revise(i, d)
        \/ Archive(i)

CatalogSpec == CatalogInit /\ [][CatalogNext]_catalog
=============================================================================
