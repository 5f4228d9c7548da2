-------------------------------- MODULE Dag --------------------------------
(***************************************************************************)
(* What stands between a client's task list and the execution engine: the  *)
(* normalisation of backend/schemas/workflow.py and the validation of      *)
(* backend/services/dag_service.py (Kahn's algorithm, one step per         *)
(* queue.popleft()).  The engine never finishes an execution whose         *)
(* dependencies are cyclic, so a list is stored only if validate returns.  *)
(***************************************************************************)
EXTENDS Naturals, FiniteSets

CONSTANTS
    Spellings,       \* names as clients write them, white space included
    Names,           \* what str.strip() leaves of them
    Blank,           \* ... when nothing is left
    strip,           \* [Spellings -> Names \cup {Blank}]
    MaxTasks,        \* max_length of WorkflowCreate.tasks
    MaxDependencies  \* max_length of WorkflowTaskCreate.dependencies

ASSUME DagAssumption ==
    /\ strip \in [Spellings -> Names \cup {Blank}] /\ Blank \notin Names
    /\ IsFiniteSet(Names)
    /\ MaxTasks \in Nat \ {0} /\ MaxDependencies \in Nat

VARIABLES
    raw,       \* the request's tasks: [name, dependencies] in spellings
    verdict,   \* "none" until validation ends
    indegree, queue, visited,  \* the locals of DagService.validate
    popped     \* history: the names visited counts

vars == <<raw, verdict, indegree, queue, visited, popped>>

TaskCreate == [name : Spellings,
               dependencies : {D \in SUBSET Spellings : Cardinality(D) <= MaxDependencies}]

(***************************************************************************)
(* The payload after the field validators.  Blank dependencies are dropped *)
(* and repeated ones kept once: a list of dependencies is a set here.      *)
(***************************************************************************)
Indices == DOMAIN raw
NameOf(i) == strip[raw[i].name]

Dependencies(i) == {strip[s] : s \in raw[i].dependencies} \ {Blank}

TaskNames == {NameOf(i) : i \in Indices}

\* The dependencies of the task called n.
Needs(n) == UNION {Dependencies(i) : i \in {k \in Indices : NameOf(k) = n}}

Init ==
    /\ raw \in UNION {[1..n -> TaskCreate] : n \in 1..MaxTasks}
    /\ verdict = "received"
    /\ indegree = [n \in Names |-> 0]
    /\ queue = {}
    /\ visited = 0
    /\ popped = {}

NoneBlank == \A i \in Indices : NameOf(i) # Blank
NamesUnique == Cardinality(TaskNames) = Cardinality(Indices)
DependenciesExist == \A i \in Indices : Dependencies(i) \subseteq TaskNames

Refuse(reason) ==
    /\ verdict = "received"
    /\ verdict' = reason
    /\ UNCHANGED <<raw, indegree, queue, visited, popped>>

\* normalize_name raises, and the request is a 422.
RejectBlank == ~NoneBlank /\ Refuse("invalid")

\* validate compares the number of names with the number of tasks ...
RejectDuplicate == NoneBlank /\ ~NamesUnique /\ Refuse("duplicate")

\* ... looks up every dependency while it counts them ...
RejectUnknown == NoneBlank /\ NamesUnique /\ ~DependenciesExist /\ Refuse("unknown")

Neighbors(n) == {m \in TaskNames : n \in Needs(m)}

\* MUTANT: the degree is set to one where it should be raised by one.
BeginOnce ==
    /\ verdict = "received"
    /\ NoneBlank /\ NamesUnique /\ DependenciesExist
    /\ verdict' = "walking"
    /\ indegree' = [n \in Names |-> IF n \in TaskNames /\ Needs(n) # {} THEN 1 ELSE 0]
    /\ queue' = {n \in TaskNames : indegree'[n] = 0}
    /\ UNCHANGED <<raw, visited, popped>>

\* ... and starts from the tasks without any.
Begin ==
    /\ verdict = "received"
    /\ NoneBlank /\ NamesUnique /\ DependenciesExist
    /\ verdict' = "walking"
    /\ indegree' = [n \in Names |-> IF n \in TaskNames THEN Cardinality(Needs(n)) ELSE 0]
    /\ queue' = {n \in TaskNames : indegree'[n] = 0}
    /\ UNCHANGED <<raw, visited, popped>>

\* MUTANT: a neighbour is queued when it is first met.
VisitEarly(n) ==
    /\ verdict = "walking" /\ n \in queue
    /\ visited' = visited + 1
    /\ popped' = popped \cup {n}
    /\ indegree' = [m \in Names |-> IF m \in Neighbors(n) THEN indegree[m] - 1 ELSE indegree[m]]
    /\ queue' = (queue \ {n}) \cup {m \in Neighbors(n) : indegree[m] = Cardinality(Needs(m))}
    /\ UNCHANGED <<raw, verdict>>

\* One turn of the loop.  The order in which the deque hands out the names
\* makes no difference: any of them may come next.
Visit(n) ==
    /\ verdict = "walking" /\ n \in queue
    /\ visited' = visited + 1
    /\ popped' = popped \cup {n}
    /\ indegree' = [m \in Names |-> IF m \in Neighbors(n) THEN indegree[m] - 1 ELSE indegree[m]]
    /\ queue' = (queue \ {n}) \cup {m \in Neighbors(n) : indegree'[m] = 0}
    /\ UNCHANGED <<raw, verdict>>

\* MUTANT: the loop is left for good when everything was visited only.
FinishAll ==
    /\ verdict = "walking" /\ queue = {}
    /\ visited = Cardinality(Indices)
    /\ verdict' = "accepted"
    /\ UNCHANGED <<raw, indegree, queue, visited, popped>>

Finish ==
    /\ verdict = "walking" /\ queue = {}
    /\ verdict' = IF visited # Cardinality(Indices) THEN "cycle" ELSE "accepted"
    /\ UNCHANGED <<raw, indegree, queue, visited, popped>>

Next ==
    \/ RejectBlank \/ RejectDuplicate \/ RejectUnknown
    \/ Begin
    \/ \E n \in Names : Visit(n)
    \/ Finish

Spec == Init /\ [][Next]_vars

\* A request that was received is worked on to its end.
FairSpec == Spec /\ WF_vars(Next)

(***************************************************************************)
(* Properties.                                                             *)
(***************************************************************************)
Verdicts == {"invalid", "duplicate", "unknown", "cycle", "accepted"}

\* Types of the request and of the locals of validate.
TypeOK ==
    /\ verdict \in Verdicts \cup {"received", "walking"}
    /\ indegree \in [Names -> Nat]
    /\ queue \subseteq TaskNames
    /\ visited \in Nat

\* What the engine needs of the dependencies: whatever tasks are still to be
\* done, one of them waits for none of the others.
AlwaysOneReady ==
    \A U \in SUBSET TaskNames :
        U # {} => \E n \in U : Needs(n) \cap U = {}

\* validate returns exactly for the lists the engine can finish: every name
\* means one task, every dependency is one of them, and no interleaving of
\* completions leaves only tasks that wait for each other.
VerdictCorrect ==
    /\ verdict = "accepted" =>
           /\ \A i, k \in Indices : NameOf(i) = NameOf(k) => i = k
           /\ \A n \in TaskNames : Needs(n) \subseteq TaskNames
           /\ AlwaysOneReady
    /\ verdict = "cycle" => ~AlwaysOneReady

\* The loop ends for every list, cyclic ones included.
Decided == <>(verdict \in Verdicts)
=============================================================================
