----------------------------- MODULE MCJobQueue -----------------------------
(***************************************************************************)
(* JobQueue for TLC: all jobs belong to one workflow and to one execution, *)
(* each is the job of a task of its own, and they differ in priority.      *)
(***************************************************************************)
EXTENDS JobQueue, TLC

CONSTANTS j1, e1, f1

MCOne == [j \in Jobs |-> e1]
MCTask == [j \in Jobs |-> j]
MCWorkflow == [j \in Jobs |-> f1]
MCPriority == [j \in Jobs |-> IF j = j1 THEN 1 ELSE 0]

\* Workers and reapers are interchangeable.
MCSymmetry == Permutations(Workers) \cup Permutations(Reapers)
=============================================================================
