---------------------------- MODULE MCWorkflows ----------------------------
(***************************************************************************)
(* Workflows for TLC.  Clients, ids, names and task lists are only         *)
(* compared for equality.                                                  *)
(***************************************************************************)
EXTENDS Workflows, TLC

MCSymmetry == Permutations(Clients) \cup Permutations(Ids) \cup Permutations(Names)
                  \cup Permutations(TaskLists)
=============================================================================
