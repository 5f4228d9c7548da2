---------------------------- MODULE JobLifecycle ----------------------------
(***************************************************************************)
(* What the queue promises about each job, whoever calls it: the life of a *)
(* row of queue_jobs.  A transaction may move several jobs at once, so a   *)
(* step moves every job along its life cycle or leaves it where it is.     *)
(* JobQueue implements this specification on PostgreSQL.                   *)
(***************************************************************************)
EXTENDS Naturals

CONSTANTS Jobs, MaxAttempts

VARIABLES st, tries, dead

lifecycle == <<st, tries, dead>>

States == {"absent", "queued", "leased", "completed", "cancelled", "failed"}

LInit ==
    /\ st = [j \in Jobs |-> "absent"]
    /\ tries = [j \in Jobs |-> 0]
    /\ dead = [j \in Jobs |-> FALSE]

Keeps(j) == tries'[j] = tries[j] /\ dead'[j] = dead[j]

Stays(j) == st'[j] = st[j] /\ Keeps(j)

\* A fresh row becomes available.
Enters(j) == st[j] = "absent" /\ st'[j] = "queued" /\ Keeps(j)

\* A worker obtains the job: one more attempt, never more than the maximum.
IsDelivered(j) ==
    /\ st[j] = "queued" /\ tries[j] < MaxAttempts
    /\ st'[j] = "leased" /\ tries'[j] = tries[j] + 1 /\ dead'[j] = dead[j]

\* The lease ran out: back to the queue, or quarantined after the last attempt.
IsGivenBack(j) ==
    /\ st[j] = "leased"
    /\ tries[j] < MaxAttempts /\ st'[j] = "queued" /\ Keeps(j)

IsQuarantined(j) ==
    /\ st[j] = "leased" /\ tries[j] >= MaxAttempts
    /\ st'[j] = "failed" /\ dead'[j] = TRUE /\ tries'[j] = tries[j]

\* Somebody who was given the job acknowledges it, in time or late.
IsSettled(j) ==
    /\ st[j] \in {"queued", "leased", "completed", "failed"}
    /\ st'[j] = "completed" /\ Keeps(j)

IsCancelled(j) ==
    st[j] \in {"queued", "leased"} /\ st'[j] = "cancelled" /\ Keeps(j)

\* An operator gives a dead letter a new life, or closes it.
IsReplayed(j) ==
    /\ dead[j]
    /\ st'[j] = "queued" /\ dead'[j] = FALSE /\ tries'[j] = 0

IsResolved(j) ==
    /\ dead[j]
    /\ st'[j] = "completed" /\ dead'[j] = FALSE /\ tries'[j] = tries[j]

Moves(j) ==
    \/ Stays(j) \/ Enters(j) \/ IsDelivered(j) \/ IsGivenBack(j) \/ IsQuarantined(j)
    \/ IsSettled(j) \/ IsCancelled(j) \/ IsReplayed(j) \/ IsResolved(j)

LNext == \A j \in Jobs : Moves(j)

LSpec == LInit /\ [][LNext]_lifecycle
=============================================================================
