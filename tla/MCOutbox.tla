------------------------------ MODULE MCOutbox ------------------------------
(***************************************************************************)
(* Outbox for TLC: a started and a failed event, a websocket, and a second *)
(* endpoint whose URL is malformed.  To keep the graph small, TLC starts   *)
(* from three states that Init leads to, where some endpoints have been    *)
(* created, for more types than those of MCSubscriptions.                  *)
(***************************************************************************)
EXTENDS Outbox, TLC

CONSTANTS e1, e2, w1, w2

MCTypes == e1 :> "execution.started" @@ e2 :> "execution.failed"
MCSubscriptions == {{"execution.failed"}}
MCHome == [s \in Sockets |-> CHOOSE p \in Procs : TRUE]

BothTypes == {"execution.started", "execution.failed"}

\* Before the first event, with these sockets and endpoints, after so many faults.
Before(state, endpoints, spent) ==
    /\ socket = [s \in Sockets |-> state]
    /\ endpoint = endpoints
    /\ faults = spent
    /\ bus = {} /\ received = [s \in Sockets |-> [e \in Events |-> 0]]
    /\ outbox = [e \in Events |-> "none"] /\ expects = [e \in Events |-> {}]
    /\ deliveries = <<>> /\ sent = <<>>
    /\ notifier = [p \in Procs |-> NoPoll] /\ dispatcher = [p \in Procs |-> NoBatch]

Endpoint(status, events) == [status |-> status, events |-> events]

\* Only the good endpoint is still to come: websockets, faults, deletion under a poll.
Watched == Before("new", w1 :> Endpoint("none", {}) @@ w2 :> Endpoint("deleted", BothTypes), 0)

\* Batches of two rows: an event is fanned out while the other's delivery is posted.
Crowded ==
    Before("closed", w1 :> Endpoint("present", BothTypes) @@ w2 :> Endpoint("deleted", BothTypes),
           MaxFaults - 1)

\* The malformed endpoint holds up the other one's delivery until it is deleted.
Obstructing ==
    Before("closed", w1 :> Endpoint("present", {"execution.failed"})
                     @@ w2 :> Endpoint("present", BothTypes), MaxFaults)

MCSpec == (Watched \/ Crowded \/ Obstructing) /\ [][Next]_vars /\ Fairness
=============================================================================
