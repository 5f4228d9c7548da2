------------------------------- MODULE Outbox -------------------------------
(***************************************************************************)
(* From an outbox event to websockets and webhooks, on PostgreSQL:         *)
(* poll_once of backend/services/outbox_notifier_service.py and            *)
(* dispatch_once of backend/services/webhook_service.py in every API       *)
(* process, and the webhook endpoints of                                   *)
(* backend/controllers/ops_controller.py.  One tenant; batches never reach *)
(* their LIMIT.                                                            *)
(***************************************************************************)
EXTENDS Realtime, SequencesExt

CONSTANTS
    event_type,     \* [Events -> a type]
    Endpoints,      \* ids of webhook_endpoints rows
    Subscriptions,  \* sets of types an endpoint is created with
    Malformed,      \* endpoints whose URL has the right prefix, but httpx cannot parse it
    MaxAttempts,    \* settings.webhook_max_attempts
    MaxFaults       \* bound on crashes and failing transactions, and on what is counted

ASSUME OutboxAssumption ==
    /\ MaxAttempts \in Nat \ {0} /\ MaxFaults \in Nat /\ Malformed \subseteq Endpoints
    /\ IsFiniteSet(Events) /\ IsFiniteSet(Endpoints) /\ IsFiniteSet(Procs)

VARIABLES
    outbox,      \* [Events -> {"none", "new", "processed"}]
    endpoint,    \* [Endpoints -> rows], their status "none", "present" or "deleted"
    deliveries,  \* rows of webhook_deliveries in the order of insertion
    notifier,    \* each process's poll_once
    dispatcher,  \* each process's dispatch_once
    sent,        \* [rows of deliveries -> POSTs made for them]
    expects,     \* [Events -> endpoints that subscribed to it when it was written]
    faults       \* crashes and batches rolled back; MaxFaults + 1 stands for more than MaxFaults

webhooks == <<endpoint, deliveries, dispatcher, sent>>
vars == <<realtime, outbox, endpoint, deliveries, notifier, dispatcher, sent, expects, faults>>

\* poll_once: the selected events, those still to go through, the deliveries it
\* will insert, those it has inserted, and the events to broadcast.
NoPoll == [locked |-> {}, todo |-> {}, added |-> {}, flushed |-> {}, announce |-> {}]

\* dispatch_once: the selected rows, those still to post, those answered with 2xx.
NoBatch == [locked |-> {}, todo |-> {}, ok |-> {}]

Init ==
    /\ RealtimeInit
    /\ outbox = [e \in Events |-> "none"]
    /\ endpoint = [w \in Endpoints |-> [status |-> "none", events |-> {}]]
    /\ deliveries = <<>>
    /\ notifier = [p \in Procs |-> NoPoll]
    /\ dispatcher = [p \in Procs |-> NoBatch]
    /\ sent = <<>>
    /\ expects = [e \in Events |-> {}]
    /\ faults = 0

Present(w) == endpoint[w].status = "present"

\* The endpoints poll_once finds for an event.
Subscribed(e) ==
    {w \in Endpoints : Present(w) /\ event_type[e] \in endpoint[w].events}

\* OutboxService.write, and the commit of the transaction it is part of.
WriteEvent(e) ==
    /\ outbox[e] = "none"
    /\ outbox' = [outbox EXCEPT ![e] = "new"]
    /\ expects' = [expects EXCEPT ![e] = Subscribed(e)]
    /\ UNCHANGED <<realtime, webhooks, notifier, faults>>

(***************************************************************************)
(* Row locks.  A dispatcher locks its deliveries and, the SELECT being a   *)
(* join, their endpoints; the foreign key of a delivery a notifier has     *)
(* inserted keeps its endpoint from being locked or deleted.               *)
(***************************************************************************)

LockedByDispatch(w) == \E p \in Procs : \E d \in dispatcher[p].locked : deliveries[d].endpoint = w
LockedByInsert(w) == \E p \in Procs : \E x \in notifier[p].flushed : x.endpoint = w

(***************************************************************************)
(* poll_once in process p.                                                 *)
(***************************************************************************)

\* MUTANT: without SKIP LOCKED two processes select the same events.
EventsToPollUnlocked == {e \in Events : outbox[e] = "new"}

\* FOR UPDATE SKIP LOCKED.
EventsToPoll == {e \in Events : outbox[e] = "new" /\ \A p \in Procs : e \notin notifier[p].locked}

Poll(p) ==
    /\ notifier[p] = NoPoll
    /\ EventsToPoll # {}
    /\ notifier' = [notifier EXCEPT ![p].locked = EventsToPoll, ![p].todo = EventsToPoll]
    /\ UNCHANGED <<realtime, outbox, webhooks, expects, faults>>

\* The INSERTs that a flush makes wait for a dispatcher that holds the
\* endpoint, and fail when the endpoint is gone.
CanFlush(p) == \A x \in notifier[p].added : ~LockedByDispatch(x.endpoint)
FlushFails(p) == \E x \in notifier[p].added : ~Present(x.endpoint)

\* The SELECT for the next event's endpoints, which flushes what was added for
\* the events before it.
AddDeliveries(p, e) ==
    /\ e \in notifier[p].todo
    /\ CanFlush(p) /\ ~FlushFails(p)
    /\ notifier' = [notifier EXCEPT
           ![p].todo = @ \ {e},
           ![p].flushed = @ \cup notifier[p].added,
           ![p].added = {[event |-> e, endpoint |-> w] : w \in Subscribed(e)}]
    /\ UNCHANGED <<realtime, outbox, webhooks, expects, faults>>

\* An endpoint was deleted under the poll: nothing of it is kept.
PollFails(p) ==
    /\ CanFlush(p) /\ FlushFails(p)
    /\ notifier' = [notifier EXCEPT ![p] = NoPoll]
    /\ UNCHANGED <<realtime, outbox, webhooks, expects, faults>>

Row(x) == [event |-> x.event, endpoint |-> x.endpoint, status |-> "pending", attempts |-> 0,
           due |-> TRUE]

\* The deliveries and processed_at in one transaction.
PollCommit(p) ==
    /\ notifier[p].locked # {} /\ notifier[p].todo = {}
    /\ CanFlush(p) /\ ~FlushFails(p)
    /\ LET rows == SetToSeq(notifier[p].added \cup notifier[p].flushed)
       IN /\ deliveries' = deliveries \o [i \in DOMAIN rows |-> Row(rows[i])]
          /\ sent' = sent \o [i \in DOMAIN rows |-> 0]
    /\ outbox' = [e \in Events |-> IF e \in notifier[p].locked THEN "processed" ELSE outbox[e]]
    /\ notifier' = [notifier EXCEPT ![p] = [NoPoll EXCEPT !.announce = notifier[p].locked]]
    /\ UNCHANGED <<realtime, endpoint, dispatcher, expects, faults>>

\* RealtimeService.broadcast: to this process's sockets and to the other
\* processes, unless the bus is down or the message too long for it.
Announce(p, e, stale) ==
    /\ e \in notifier[p].announce
    /\ BroadcastLocal(p, e, stale)
    /\ Publish(p, e) \/ UNCHANGED bus
    /\ notifier' = [notifier EXCEPT ![p].announce = @ \ {e}]
    /\ UNCHANGED <<outbox, webhooks, expects, faults>>

NotifierStep(p) ==
    \/ Poll(p) \/ PollFails(p) \/ PollCommit(p)
    \/ \E e \in Events : AddDeliveries(p, e) \/ \E stale \in SUBSET Sockets : Announce(p, e, stale)

(***************************************************************************)
(* dispatch_once in process p.                                             *)
(***************************************************************************)

Rows == DOMAIN deliveries

\* MUTANT: only what was never tried is selected.
SelectFirst(p) ==
    LET due == {d \in Rows : /\ deliveries[d].status = "pending" /\ deliveries[d].attempts = 0
                             /\ ~LockedByDispatch(deliveries[d].endpoint)
                             /\ ~LockedByInsert(deliveries[d].endpoint)}
    IN /\ dispatcher[p] = NoBatch
       /\ due # {}
       /\ dispatcher' = [dispatcher EXCEPT ![p].locked = due, ![p].todo = due]
       /\ UNCHANGED <<realtime, outbox, endpoint, deliveries, notifier, sent, expects, faults>>

\* FOR UPDATE SKIP LOCKED on what is pending and due.
Select(p) ==
    LET due == {d \in Rows : /\ deliveries[d].status = "pending" /\ deliveries[d].due
                             /\ ~LockedByDispatch(deliveries[d].endpoint)
                             /\ ~LockedByInsert(deliveries[d].endpoint)}
    IN /\ dispatcher[p] = NoBatch
       /\ due # {}
       /\ dispatcher' = [dispatcher EXCEPT ![p].locked = due, ![p].todo = due]
       /\ UNCHANGED <<realtime, outbox, endpoint, deliveries, notifier, sent, expects, faults>>

\* One POST, and whether it was answered with 2xx; counted as long as faults are.
Post(p, d, ok) ==
    /\ d \in dispatcher[p].todo /\ deliveries[d].endpoint \notin Malformed
    /\ sent' = IF faults <= MaxFaults THEN [sent EXCEPT ![d] = @ + 1] ELSE sent
    /\ dispatcher' = [dispatcher EXCEPT ![p].todo = @ \ {d},
                                        ![p].ok = IF ok THEN @ \cup {d} ELSE @]
    /\ UNCHANGED <<realtime, outbox, endpoint, deliveries, notifier, expects, faults>>

\* MUTANT: the limit is compared before the attempt is counted.
AttemptedLate(row, ok) ==
    [row EXCEPT !.attempts = @ + 1, !.due = FALSE,
                !.status = IF ok THEN "delivered"
                           ELSE IF row.attempts >= MaxAttempts THEN "failed" ELSE "pending"]

\* MUTANT: an attempt without an answer is not counted.
AttemptedIfAnswered(row, ok) ==
    [row EXCEPT !.attempts = IF ok THEN @ + 1 ELSE @, !.due = FALSE,
                !.status = IF ok THEN "delivered"
                           ELSE IF row.attempts >= MaxAttempts THEN "failed" ELSE "pending"]

\* A row after an attempt: delivered, given up, or to be tried again later.
Attempted(row, ok) ==
    [row EXCEPT !.attempts = @ + 1, !.due = FALSE,
                !.status = IF ok THEN "delivered"
                           ELSE IF row.attempts + 1 >= MaxAttempts THEN "failed" ELSE "pending"]

\* The one commit for the whole batch.
DispatchCommit(p) ==
    /\ dispatcher[p].locked # {} /\ dispatcher[p].todo = {}
    /\ deliveries' = [d \in Rows |-> IF d \in dispatcher[p].locked
                                     THEN Attempted(deliveries[d], d \in dispatcher[p].ok)
                                     ELSE deliveries[d]]
    /\ dispatcher' = [dispatcher EXCEPT ![p] = NoBatch]
    /\ UNCHANGED <<realtime, outbox, endpoint, notifier, sent, expects, faults>>

\* The session is closed without a commit, and the POSTs of the batch are
\* forgotten.
RollBack(p) ==
    /\ faults' = IF faults <= MaxFaults THEN faults + 1 ELSE faults
    /\ dispatcher' = [dispatcher EXCEPT ![p] = NoBatch]
    /\ UNCHANGED <<realtime, outbox, endpoint, deliveries, notifier, sent, expects>>

\* httpx.InvalidURL is not an httpx.HTTPError: it ends the batch each time.
PostRaises(p) ==
    /\ \E d \in dispatcher[p].todo : deliveries[d].endpoint \in Malformed
    /\ RollBack(p)

\* A failing statement or commit.
DispatchFails(p) ==
    /\ dispatcher[p] # NoBatch
    /\ faults < MaxFaults
    /\ RollBack(p)

DispatcherStep(p) ==
    \/ Select(p) \/ PostRaises(p) \/ DispatchCommit(p)
    \/ \E d \in Rows, ok \in BOOLEAN : Post(p, d, ok)

\* The clock passes next_attempt_at.
BackoffElapses(d) ==
    /\ deliveries[d].status = "pending" /\ ~deliveries[d].due
    /\ deliveries' = [deliveries EXCEPT ![d].due = TRUE]
    /\ UNCHANGED <<realtime, outbox, endpoint, notifier, dispatcher, sent, expects, faults>>

(***************************************************************************)
(* The API and crashes.                                                    *)
(***************************************************************************)

\* create_webhook.  An endpoint that is not active, which nothing changes
\* later, subscribes to no event.
CreateWebhook(w, events) ==
    /\ endpoint[w].status = "none"
    /\ endpoint' = [endpoint EXCEPT ![w] = [status |-> "present", events |-> events]]
    /\ UNCHANGED <<realtime, outbox, deliveries, notifier, dispatcher, sent, expects, faults>>

\* delete_webhook waits for the locks on the row; the deliveries go with it.
DeleteWebhook(w) ==
    /\ Present(w) /\ ~LockedByDispatch(w) /\ ~LockedByInsert(w)
    /\ endpoint' = [endpoint EXCEPT ![w].status = "deleted"]
    /\ deliveries' = [d \in Rows |-> IF deliveries[d].endpoint = w
                                     THEN [deliveries[d] EXCEPT !.status = "deleted"]
                                     ELSE deliveries[d]]
    /\ UNCHANGED <<realtime, outbox, notifier, dispatcher, sent, expects, faults>>

\* A process dies and is started again: its transactions are rolled back, and
\* what it had not announced is never announced.
Crash(p) ==
    /\ faults < MaxFaults
    /\ faults' = faults + 1
    /\ RealtimeCrash(p)
    /\ notifier' = [notifier EXCEPT ![p] = NoPoll]
    /\ dispatcher' = [dispatcher EXCEPT ![p] = NoBatch]
    /\ UNCHANGED <<outbox, endpoint, deliveries, sent, expects>>

Next ==
    \/ RealtimeNext /\ UNCHANGED <<outbox, webhooks, notifier, expects, faults>>
    \/ \E e \in Events : WriteEvent(e)
    \/ \E p \in Procs : NotifierStep(p) \/ DispatcherStep(p) \/ DispatchFails(p) \/ Crash(p)
    \/ \E d \in Rows : BackoffElapses(d)
    \/ \E w \in Endpoints : \/ \E events \in Subscriptions : CreateWebhook(w, events)
                            \/ DeleteWebhook(w)

Spec == Init /\ [][Next]_vars

\* Every process polls and dispatches for ever, a POST ends by its timeout, and
\* time passes.  A notifier that waits for an endpoint gets it: the INSERT is in
\* the queue of the row's lock, while dispatchers skip what is locked.
Fairness ==
    /\ \A p \in Procs : SF_vars(NotifierStep(p)) /\ WF_vars(DispatcherStep(p))
    /\ WF_vars(\E d \in Rows : BackoffElapses(d))

FairSpec == Spec /\ Fairness

(***************************************************************************)
(* Properties.                                                             *)
(***************************************************************************)

\* Types of the tables and of the processes' transactions.
TypeOK ==
    /\ RealtimeTypeOK
    /\ outbox \in [Events -> {"none", "new", "processed"}]
    /\ DOMAIN sent = Rows
    /\ \A d \in Rows : /\ deliveries[d].status \in {"pending", "delivered", "failed", "deleted"}
                       /\ deliveries[d].attempts \in 0 .. MaxAttempts
                       /\ deliveries[d].event \in Events /\ deliveries[d].endpoint \in Endpoints
    /\ \A p \in Procs : /\ \A e \in notifier[p].locked : outbox[e] = "new"
                        /\ \A d \in dispatcher[p].locked : deliveries[d].status = "pending"

For(e, w) == {d \in Rows : deliveries[d].event = e /\ deliveries[d].endpoint = w}

\* An event is turned into deliveries exactly once: processes that poll
\* together, an endpoint deleted under the poll and crashes neither duplicate
\* a delivery nor lose one that an endpoint, there before the event, waits for.
DeliveryPerSubscriber ==
    \A e \in Events, w \in Endpoints :
        /\ Cardinality(For(e, w)) <= 1
        /\ outbox[e] \in {"none", "new"} => For(e, w) = {}
        /\ outbox[e] = "processed" /\ w \in expects[e] /\ Present(w) => For(e, w) # {}

InHand(d) == {p \in Procs : d \in dispatcher[p].locked \ dispatcher[p].todo}

\* A receiver gets a delivery once for each attempt counted and once more for
\* each batch that was rolled back or is not committed yet, so never more than
\* webhook_max_attempts and the number of faults together.
SendsAccounted ==
    faults <= MaxFaults =>
        \A d \in Rows :
            /\ sent[d] <= deliveries[d].attempts + Cardinality(InHand(d)) + faults
            /\ sent[d] <= MaxAttempts + faults
            /\ deliveries[d].status = "delivered" => sent[d] >= 1
            /\ deliveries[d].status = "failed" => sent[d] >= MaxAttempts

\* A delivery that no batch survives is waiting.
Obstructed ==
    \E d \in Rows : deliveries[d].status = "pending" /\ deliveries[d].endpoint \in Malformed

\* Every event is processed, although dispatchers keep taking the endpoints that
\* its deliveries must refer to; and once the deliveries to malformed URLs are
\* gone (only deleting the endpoint removes them), every delivery ends delivered,
\* failed or deleted with its endpoint.
DeliveriesEnd ==
    /\ []<>(\A e \in Events : outbox[e] # "new")
    /\ <>[]~Obstructed => []<>(\A d \in Rows : deliveries[d].status # "pending")
=============================================================================
