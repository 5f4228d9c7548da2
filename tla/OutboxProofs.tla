---------------------------- MODULE OutboxProofs ----------------------------
(***************************************************************************)
(* Proofs about Outbox, for any number of processes, events, endpoints and *)
(* websockets, any limit on attempts and any number of faults that are     *)
(* counted.                                                                *)
(***************************************************************************)
EXTENDS Outbox, TLAPS, FiniteSetTheorems

-----------------------------------------------------------------------------
(***************************************************************************)
(* The inductive invariant.                                                *)
(***************************************************************************)
Delivery ==
    [event : Events, endpoint : Endpoints,
     status : {"pending", "delivered", "failed", "deleted"}, attempts : Nat, due : BOOLEAN]

Pair == [event : Events, endpoint : Endpoints]

EndpointRow == [status : {"none", "present", "deleted"}, events : Subscriptions \cup {{}}]

PollState ==
    [locked : SUBSET Events, todo : SUBSET Events, added : SUBSET Pair, flushed : SUBSET Pair,
     announce : SUBSET Events]

Batch == [locked : SUBSET Nat, todo : SUBSET Nat, ok : SUBSET Nat]

Types ==
    /\ RealtimeTypeOK
    /\ outbox \in [Events -> {"none", "new", "processed"}]
    /\ endpoint \in [Endpoints -> EndpointRow]
    /\ deliveries \in Seq(Delivery)
    /\ notifier \in [Procs -> PollState]
    /\ dispatcher \in [Procs -> Batch]
    /\ sent \in Seq(Nat) /\ Len(sent) = Len(deliveries)
    /\ expects \in [Events -> SUBSET Endpoints]
    /\ faults \in Nat

\* Dispatchers have pending rows of their own.
Locks ==
    /\ \A p \in Procs : /\ dispatcher[p].todo \subseteq dispatcher[p].locked
                        /\ \A d \in dispatcher[p].locked :
                               d \in Rows /\ deliveries[d].status = "pending"
    /\ \A p, q \in Procs : \A d \in dispatcher[p].locked \cap dispatcher[q].locked : p = q

\* A row r for which n POSTs were made, h of them in batches not committed
\* yet, after f faults, as far as they are counted.
Account(r, n, h, f) ==
    /\ r.attempts <= MaxAttempts
    /\ r.status = "pending" => r.attempts < MaxAttempts
    /\ r.status = "delivered" => r.attempts >= 1
    /\ r.status = "failed" => r.attempts = MaxAttempts
    /\ f <= MaxFaults => r.attempts + h <= n /\ n <= r.attempts + h + f

Accounts == \A d \in Rows : Account(deliveries[d], sent[d], Cardinality(InHand(d)), faults)

\* A poll holds new events, and has added the deliveries of those it went
\* through; what is to be announced is processed.
PollSound(n, ob, ep, ex) ==
    /\ n.todo \subseteq n.locked
    /\ \A e \in n.locked : ob[e] = "new"
    /\ \A x \in n.added \cup n.flushed : x.event \in n.locked \ n.todo
    /\ \A e \in n.locked \ n.todo : \A w \in ex[e] :
           ep[w].status = "present" => [event |-> e, endpoint |-> w] \in n.added \cup n.flushed
    /\ \A e \in n.announce : ob[e] = "processed"

Polls ==
    /\ \A p \in Procs : PollSound(notifier[p], outbox, endpoint, expects)
    /\ \A p, q \in Procs :
           p # q => /\ notifier[p].locked \cap notifier[q].locked = {}
                    /\ notifier[p].announce \cap notifier[q].announce = {}

\* The endpoints that wait for an event were there before it.
Expecting ==
    \A e \in Events : \A w \in expects[e] :
        /\ outbox[e] # "none"
        /\ endpoint[w].status # "none" /\ event_type[e] \in endpoint[w].events

\* Processed events, and only they, have been turned into deliveries, once.
Turned ==
    /\ \A d \in Rows : outbox[deliveries[d].event] = "processed"
    /\ \A c, d \in Rows : /\ deliveries[c].event = deliveries[d].event
                          /\ deliveries[c].endpoint = deliveries[d].endpoint
                          => c = d
    /\ \A e \in Events : \A w \in expects[e] :
           outbox[e] = "processed" /\ Present(w) => For(e, w) # {}

\* Nobody announces the event any more and the socket's process has no
\* notification of it to pass on.
Settled(s, e) ==
    /\ outbox[e] = "processed"
    /\ \A p \in Procs : e \notin notifier[p].announce
    /\ \A m \in bus : m.event = e /\ m.to = home[s] => m.origin = m.to

Copies ==
    /\ \A s \in Sockets, e \in Events :
           received[s][e] = 0 \/ (received[s][e] = 1 /\ Settled(s, e))
    /\ \A m \in bus : /\ outbox[m.event] = "processed"
                      /\ \A p \in Procs : m.event \notin notifier[p].announce
    /\ \A m, k \in bus : m.event = k.event => m.origin = k.origin

Inv == Types /\ Locks /\ Accounts /\ Polls /\ Expecting /\ Turned /\ Copies

-----------------------------------------------------------------------------
(***************************************************************************)
(* Lemmas about the operators.                                             *)
(***************************************************************************)

\* SetToSeq lists a finite set, each element once.
LEMMA Listing ==
    ASSUME NEW S, IsFiniteSet(S)
    PROVE  \E k \in Nat : /\ SetToSeq(S) \in [1..k -> S]
                          /\ \A i, j \in 1..k : SetToSeq(S)[i] = SetToSeq(S)[j] => i = j
                          /\ \A x \in S : \E i \in 1..k : SetToSeq(S)[i] = x
<1> DEFINE k == Cardinality(S)
<1>1. k \in Nat /\ Bijection(1..k, S) # {}
  BY FS_CardinalityType DEF ExistsBijection
<1>2. \E f \in [1..k -> S] : IsInjective(f)
  BY <1>1 DEF Bijection, Injection
<1>3. SetToSeq(S) \in [1..k -> S] /\ IsInjective(SetToSeq(S))
  BY <1>2 DEF SetToSeq
<1> DEFINE f == SetToSeq(S)
<1>4. f \in Injection(1..k, S)
  BY <1>3 DEF Injection
<1>5. Cardinality(1..k) = k
  BY <1>1, FS_Interval
<1> HIDE DEF f
<1>6. f \in Surjection(1..k, S)
  BY <1>4, <1>5, FS_Injection
<1>7. \A x \in S : \E i \in 1..k : f[i] = x
  BY <1>6 DEF Surjection
<1>8. \A i, j \in 1..k : f[i] = f[j] => i = j
  BY <1>4 DEF Injection, IsInjective
<1> HIDE DEF k
<1> QED BY <1>1, <1>3, <1>7, <1>8 DEF f

\* There are finitely many pairs of an event and an endpoint.
LEMMA FinitePairs == IsFiniteSet(Pair)
<1> DEFINE f == [x \in Pair |-> <<x.event, x.endpoint>>]
<1>1. IsFiniteSet(Events \X Endpoints)
  BY OutboxAssumption, FS_Product
<1>2. f \in [Pair -> Events \X Endpoints]
  BY DEF Pair
<1>3. ASSUME NEW x \in Pair, NEW y \in Pair, f[x] = f[y] PROVE x = y
  BY <1>3 DEF Pair
<1> HIDE DEF f
<1>4. f \in Injection(Pair, Events \X Endpoints)
  BY <1>2, <1>3 DEF Injection, IsInjective
<1> QED BY <1>1, <1>4, FS_Injection

\* What \o puts where.
LEMMA Appended ==
    ASSUME NEW T, NEW s \in Seq(T), NEW u \in Seq(T)
    PROVE  /\ s \o u \in Seq(T) /\ Len(s \o u) = Len(s) + Len(u)
           /\ \A d \in 1..Len(s) : (s \o u)[d] = s[d]
           /\ \A i \in 1..Len(u) : (s \o u)[Len(s) + i] = u[i]
OBVIOUS

\* The rows a poll inserts: k of them after the first n, one for each of A.
Inserts(A, n, k, x) ==
    /\ n = Len(deliveries) /\ k \in Nat /\ x \in [1..k -> A]
    /\ Len(deliveries') = n + k /\ Len(sent') = n + k
    /\ deliveries' \in Seq(Delivery) /\ sent' \in Seq(Nat)
    /\ \A d \in 1..n : deliveries'[d] = deliveries[d] /\ sent'[d] = sent[d]
    /\ \A i \in 1..k : /\ deliveries'[n + i] = Row(x[i])
                       /\ sent'[n + i] = 0
    /\ \A i, j \in 1..k : x[i] = x[j] => i = j
    /\ \A y \in A : \E i \in 1..k : x[i] = y

\* poll_once's commit appends one row for each pair it has collected.
LEMMA CommitInserts ==
    ASSUME Types, NEW p \in Procs, PollCommit(p)
    PROVE  \E k, x : Inserts(notifier[p].added \cup notifier[p].flushed, Len(deliveries), k, x)
<1> DEFINE A == notifier[p].added \cup notifier[p].flushed
           x == SetToSeq(A)
           n == Len(deliveries)
<1>1. A \in SUBSET Pair
  BY DEF Types, PollState
<1>2. IsFiniteSet(A)
  BY <1>1, FinitePairs, FS_Subset
<1> HIDE DEF A
<1>3. PICK k \in Nat : /\ x \in [1..k -> A]
                       /\ \A i, j \in 1..k : x[i] = x[j] => i = j
                       /\ \A y \in A : \E i \in 1..k : x[i] = y
  BY <1>2, Listing
<1>4. /\ deliveries' = deliveries \o [i \in DOMAIN x |-> Row(x[i])]
      /\ sent' = sent \o [i \in DOMAIN x |-> 0]
  BY DEF PollCommit, A
<1> HIDE DEF x
<1>5. DOMAIN x = 1..k
  BY <1>3
<1> DEFINE u == [i \in 1..k |-> Row(x[i])]
           z == [i \in 1..k |-> 0]
<1>6. \A i \in 1..k : x[i] \in Pair /\ Row(x[i]) \in Delivery
  BY <1>1, <1>3 DEF Row, Delivery, Pair
<1>7. /\ u \in Seq(Delivery) /\ Len(u) = k /\ \A i \in 1..k : u[i] = Row(x[i])
      /\ z \in Seq(Nat) /\ Len(z) = k /\ \A i \in 1..k : z[i] = 0
  BY <1>3, <1>6
<1>8. deliveries' = deliveries \o u /\ sent' = sent \o z
  BY <1>4, <1>5
<1> HIDE DEF u, z
<1>9. deliveries \in Seq(Delivery) /\ sent \in Seq(Nat) /\ Len(sent) = n /\ n \in Nat
  BY DEF Types
<1> HIDE DEF n
<1>10. Len(deliveries) = n
  BY DEF n
<1>11. /\ deliveries' \in Seq(Delivery) /\ Len(deliveries') = n + k
       /\ \A d \in 1..n : deliveries'[d] = deliveries[d]
       /\ \A i \in 1..k : deliveries'[n + i] = u[i]
  <2>1. /\ deliveries \o u \in Seq(Delivery)
        /\ Len(deliveries \o u) = Len(deliveries) + Len(u)
        /\ \A d \in 1..Len(deliveries) : (deliveries \o u)[d] = deliveries[d]
        /\ \A i \in 1..Len(u) : (deliveries \o u)[Len(deliveries) + i] = u[i]
    <3>1. deliveries \in Seq(Delivery) /\ u \in Seq(Delivery)
      BY <1>7, <1>9
    <3> QED BY <3>1, Appended
  <2> QED BY <1>7, <1>8, <1>10, <2>1
<1>12. /\ sent' \in Seq(Nat) /\ Len(sent') = n + k
       /\ \A d \in 1..n : sent'[d] = sent[d]
       /\ \A i \in 1..k : sent'[n + i] = z[i]
  <2>1. /\ sent \o z \in Seq(Nat) /\ Len(sent \o z) = Len(sent) + Len(z)
        /\ \A d \in 1..Len(sent) : (sent \o z)[d] = sent[d]
        /\ \A i \in 1..Len(z) : (sent \o z)[Len(sent) + i] = z[i]
    <3>1. sent \in Seq(Nat) /\ z \in Seq(Nat)
      BY <1>7, <1>9
    <3> QED BY <3>1, Appended
  <2> QED BY <1>7, <1>8, <1>9, <2>1
<1>13. Inserts(A, n, k, x)
  BY <1>3, <1>7, <1>10, <1>11, <1>12 DEF Inserts
<1> QED BY <1>10, <1>13 DEF A

-----------------------------------------------------------------------------
(***************************************************************************)
(* Types.                                                                  *)
(***************************************************************************)

\* broadcast_local counts a copy for each socket it sends to.
LEMMA BroadcastTypes ==
    ASSUME RealtimeTypeOK, NEW p \in Procs, NEW e \in Events, NEW stale \in SUBSET Sockets,
           BroadcastLocal(p, e, stale)
    PROVE  /\ socket' \in [Sockets -> {"new", "open", "closed"}]
           /\ received' \in [Sockets -> [Events -> Nat]]
           /\ \A s \in Sockets, f \in Events :
                  \/ received'[s][f] = received[s][f]
                  \/ f = e /\ home[s] = p /\ received'[s][f] = received[s][f] + 1
<1>1. socket' \in [Sockets -> {"new", "open", "closed"}]
  BY DEF RealtimeTypeOK, BroadcastLocal
<1>2. ASSUME NEW s \in Sockets
      PROVE  /\ received'[s] \in [Events -> Nat]
             /\ \A f \in Events : \/ received'[s][f] = received[s][f]
                                  \/ /\ f = e /\ home[s] = p
                                     /\ received'[s][f] = received[s][f] + 1
  <2>1. received[s] \in [Events -> Nat]
    BY DEF RealtimeTypeOK
  <2>2. received'[s] = IF s \in Connections(p) \ stale
                       THEN [received[s] EXCEPT ![e] = received[s][e] + 1] ELSE received[s]
    BY DEF BroadcastLocal
  <2>3. s \in Connections(p) => home[s] = p
    BY DEF Connections
  <2> QED BY <2>1, <2>2, <2>3
<1>3. received' = [s \in Sockets |-> received'[s]]
  BY DEF BroadcastLocal
<1>4. received' \in [Sockets -> [Events -> Nat]]
  BY <1>2, <1>3
<1> QED BY <1>1, <1>2, <1>4

\* The websockets' part of the state.
LEMMA RealtimeTypes ==
    ASSUME RealtimeTypeOK,
           \/ RealtimeNext
           \/ \E p \in Procs : RealtimeCrash(p)
           \/ \E p \in Procs, e \in Events, stale \in SUBSET Sockets :
                  BroadcastLocal(p, e, stale) /\ (Publish(p, e) \/ UNCHANGED bus)
    PROVE  RealtimeTypeOK'
<1>1. ASSUME NEW s \in Sockets, Connect(s) \/ Disconnect(s) PROVE RealtimeTypeOK'
  BY <1>1 DEF RealtimeTypeOK, Connect, Disconnect
<1>2. ASSUME NEW m \in bus, NEW stale \in SUBSET Sockets, OnNotification(m, stale)
      PROVE  RealtimeTypeOK'
  <2>1. m.to \in Procs /\ m.event \in Events /\ bus' \subseteq Notification
    BY <1>2 DEF RealtimeTypeOK, OnNotification, Notification
  <2>2. CASE m.origin = m.to
    BY <1>2, <2>1, <2>2 DEF RealtimeTypeOK, OnNotification
  <2>3. CASE BroadcastLocal(m.to, m.event, stale)
    BY <2>1, <2>3, BroadcastTypes DEF RealtimeTypeOK
  <2> QED BY <1>2, <2>2, <2>3 DEF OnNotification
<1>3. ASSUME NEW p \in Procs, RealtimeCrash(p) PROVE RealtimeTypeOK'
  BY <1>3 DEF RealtimeTypeOK, RealtimeCrash
<1>4. ASSUME NEW p \in Procs, NEW e \in Events, NEW stale \in SUBSET Sockets,
             BroadcastLocal(p, e, stale), Publish(p, e) \/ UNCHANGED bus
      PROVE  RealtimeTypeOK'
  <2>1. bus' \subseteq Notification
    BY <1>4 DEF RealtimeTypeOK, Publish, Notification
  <2> QED BY <1>4, <2>1, BroadcastTypes DEF RealtimeTypeOK
<1> QED BY <1>1, <1>2, <1>3, <1>4 DEF RealtimeNext

\* A row after an attempt.
LEMMA AttemptedRow ==
    ASSUME NEW r \in Delivery, NEW ok
    PROVE  /\ Attempted(r, ok) \in Delivery
           /\ Attempted(r, ok).attempts = r.attempts + 1
           /\ Attempted(r, ok).event = r.event /\ Attempted(r, ok).endpoint = r.endpoint
           /\ Attempted(r, ok).status = IF ok THEN "delivered"
                                        ELSE IF r.attempts + 1 >= MaxAttempts THEN "failed"
                                        ELSE "pending"
<1> DEFINE st == IF ok THEN "delivered"
                 ELSE IF r.attempts + 1 >= MaxAttempts THEN "failed" ELSE "pending"
<1>1. st \in {"pending", "delivered", "failed", "deleted"}
  OBVIOUS
<1> DEFINE x == [r EXCEPT !.attempts = @ + 1, !.due = FALSE, !.status = st]
<1>2. Attempted(r, ok) = x
  BY Zenon DEF Attempted
<1> HIDE DEF st
<1>3. r.attempts \in Nat /\ r.attempts + 1 \in Nat
  BY DEF Delivery
<1>4. /\ x.attempts = r.attempts + 1 /\ x.status = st /\ x.due = FALSE
      /\ x.event = r.event /\ x.endpoint = r.endpoint
  BY DEF Delivery
<1>5. ASSUME NEW n \in Nat, NEW y \in {"pending", "delivered", "failed", "deleted"}
      PROVE  [r EXCEPT !.attempts = n, !.due = FALSE, !.status = y] \in Delivery
  BY DEF Delivery
<1>6. x \in Delivery
  BY <1>1, <1>3, <1>5
<1> QED BY <1>2, <1>4, <1>6, Zenon DEF st

\* The notifier's transactions have their types.
LEMMA NotifierTypes ==
    ASSUME Types, NEW p \in Procs, NotifierStep(p)
    PROVE  Types'
<1>0. NoPoll \in PollState
  BY DEF NoPoll, PollState
<1>1. CASE Poll(p)
  <2>1. EventsToPoll \in SUBSET Events /\ notifier[p] \in PollState
    BY DEF EventsToPoll, Types
  <2> DEFINE n == [notifier[p] EXCEPT !.locked = EventsToPoll, !.todo = EventsToPoll]
  <2>2. n \in PollState
    BY <2>1 DEF PollState
  <2>3. notifier' = [notifier EXCEPT ![p] = n]
    BY <1>1 DEF Poll, Types
  <2> HIDE DEF n
  <2>4. notifier' \in [Procs -> PollState]
    BY <2>2, <2>3 DEF Types
  <2>5. /\ UNCHANGED <<socket, bus, received>>
        /\ UNCHANGED <<outbox, endpoint, deliveries, dispatcher, sent, expects, faults>>
    BY <1>1 DEF Poll, realtime, webhooks
  <2> QED BY <2>4, <2>5 DEF Types, RealtimeTypeOK
<1>2. ASSUME NEW e \in Events, AddDeliveries(p, e) PROVE Types'
  <2> DEFINE S == {[event |-> e, endpoint |-> w] : w \in Subscribed(e)}
             n == [notifier[p] EXCEPT !.todo = @ \ {e}, !.flushed = @ \cup notifier[p].added,
                                      !.added = S]
  <2>1. S \in SUBSET Pair /\ notifier[p] \in PollState
    BY DEF Subscribed, Pair, Types
  <2>2. notifier' = [notifier EXCEPT ![p] = n]
    BY <1>2 DEF AddDeliveries, Types
  <2> HIDE DEF S
  <2>3. n \in PollState
    BY <2>1 DEF PollState
  <2> HIDE DEF n
  <2>4. notifier' \in [Procs -> PollState]
    BY <2>2, <2>3 DEF Types
  <2>5. /\ UNCHANGED <<socket, bus, received>>
        /\ UNCHANGED <<outbox, endpoint, deliveries, dispatcher, sent, expects, faults>>
    BY <1>2 DEF AddDeliveries, realtime, webhooks
  <2> QED BY <2>4, <2>5 DEF Types, RealtimeTypeOK
<1>3. CASE PollFails(p)
  <2>1. notifier' \in [Procs -> PollState]
    BY <1>0, <1>3 DEF Types, PollFails
  <2> QED BY <1>3, <2>1 DEF PollFails, Types, RealtimeTypeOK, realtime, webhooks
<1>4. CASE PollCommit(p)
  <2>1. /\ deliveries' \in Seq(Delivery) /\ sent' \in Seq(Nat) /\ Len(sent') = Len(deliveries')
    BY <1>4, CommitInserts DEF Inserts
  <2> DEFINE n == [NoPoll EXCEPT !.announce = notifier[p].locked]
  <2>2. n \in PollState
    BY <1>0 DEF Types, PollState, NoPoll
  <2> HIDE DEF n
  <2>3. notifier' \in [Procs -> PollState]
    BY <1>4, <2>2 DEF PollCommit, Types, n
  <2>4. outbox' \in [Events -> {"none", "new", "processed"}]
    BY <1>4 DEF PollCommit, Types
  <2> QED BY <1>4, <2>1, <2>3, <2>4 DEF PollCommit, Types, RealtimeTypeOK, realtime
<1>5. ASSUME NEW e \in Events, NEW stale \in SUBSET Sockets, Announce(p, e, stale)
      PROVE  Types'
  <2>1. RealtimeTypeOK'
    BY <1>5, RealtimeTypes DEF Announce, Types
  <2> DEFINE n == [notifier[p] EXCEPT !.announce = @ \ {e}]
  <2>2. n \in PollState
    BY DEF Types, PollState
  <2>3. notifier' = [notifier EXCEPT ![p] = n]
    BY <1>5 DEF Announce, Types
  <2> HIDE DEF n
  <2>4. notifier' \in [Procs -> PollState]
    BY <2>2, <2>3 DEF Types
  <2> QED BY <1>5, <2>1, <2>4 DEF Announce, Types, webhooks
<1> QED BY <1>1, <1>2, <1>3, <1>4, <1>5 DEF NotifierStep

\* A batch that is rolled back keeps the types,
LEMMA RollBackTypes ==
    ASSUME Types, NEW p \in Procs, RollBack(p)
    PROVE  Types'
<1>1. NoBatch \in Batch
  BY DEF NoBatch, Batch
<1>2. dispatcher' \in [Procs -> Batch]
  BY <1>1 DEF RollBack, Types
<1>3. faults' \in Nat
  BY OutboxAssumption DEF RollBack, Types
<1> QED BY <1>2, <1>3 DEF RollBack, Types, RealtimeTypeOK, realtime

\* and so does every step of a dispatcher.
LEMMA DispatcherTypes ==
    ASSUME Types, NEW p \in Procs, DispatcherStep(p)
    PROVE  Types'
<1>0. NoBatch \in Batch /\ Rows \in SUBSET Nat
  BY DEF NoBatch, Batch, Rows, Types
<1>1. CASE Select(p)
  <2> DEFINE due == {d \in Rows : /\ deliveries[d].status = "pending" /\ deliveries[d].due
                                  /\ ~LockedByDispatch(deliveries[d].endpoint)
                                  /\ ~LockedByInsert(deliveries[d].endpoint)}
             n == [dispatcher[p] EXCEPT !.locked = due, !.todo = due]
  <2>1. due \in SUBSET Nat
    BY <1>0
  <2>2. dispatcher' = [dispatcher EXCEPT ![p] = n]
    BY <1>1 DEF Select, Types
  <2> HIDE DEF due
  <2>3. n \in Batch
    BY <2>1 DEF Types, Batch
  <2> HIDE DEF n
  <2>4. dispatcher' \in [Procs -> Batch]
    BY <2>2, <2>3 DEF Types
  <2> QED BY <1>1, <2>4 DEF Select, Types, RealtimeTypeOK, realtime
<1>2. CASE DispatchCommit(p)
  <2>1. \A d \in Rows : deliveries[d] \in Delivery
    BY DEF Types, Rows
  <2>2. \A d \in Rows : deliveries'[d] \in Delivery
    BY <1>2, <2>1, AttemptedRow DEF DispatchCommit
  <2>3. /\ deliveries' = [d \in Rows |-> deliveries'[d]]
        /\ Rows = 1..Len(deliveries) /\ Len(deliveries) \in Nat
    BY <1>2 DEF DispatchCommit, Types, Rows
  <2>4. deliveries' \in Seq(Delivery) /\ Len(deliveries') = Len(deliveries)
    BY <2>2, <2>3
  <2>5. dispatcher' \in [Procs -> Batch]
    BY <1>0, <1>2 DEF DispatchCommit, Types
  <2> QED BY <1>2, <2>4, <2>5 DEF DispatchCommit, Types, RealtimeTypeOK, realtime
<1>3. ASSUME NEW d \in Rows, NEW ok \in BOOLEAN, Post(p, d, ok) PROVE Types'
  <2>1. sent' \in Seq(Nat) /\ Len(sent') = Len(sent)
    <3>1. sent \in Seq(Nat) /\ d \in DOMAIN sent
      BY DEF Types, Rows
    <3>2. sent' = sent \/ sent' = [sent EXCEPT ![d] = sent[d] + 1]
      BY <1>3 DEF Post
    <3> QED BY <3>1, <3>2
  <2> DEFINE n == [dispatcher[p] EXCEPT !.todo = @ \ {d},
                                        !.ok = IF ok THEN @ \cup {d} ELSE @]
  <2>2. n \in Batch
    BY <1>0 DEF Types, Batch
  <2>3. dispatcher' = [dispatcher EXCEPT ![p] = n]
    BY <1>3 DEF Post, Types
  <2> HIDE DEF n
  <2>4. dispatcher' \in [Procs -> Batch]
    BY <2>2, <2>3 DEF Types
  <2> QED BY <1>3, <2>1, <2>4 DEF Post, Types, RealtimeTypeOK, realtime
<1>4. CASE PostRaises(p)
  BY <1>4, RollBackTypes DEF PostRaises
<1> QED BY <1>1, <1>2, <1>3, <1>4 DEF DispatcherStep

\* Every step keeps the types.
LEMMA NextTypes ==
    ASSUME Types, [Next]_vars
    PROVE  Types'
<1>0. NoBatch \in Batch /\ NoPoll \in PollState
  BY DEF NoBatch, Batch, NoPoll, PollState
<1>1. CASE RealtimeNext /\ UNCHANGED <<outbox, webhooks, notifier, expects, faults>>
  <2>1. RealtimeTypeOK'
    BY <1>1, RealtimeTypes DEF Types
  <2> QED BY <1>1, <2>1 DEF Types, webhooks
<1>2. ASSUME NEW e \in Events, WriteEvent(e) PROVE Types'
  <2>1. Subscribed(e) \in SUBSET Endpoints
    BY DEF Subscribed
  <2>2. /\ outbox' \in [Events -> {"none", "new", "processed"}]
        /\ expects' \in [Events -> SUBSET Endpoints]
    BY <1>2, <2>1 DEF WriteEvent, Types
  <2> QED BY <1>2, <2>2 DEF WriteEvent, Types, RealtimeTypeOK, realtime, webhooks
<1>3. ASSUME NEW p \in Procs, DispatchFails(p) PROVE Types'
  BY <1>3, RollBackTypes DEF DispatchFails
<1>4. ASSUME NEW p \in Procs, Crash(p) PROVE Types'
  <2>1. /\ dispatcher' \in [Procs -> Batch] /\ notifier' \in [Procs -> PollState]
        /\ faults' \in Nat
    BY <1>0, <1>4 DEF Crash, Types
  <2>2. RealtimeTypeOK'
    BY <1>4, RealtimeTypes DEF Crash, Types
  <2> QED BY <1>4, <2>1, <2>2 DEF Crash, Types
<1>5. ASSUME NEW d \in Rows, BackoffElapses(d) PROVE Types'
  <2>1. deliveries[d] \in Delivery
    BY DEF Types, Rows
  <2> DEFINE r == [deliveries[d] EXCEPT !.due = TRUE]
  <2>2. r \in Delivery /\ deliveries' = [deliveries EXCEPT ![d] = r]
    BY <1>5, <2>1 DEF BackoffElapses, Delivery
  <2> HIDE DEF r
  <2>3. deliveries' \in Seq(Delivery) /\ Len(deliveries') = Len(deliveries)
    BY <2>2 DEF Types, Rows
  <2> QED BY <1>5, <2>3 DEF BackoffElapses, Types, RealtimeTypeOK, realtime
<1>6. ASSUME NEW w \in Endpoints, NEW events \in Subscriptions, CreateWebhook(w, events)
      PROVE  Types'
  <2>1. endpoint' \in [Endpoints -> EndpointRow]
    BY <1>6 DEF CreateWebhook, Types, EndpointRow
  <2> QED BY <1>6, <2>1 DEF CreateWebhook, Types, RealtimeTypeOK, realtime
<1>7. ASSUME NEW w \in Endpoints, DeleteWebhook(w) PROVE Types'
  <2> DEFINE r == [endpoint[w] EXCEPT !.status = "deleted"]
  <2>1. r \in EndpointRow /\ endpoint' = [endpoint EXCEPT ![w] = r]
    BY <1>7 DEF DeleteWebhook, Types, EndpointRow
  <2> HIDE DEF r
  <2>2. endpoint' \in [Endpoints -> EndpointRow]
    BY <2>1 DEF Types
  <2>3. \A d \in Rows : deliveries[d] \in Delivery
    BY DEF Types, Rows
  <2>4. \A d \in Rows : [deliveries[d] EXCEPT !.status = "deleted"] \in Delivery
    BY <2>3 DEF Delivery
  <2>5. /\ deliveries' = [d \in Rows |-> deliveries'[d]]
        /\ Rows = 1..Len(deliveries) /\ Len(deliveries) \in Nat
        /\ \A d \in Rows : deliveries'[d] \in Delivery
    BY <1>7, <2>3, <2>4 DEF DeleteWebhook, Types, Rows
  <2>6. deliveries' \in Seq(Delivery) /\ Len(deliveries') = Len(deliveries)
    BY <2>5
  <2> QED BY <1>7, <2>2, <2>6 DEF DeleteWebhook, Types, RealtimeTypeOK, realtime
<1>8. CASE UNCHANGED vars
  BY <1>8 DEF vars, Types, RealtimeTypeOK, realtime
<1> QED BY <1>1, <1>2, <1>3, <1>4, <1>5, <1>6, <1>7, <1>8, NotifierTypes, DispatcherTypes DEF Next

-----------------------------------------------------------------------------
(***************************************************************************)
(* POSTs and attempts.                                                     *)
(***************************************************************************)
Sends == Locks /\ Accounts

\* What the tables have for a row.
LEMMA RowTypes ==
    ASSUME Types, NEW d \in Rows
    PROVE  /\ deliveries[d] \in Delivery /\ deliveries[d].attempts \in Nat
           /\ sent[d] \in Nat /\ faults \in Nat
<1>1. deliveries \in Seq(Delivery) /\ d \in DOMAIN deliveries /\ faults \in Nat
  BY DEF Types, Rows
<1>2. sent \in Seq(Nat) /\ DOMAIN sent = DOMAIN deliveries
  BY DEF Types
<1>3. deliveries[d] \in Delivery /\ sent[d] \in Nat
  BY <1>1, <1>2
<1> QED BY <1>1, <1>3 DEF Delivery

\* The dispatchers that have posted a row and not committed are counted.
LEMMA HandsCounted ==
    ASSUME Types, NEW d
    PROVE  IsFiniteSet(InHand(d)) /\ Cardinality(InHand(d)) \in Nat
<1>1. InHand(d) \in SUBSET Procs
  BY DEF InHand
<1> QED BY <1>1, OutboxAssumption, FS_Subset, FS_CardinalityType

\* No two of them have the same row.
LEMMA OneHand ==
    ASSUME Types, Locks, NEW d
    PROVE  /\ Cardinality(InHand(d)) \in {0, 1}
           /\ Cardinality(InHand(d)) = 1 => d \in Rows /\ deliveries[d].status = "pending"
<1>1. CASE InHand(d) = {}
  BY <1>1, FS_EmptySet
<1>2. CASE InHand(d) # {}
  <2>1. PICK p \in Procs : d \in dispatcher[p].locked /\ p \in InHand(d)
    BY <1>2 DEF InHand
  <2>2. InHand(d) = {p}
    BY <2>1 DEF InHand, Locks
  <2>3. d \in Rows /\ deliveries[d].status = "pending"
    BY <2>1 DEF Locks
  <2> QED BY <2>2, <2>3, FS_Singleton
<1> QED BY <1>1, <1>2

\* A batch that ends, committed or not, is in no hand any more.
LEMMA HandReleased ==
    ASSUME Types, NEW p \in Procs, dispatcher' = [dispatcher EXCEPT ![p] = NoBatch], NEW d
    PROVE  /\ Cardinality(InHand(d)') \in Nat
           /\ Cardinality(InHand(d)') = IF d \in dispatcher[p].locked \ dispatcher[p].todo
                                        THEN Cardinality(InHand(d)) - 1
                                        ELSE Cardinality(InHand(d))
<1>1. InHand(d)' = InHand(d) \ {p}
  BY DEF InHand, NoBatch, Types
<1>2. p \in InHand(d) <=> d \in dispatcher[p].locked \ dispatcher[p].todo
  BY DEF InHand
<1>3. IsFiniteSet(InHand(d)) /\ Cardinality(InHand(d)) \in Nat
  BY HandsCounted
<1> DEFINE H == InHand(d)
<1>4. /\ IsFiniteSet(H \ {p})
      /\ Cardinality(H \ {p}) = IF p \in H THEN Cardinality(H) - 1 ELSE Cardinality(H)
  BY <1>3, FS_RemoveElement
<1>5. Cardinality(H \ {p}) \in Nat
  BY <1>4, FS_CardinalityType
<1> QED BY <1>1, <1>2, <1>4, <1>5

\* Nothing happens to the deliveries.
LEMMA SendsStay ==
    ASSUME Types, Sends, deliveries' = deliveries, dispatcher' = dispatcher, sent' = sent,
           faults' = faults
    PROVE  Sends'
BY DEF Sends, Locks, Accounts, InHand, Rows

\* A fault in process p: its batch is forgotten.
LEMMA FaultSends ==
    ASSUME Types, Sends, NEW p \in Procs, deliveries' = deliveries, sent' = sent,
           dispatcher' = [dispatcher EXCEPT ![p] = NoBatch],
           faults' = faults + 1 \/ (faults' = faults /\ ~(faults <= MaxFaults))
    PROVE  Sends'
<1>1. Locks'
  <2>1. \A q \in Procs : dispatcher'[q] = IF q = p THEN NoBatch ELSE dispatcher[q]
    BY DEF Types
  <2> QED BY <2>1 DEF Sends, Locks, NoBatch, Rows
<1>2. Accounts'
  <2> SUFFICES ASSUME NEW d \in Rows
               PROVE  Account(deliveries[d], sent[d], Cardinality(InHand(d)'), faults')
    BY DEF Accounts, Rows
  <2> DEFINE h == Cardinality(InHand(d))
             k == Cardinality(InHand(d)')
  <2>1. h \in Nat /\ k \in Nat /\ (k = h \/ k = h - 1)
    BY HandsCounted, HandReleased
  <2>2. Account(deliveries[d], sent[d], h, faults)
    BY DEF Sends, Accounts
  <2>3. /\ deliveries[d] \in Delivery /\ sent[d] \in Nat /\ faults \in Nat
        /\ deliveries[d].attempts \in Nat
    BY RowTypes
  <2> HIDE DEF h
  <2> SUFFICES Account(deliveries[d], sent[d], k, faults')
    OBVIOUS
  <2> HIDE DEF k
  <2> QED BY <2>1, <2>2, <2>3, OutboxAssumption DEF Account
<1> QED BY <1>1, <1>2 DEF Sends

\* poll_once inserts rows that were never tried.
LEMMA InsertSends ==
    ASSUME Types, Sends, NEW p \in Procs, PollCommit(p)
    PROVE  Sends'
<1> DEFINE n == Len(deliveries)
<1>1. PICK k, x : Inserts(notifier[p].added \cup notifier[p].flushed, n, k, x)
  BY CommitInserts
<1>2. dispatcher' = dispatcher /\ faults' = faults
  BY DEF PollCommit
<1>3. /\ n \in Nat /\ k \in Nat /\ Rows = 1..n /\ Len(deliveries') = n + k
      /\ Rows' = 1..(n + k)
      /\ \A d \in 1..n : deliveries'[d] = deliveries[d] /\ sent'[d] = sent[d]
      /\ \A i \in 1..k : deliveries'[n + i] = Row(x[i]) /\ sent'[n + i] = 0
  BY <1>1 DEF Inserts, Types, Rows
<1> HIDE DEF n
<1>4. Locks'
  <2>1. \A d \in Rows : d \in Rows' /\ deliveries'[d] = deliveries[d]
    BY <1>3
  <2> QED BY <1>2, <2>1 DEF Sends, Locks
<1>5. Accounts'
  <2> SUFFICES ASSUME NEW d \in Rows'
               PROVE  Account(deliveries'[d], sent'[d], Cardinality(InHand(d)), faults)
    BY <1>2 DEF Accounts, InHand
  <2>1. CASE d \in 1..n
    BY <1>3, <2>1 DEF Sends, Accounts
  <2>2. CASE d \notin 1..n
    <3>1. PICK i \in 1..k : d = n + i
      <4>1. d \in Nat /\ d > n /\ d <= n + k
        BY <1>3, <2>2
      <4>2. d - n \in 1..k /\ d = n + (d - n)
        BY <1>3, <4>1
      <4> QED BY <4>2
    <3>2. deliveries'[d] = Row(x[i]) /\ sent'[d] = 0
      BY <1>3, <3>1
    <3>3. InHand(d) = {}
      BY <1>3, <2>2 DEF InHand, Sends, Locks
    <3>4. Cardinality(InHand(d)) = 0
      BY <3>3, FS_EmptySet
    <3>5. Account(Row(x[i]), 0, 0, faults)
      BY OutboxAssumption DEF Account, Row, Types
    <3> QED BY <3>2, <3>4, <3>5
  <2> QED BY <2>1, <2>2
<1> QED BY <1>4, <1>5 DEF Sends

\* dispatch_once selects rows that no other process has.
LEMMA SelectSends ==
    ASSUME Types, Sends, NEW p \in Procs, Select(p)
    PROVE  Sends'
<1> DEFINE due == {d \in Rows : /\ deliveries[d].status = "pending" /\ deliveries[d].due
                                /\ ~LockedByDispatch(deliveries[d].endpoint)
                                /\ ~LockedByInsert(deliveries[d].endpoint)}
<1>1. /\ deliveries' = deliveries /\ sent' = sent /\ faults' = faults
      /\ dispatcher[p] = NoBatch
      /\ dispatcher' = [dispatcher EXCEPT ![p] = [dispatcher[p] EXCEPT !.locked = due,
                                                                       !.todo = due]]
  BY DEF Select, Types
<1>2. \A d \in due : /\ d \in Rows /\ deliveries[d].status = "pending"
                     /\ \A q \in Procs : d \notin dispatcher[q].locked
  BY DEF LockedByDispatch
<1> HIDE DEF due
<1>3. /\ dispatcher[p].locked = {} /\ dispatcher[p] \in Batch
      /\ dispatcher'[p].locked = due /\ dispatcher'[p].todo = due
      /\ \A q \in Procs : q # p => dispatcher'[q] = dispatcher[q]
  BY <1>1 DEF Types, NoBatch, Batch
<1>4. Locks'
  <2>1. \A q \in Procs : /\ dispatcher'[q].todo \subseteq dispatcher'[q].locked
                         /\ \A d \in dispatcher'[q].locked :
                                d \in Rows /\ deliveries[d].status = "pending"
    BY <1>2, <1>3 DEF Sends, Locks
  <2>2. \A q, r \in Procs : \A d \in dispatcher'[q].locked \cap dispatcher'[r].locked : q = r
    BY <1>2, <1>3 DEF Sends, Locks
  <2> QED BY <1>1, <2>1, <2>2 DEF Locks, Rows
<1>5. Accounts'
  <2>1. \A d : InHand(d)' = InHand(d)
    BY <1>3 DEF InHand
  <2> QED BY <1>1, <2>1 DEF Sends, Accounts, Rows
<1> QED BY <1>4, <1>5 DEF Sends

\* A POST is made and not yet accounted for.
LEMMA PostSends ==
    ASSUME Types, Sends, NEW p \in Procs, NEW d \in Rows, NEW ok \in BOOLEAN, Post(p, d, ok)
    PROVE  Sends'
<1>1. /\ deliveries' = deliveries /\ faults' = faults /\ d \in dispatcher[p].todo
      /\ sent' = IF faults <= MaxFaults THEN [sent EXCEPT ![d] = sent[d] + 1] ELSE sent
      /\ dispatcher' = [dispatcher EXCEPT ![p] =
                           [dispatcher[p] EXCEPT !.todo = @ \ {d},
                                                 !.ok = IF ok THEN @ \cup {d} ELSE @]]
  BY DEF Post, Types
<1>2. /\ dispatcher'[p].locked = dispatcher[p].locked
      /\ dispatcher'[p].todo = dispatcher[p].todo \ {d}
      /\ \A q \in Procs : q # p => dispatcher'[q] = dispatcher[q]
      /\ d \in dispatcher[p].locked
  BY <1>1 DEF Types, Batch, Sends, Locks
<1>3. Locks'
  BY <1>1, <1>2 DEF Sends, Locks, Rows
<1>4. /\ InHand(d)' = InHand(d) \cup {p} /\ p \notin InHand(d)
      /\ \A f : f # d => InHand(f)' = InHand(f)
  BY <1>1, <1>2 DEF InHand
<1>5. Accounts'
  <2> SUFFICES ASSUME NEW f \in Rows
               PROVE  Account(deliveries[f], sent'[f], Cardinality(InHand(f)'), faults)
    BY <1>1 DEF Accounts, Rows
  <2>1. Account(deliveries[f], sent[f], Cardinality(InHand(f)), faults)
    BY DEF Sends, Accounts
  <2>2. sent \in Seq(Nat) /\ Rows = DOMAIN sent /\ sent[f] \in Nat
    BY DEF Types, Rows
  <2>3. CASE f # d
    BY <1>1, <1>4, <2>1, <2>2, <2>3
  <2>4. CASE f = d
    <3> DEFINE h == Cardinality(InHand(d))
    <3>1. IsFiniteSet(InHand(d)) /\ h \in Nat
      BY HandsCounted
    <3>2. Cardinality(InHand(d)') = h + 1
      BY <1>4, <3>1, FS_AddElement
    <3>3. faults <= MaxFaults => sent'[d] = sent[d] + 1
      BY <1>1, <2>2, <2>4
    <3> HIDE DEF h
    <3>4. /\ deliveries[d].attempts \in Nat /\ sent[d] \in Nat /\ faults \in Nat
          /\ Account(deliveries[d], sent[d], h, faults)
      BY <2>1, <2>4, RowTypes DEF h
    <3>5. Account(deliveries[d], sent'[d], h + 1, faults)
      BY <3>1, <3>3, <3>4 DEF Account
    <3> QED BY <2>4, <3>2, <3>5
  <2> QED BY <2>3, <2>4
<1> QED BY <1>3, <1>5 DEF Sends

\* The commit counts the attempts of the batch, each posted once.
LEMMA CommitSends ==
    ASSUME Types, Sends, NEW p \in Procs, DispatchCommit(p)
    PROVE  Sends'
<1>1. /\ sent' = sent /\ faults' = faults /\ dispatcher[p].todo = {}
      /\ dispatcher' = [dispatcher EXCEPT ![p] = NoBatch]
      /\ Rows' = Rows
  BY DEF DispatchCommit, Rows
<1>2. \A d \in Rows : deliveries'[d] = IF d \in dispatcher[p].locked
                                       THEN Attempted(deliveries[d], d \in dispatcher[p].ok)
                                       ELSE deliveries[d]
  BY DEF DispatchCommit
<1>3. \A q \in Procs : dispatcher'[q] = IF q = p THEN NoBatch ELSE dispatcher[q]
  BY <1>1 DEF Types
<1>4. Locks'
  <2>1. ASSUME NEW q \in Procs, NEW d \in dispatcher'[q].locked
        PROVE  d \in Rows /\ deliveries'[d].status = "pending"
    <3>1. q # p /\ d \in dispatcher[q].locked
      BY <1>3, <2>1 DEF NoBatch
    <3>2. d \notin dispatcher[p].locked /\ d \in Rows /\ deliveries[d].status = "pending"
      BY <3>1 DEF Sends, Locks
    <3> QED BY <1>2, <3>2
  <2>2. \A q \in Procs : dispatcher'[q].todo \subseteq dispatcher'[q].locked
    BY <1>3 DEF Sends, Locks, NoBatch
  <2>3. \A q, r \in Procs : \A d \in dispatcher'[q].locked \cap dispatcher'[r].locked : q = r
    BY <1>3 DEF Sends, Locks, NoBatch
  <2> QED BY <1>1, <2>1, <2>2, <2>3 DEF Locks
<1>5. Accounts'
  <2> SUFFICES ASSUME NEW d \in Rows
               PROVE  Account(deliveries'[d], sent[d], Cardinality(InHand(d)'), faults)
    BY <1>1 DEF Accounts
  <2> DEFINE h == Cardinality(InHand(d))
             k == Cardinality(InHand(d)')
             r == deliveries[d]
  <2>1. /\ h \in Nat /\ k \in Nat
        /\ k = IF d \in dispatcher[p].locked THEN h - 1 ELSE h
    BY <1>1, HandsCounted, HandReleased
  <2>2. Account(r, sent[d], h, faults)
    BY DEF Sends, Accounts
  <2>3. r \in Delivery /\ r.attempts \in Nat /\ sent[d] \in Nat /\ faults \in Nat
    BY RowTypes
  <2>4. CASE d \notin dispatcher[p].locked
    <3>1. deliveries'[d] = r /\ k = h
      BY <1>2, <2>1, <2>4
    <3> SUFFICES Account(deliveries'[d], sent[d], k, faults)
      OBVIOUS
    <3> HIDE DEF h, k, r
    <3> QED BY <2>2, <3>1
  <2>5. CASE d \in dispatcher[p].locked
    <3> DEFINE t == Attempted(r, d \in dispatcher[p].ok)
    <3>1. /\ t.attempts = r.attempts + 1
          /\ \/ t.status = "delivered"
             \/ t.status = "failed" /\ r.attempts + 1 >= MaxAttempts
             \/ t.status = "pending" /\ ~(r.attempts + 1 >= MaxAttempts)
      <4> HIDE DEF r
      <4>1. /\ t.attempts = r.attempts + 1
            /\ t.status = IF d \in dispatcher[p].ok THEN "delivered"
                          ELSE IF r.attempts + 1 >= MaxAttempts THEN "failed" ELSE "pending"
        BY <2>3, AttemptedRow
      <4> HIDE DEF t
      <4> QED BY <4>1
    <3>2. r.status = "pending"
      BY <2>5 DEF Sends, Locks
    <3>3. deliveries'[d] = t
      BY <1>2, <2>5
    <3> HIDE DEF t, h, r
    <3>4. k = h - 1
      BY <2>1, <2>5
    <3> SUFFICES Account(t, sent[d], k, faults)
      BY <3>3
    <3> HIDE DEF k
    <3> QED BY <2>1, <2>2, <2>3, <3>1, <3>2, <3>4, OutboxAssumption DEF Account
  <2> QED BY <2>4, <2>5
<1> QED BY <1>4, <1>5 DEF Sends

\* next_attempt_at passes, or rows go with their endpoint.
LEMMA RowSends ==
    ASSUME Types, Sends, dispatcher' = dispatcher, sent' = sent, faults' = faults,
           Rows' = Rows,
           \A d \in Rows : /\ deliveries'[d].attempts = deliveries[d].attempts
                           /\ \/ deliveries'[d].status = deliveries[d].status
                              \/ /\ deliveries'[d].status = "deleted"
                                 /\ \A p \in Procs : d \notin dispatcher[p].locked
    PROVE  Sends'
<1>1. Locks'
  BY DEF Sends, Locks
<1>2. \A d : InHand(d)' = InHand(d)
  BY DEF InHand
<1>3. Accounts'
  <2> SUFFICES ASSUME NEW d \in Rows
               PROVE  Account(deliveries'[d], sent[d], Cardinality(InHand(d)), faults)
    BY <1>2 DEF Accounts
  <2>1. Account(deliveries[d], sent[d], Cardinality(InHand(d)), faults)
    BY DEF Sends, Accounts
  <2> DEFINE h == Cardinality(InHand(d))
  <2> HIDE DEF h
  <2> SUFFICES ASSUME Account(deliveries[d], sent[d], h, faults)
               PROVE  Account(deliveries'[d], sent[d], h, faults)
    BY <2>1 DEF h
  <2> QED BY DEF Account
<1> QED BY <1>1, <1>3 DEF Sends

\* Every step keeps the accounts of the rows.
LEMMA NextSends ==
    ASSUME Types, Sends, [Next]_vars
    PROVE  Sends'
<1>0. ASSUME NEW p \in Procs, RollBack(p) PROVE Sends'
  BY <1>0, FaultSends DEF RollBack
<1>1. CASE RealtimeNext /\ UNCHANGED <<outbox, webhooks, notifier, expects, faults>>
  BY <1>1, SendsStay DEF webhooks
<1>2. ASSUME NEW e \in Events, WriteEvent(e) PROVE Sends'
  BY <1>2, SendsStay DEF WriteEvent, webhooks
<1>3. ASSUME NEW p \in Procs, NotifierStep(p) PROVE Sends'
  <2>1. CASE PollCommit(p)
    BY <2>1, InsertSends
  <2>2. CASE Poll(p) \/ PollFails(p) \/ \E e \in Events : AddDeliveries(p, e)
    BY <2>2, SendsStay DEF Poll, PollFails, AddDeliveries, webhooks
  <2>3. ASSUME NEW e \in Events, NEW stale \in SUBSET Sockets, Announce(p, e, stale)
        PROVE  Sends'
    BY <2>3, SendsStay DEF Announce, webhooks
  <2> QED BY <1>3, <2>1, <2>2, <2>3 DEF NotifierStep
<1>4. ASSUME NEW p \in Procs, DispatcherStep(p) PROVE Sends'
  BY <1>4, <1>0, SelectSends, CommitSends, PostSends DEF DispatcherStep, PostRaises
<1>5. ASSUME NEW p \in Procs, DispatchFails(p) \/ Crash(p) PROVE Sends'
  <2>1. CASE DispatchFails(p)
    BY <1>0, <2>1 DEF DispatchFails
  <2>2. CASE Crash(p)
    BY <2>2, FaultSends DEF Crash
  <2> QED BY <1>5, <2>1, <2>2
<1>6. ASSUME NEW d \in Rows, BackoffElapses(d) PROVE Sends'
  <2>1. \A c \in Rows : deliveries[c] \in Delivery
    BY DEF Types, Rows
  <2>2. /\ Rows' = Rows
        /\ \A c \in Rows : /\ deliveries'[c].attempts = deliveries[c].attempts
                           /\ deliveries'[c].status = deliveries[c].status
    BY <1>6, <2>1 DEF BackoffElapses, Rows, Delivery
  <2> QED BY <1>6, <2>2, RowSends DEF BackoffElapses
<1>7. ASSUME NEW w \in Endpoints, NEW events \in Subscriptions, CreateWebhook(w, events)
      PROVE  Sends'
  BY <1>7, SendsStay DEF CreateWebhook
<1>8. ASSUME NEW w \in Endpoints, DeleteWebhook(w) PROVE Sends'
  <2>1. \A c \in Rows : deliveries[c] \in Delivery
    BY DEF Types, Rows
  <2>2. \A c \in Rows : deliveries'[c] = IF deliveries[c].endpoint = w
                                         THEN [deliveries[c] EXCEPT !.status = "deleted"]
                                         ELSE deliveries[c]
    BY <1>8 DEF DeleteWebhook
  <2>3. \A c \in Rows : deliveries[c].endpoint = w =>
            \A p \in Procs : c \notin dispatcher[p].locked
    BY <1>8 DEF DeleteWebhook, LockedByDispatch
  <2>4. \A c \in Rows : /\ deliveries'[c].attempts = deliveries[c].attempts
                        /\ \/ deliveries'[c].status = deliveries[c].status
                           \/ /\ deliveries'[c].status = "deleted"
                              /\ \A p \in Procs : c \notin dispatcher[p].locked
    BY <2>1, <2>2, <2>3 DEF Delivery
  <2>5. Rows' = Rows
    BY <1>8 DEF DeleteWebhook, Rows
  <2> QED BY <1>8, <2>4, <2>5, RowSends DEF DeleteWebhook
<1>9. CASE UNCHANGED vars
  BY <1>9, SendsStay DEF vars
<1> QED BY <1>1, <1>2, <1>3, <1>4, <1>5, <1>6, <1>7, <1>8, <1>9 DEF Next

-----------------------------------------------------------------------------
(***************************************************************************)
(* Events and deliveries.                                                  *)
(***************************************************************************)
Turning == Polls /\ Expecting /\ Turned

\* A poll does not notice what happens to other events and to endpoints its
\* events do not wait for.
LEMMA PollStays ==
    ASSUME NEW n \in PollState, PollSound(n, outbox, endpoint, expects), Types, Types',
           \A e \in n.locked : outbox'[e] = outbox[e] /\ expects'[e] = expects[e],
           \A e \in Events : outbox[e] = "processed" => outbox'[e] = "processed",
           \A e \in n.locked : \A w \in expects[e] :
               endpoint'[w].status = "present" => endpoint[w].status = "present"
    PROVE  PollSound(n, outbox', endpoint', expects')
<1>1. n.locked \in SUBSET Events /\ n.announce \in SUBSET Events
  BY DEF PollState
<1> QED BY <1>1 DEF PollSound

\* Process p goes on with poll_once.
LEMMA NotifierMoves ==
    ASSUME Types, Types', Polls, NEW p \in Procs, NEW n, notifier' = [notifier EXCEPT ![p] = n],
           PollSound(n, outbox', endpoint', expects'),
           \A q \in Procs : q # p => /\ PollSound(notifier[q], outbox', endpoint', expects')
                                     /\ n.locked \cap notifier[q].locked = {}
                                     /\ n.announce \cap notifier[q].announce = {}
    PROVE  Polls'
<1>1. \A q \in Procs : notifier'[q] = IF q = p THEN n ELSE notifier[q]
  BY DEF Types
<1>2. \A q \in Procs : PollSound(notifier'[q], outbox', endpoint', expects')
  BY <1>1
<1>3. \A q, r \in Procs :
          q # r => /\ notifier'[q].locked \cap notifier'[r].locked = {}
                   /\ notifier'[q].announce \cap notifier'[r].announce = {}
  BY <1>1 DEF Polls
<1> QED BY <1>2, <1>3 DEF Polls

\* ... and nothing else that matters changes.
LEMMA NotifierOnly ==
    ASSUME Types, Types', Turning, NEW p \in Procs, NEW n, notifier' = [notifier EXCEPT ![p] = n],
           outbox' = outbox, endpoint' = endpoint, expects' = expects,
           deliveries' = deliveries,
           PollSound(n, outbox, endpoint, expects),
           \A q \in Procs : q # p => /\ n.locked \cap notifier[q].locked = {}
                                     /\ n.announce \cap notifier[q].announce = {}
    PROVE  Turning'
<1>1. Polls'
  BY NotifierMoves DEF Turning, Polls
<1>2. Expecting' /\ Turned'
  BY DEF Turning, Expecting, Turned, For, Present, Rows
<1> QED BY <1>1, <1>2 DEF Turning

\* The rows keep their events and endpoints, the events their status, and no
\* endpoint that an event waits for comes back.
LEMMA TurningStays ==
    ASSUME Types, Types', Turning, notifier' = notifier, outbox' = outbox, expects' = expects,
           Rows' = Rows,
           \A d \in Rows : /\ deliveries'[d].event = deliveries[d].event
                           /\ deliveries'[d].endpoint = deliveries[d].endpoint,
           \A e \in Events : \A w \in expects[e] :
               /\ endpoint'[w].status # "none" /\ endpoint'[w].events = endpoint[w].events
               /\ endpoint'[w].status = "present" => endpoint[w].status = "present"
    PROVE  Turning'
<1>1. Polls'
  <2>1. ASSUME NEW q \in Procs PROVE PollSound(notifier[q], outbox', endpoint', expects')
    <3>1. notifier[q] \in PollState /\ PollSound(notifier[q], outbox, endpoint, expects)
      BY DEF Types, Turning, Polls
    <3>2. notifier[q].locked \in SUBSET Events
      BY <3>1 DEF PollState
    <3> QED BY <3>1, <3>2, PollStays
  <2> QED BY <2>1 DEF Turning, Polls
<1>2. Expecting'
  BY DEF Turning, Expecting
<1>3. Turned'
  <2>1. \A e \in Events, w \in Endpoints : For(e, w)' = For(e, w)
    BY DEF For
  <2>2. \A e \in Events : \A w \in expects[e] : w \in Endpoints
    BY DEF Types
  <2> QED BY <2>1, <2>2 DEF Turning, Turned, Present
<1> QED BY <1>1, <1>2, <1>3 DEF Turning

\* A domain event is written, with the endpoints that subscribe to it.
LEMMA WriteTurns ==
    ASSUME Types, Types', Turning, NEW e \in Events, WriteEvent(e)
    PROVE  Turning'
<1>1. /\ outbox[e] = "none" /\ notifier' = notifier /\ endpoint' = endpoint
      /\ deliveries' = deliveries
      /\ \A f \in Events : outbox'[f] = IF f = e THEN "new" ELSE outbox[f]
      /\ \A f \in Events : expects'[f] = IF f = e THEN Subscribed(e) ELSE expects[f]
  BY DEF WriteEvent, webhooks, Types
<1>2. Polls'
  <2>1. ASSUME NEW q \in Procs PROVE PollSound(notifier[q], outbox', endpoint', expects')
    <3>1. notifier[q] \in PollState /\ PollSound(notifier[q], outbox, endpoint, expects)
      BY DEF Types, Turning, Polls
    <3>2. notifier[q].locked \in SUBSET Events /\ e \notin notifier[q].locked
      BY <1>1, <3>1 DEF PollState, PollSound
    <3> QED BY <1>1, <3>1, <3>2, PollStays
  <2> QED BY <1>1, <2>1 DEF Turning, Polls
<1>3. Expecting'
  BY <1>1 DEF Turning, Expecting, Subscribed, Present
<1>4. Turned'
  <2>1. \A d \in Rows : deliveries[d].event \in Events
    BY RowTypes DEF Delivery
  <2>2. \A d \in Rows : deliveries[d].event # e
    BY <1>1 DEF Turning, Turned
  <2> QED BY <1>1, <2>1, <2>2 DEF Turning, Turned, For, Present, Rows
<1> QED BY <1>2, <1>3, <1>4 DEF Turning

\* poll_once selects events no other process has.
LEMMA PollTurns ==
    ASSUME Types, Types', Turning, NEW p \in Procs, Poll(p)
    PROVE  Turning'
<1> DEFINE n == [notifier[p] EXCEPT !.locked = EventsToPoll, !.todo = EventsToPoll]
<1>1. /\ outbox' = outbox /\ endpoint' = endpoint /\ expects' = expects
      /\ deliveries' = deliveries /\ notifier[p] = NoPoll
      /\ notifier' = [notifier EXCEPT ![p] = n]
  BY DEF Poll, webhooks, Types
<1>2. /\ n.locked = EventsToPoll /\ n.todo = EventsToPoll /\ n.added = {} /\ n.flushed = {}
      /\ n.announce = {}
  BY <1>1 DEF NoPoll
<1> HIDE DEF n
<1>3. \A e \in EventsToPoll : outbox[e] = "new" /\ \A q \in Procs : e \notin notifier[q].locked
  BY DEF EventsToPoll
<1>4. PollSound(n, outbox, endpoint, expects)
  BY <1>2, <1>3 DEF PollSound
<1> QED BY <1>1, <1>2, <1>3, <1>4, NotifierOnly

\* poll_once adds the deliveries of one event.
LEMMA AddTurns ==
    ASSUME Types, Types', Turning, NEW p \in Procs, NEW e \in Events, AddDeliveries(p, e)
    PROVE  Turning'
<1> DEFINE S == {[event |-> e, endpoint |-> w] : w \in Subscribed(e)}
           o == notifier[p]
           n == [o EXCEPT !.todo = @ \ {e}, !.flushed = @ \cup o.added, !.added = S]
<1>1. /\ outbox' = outbox /\ endpoint' = endpoint /\ expects' = expects
      /\ deliveries' = deliveries /\ e \in o.todo
      /\ notifier' = [notifier EXCEPT ![p] = n]
  BY DEF AddDeliveries, webhooks, Types
<1>2. o \in PollState /\ PollSound(o, outbox, endpoint, expects)
  BY DEF Types, Turning, Polls
<1>3. \A w \in expects[e] : Present(w) => [event |-> e, endpoint |-> w] \in S
  BY DEF Turning, Expecting, Subscribed, Present, Types
<1>4. \A x \in S : x.event = e
  OBVIOUS
<1> HIDE DEF S, o
<1>5. /\ n.locked = o.locked /\ n.todo = o.todo \ {e} /\ n.added = S
      /\ n.flushed = o.flushed \cup o.added /\ n.announce = o.announce
  BY <1>2 DEF PollState
<1> HIDE DEF n
<1>6. PollSound(n, outbox, endpoint, expects)
  BY <1>1, <1>2, <1>3, <1>4, <1>5 DEF PollSound, Present
<1>7. \A q \in Procs : q # p => /\ n.locked \cap notifier[q].locked = {}
                                /\ n.announce \cap notifier[q].announce = {}
  BY <1>5 DEF Turning, Polls, o
<1> QED BY <1>1, <1>6, <1>7, NotifierOnly

\* An empty poll is sound.
LEMMA NoPollIsSound ==
    /\ \A ob, ep, ex : PollSound(NoPoll, ob, ep, ex)
    /\ NoPoll.locked = {} /\ NoPoll.announce = {}
BY DEF PollSound, NoPoll

\* broadcast takes one event off the list.
LEMMA AnnounceTurns ==
    ASSUME Types, Types', Turning, NEW p \in Procs, NEW e \in Events,
           NEW stale \in SUBSET Sockets, Announce(p, e, stale)
    PROVE  Turning'
<1> DEFINE o == notifier[p]
           n == [o EXCEPT !.announce = @ \ {e}]
<1>1. /\ outbox' = outbox /\ endpoint' = endpoint /\ expects' = expects
      /\ deliveries' = deliveries /\ notifier' = [notifier EXCEPT ![p] = n]
  BY DEF Announce, webhooks, Types
<1>2. o \in PollState /\ PollSound(o, outbox, endpoint, expects)
  BY DEF Types, Turning, Polls
<1> HIDE DEF o
<1>3. /\ n.locked = o.locked /\ n.todo = o.todo /\ n.added = o.added
      /\ n.flushed = o.flushed /\ n.announce = o.announce \ {e}
  BY <1>2 DEF PollState
<1> HIDE DEF n
<1>4. PollSound(n, outbox, endpoint, expects)
  BY <1>2, <1>3 DEF PollSound
<1>5. \A q \in Procs : q # p => /\ n.locked \cap notifier[q].locked = {}
                                /\ n.announce \cap notifier[q].announce = {}
  BY <1>3 DEF Turning, Polls, o
<1> QED BY <1>1, <1>4, <1>5, NotifierOnly

\* The commit of poll_once turns the events it holds into deliveries.
LEMMA CommitTurns ==
    ASSUME Types, Types', Turning, NEW p \in Procs, PollCommit(p)
    PROVE  Turning'
<1> DEFINE o == notifier[p]
           A == o.added \cup o.flushed
           n == Len(deliveries)
           z == [NoPoll EXCEPT !.announce = o.locked]
<1>1. /\ endpoint' = endpoint /\ expects' = expects /\ o.todo = {}
      /\ notifier' = [notifier EXCEPT ![p] = z]
      /\ \A e \in Events : outbox'[e] = IF e \in o.locked THEN "processed" ELSE outbox[e]
  BY DEF PollCommit
<1>2. o \in PollState /\ PollSound(o, outbox, endpoint, expects)
  BY DEF Types, Turning, Polls
<1>3. /\ z.locked = {} /\ z.todo = {} /\ z.added = {} /\ z.flushed = {} /\ z.announce = o.locked
  BY DEF NoPoll
<1>4. \A q \in Procs : q # p => /\ o.locked \cap notifier[q].locked = {}
                                /\ PollSound(notifier[q], outbox, endpoint, expects)
                                /\ notifier[q] \in PollState
  BY DEF Turning, Polls, Types
<1>5. PICK k, x : Inserts(A, n, k, x)
  BY CommitInserts
<1> HIDE DEF o, z
<1>6. /\ o.locked \in SUBSET Events /\ \A e \in o.locked : outbox[e] = "new"
      /\ A \in SUBSET Pair
  BY <1>2 DEF PollState, PollSound
<1>7. Polls'
  <2>1. PollSound(z, outbox', endpoint', expects')
    BY <1>1, <1>3, <1>6 DEF PollSound
  <2>2. ASSUME NEW q \in Procs, q # p
        PROVE  /\ PollSound(notifier[q], outbox', endpoint', expects')
               /\ z.locked \cap notifier[q].locked = {}
               /\ z.announce \cap notifier[q].announce = {}
    <3>1. notifier[q].locked \in SUBSET Events /\ notifier[q].announce \in SUBSET Events
      BY <1>4, <2>2 DEF PollState
    <3>2. \A e \in notifier[q].locked : outbox'[e] = outbox[e]
      BY <1>1, <1>4, <2>2, <3>1
    <3>3. \A e \in Events : outbox[e] = "processed" => outbox'[e] = "processed"
      BY <1>1
    <3>4. PollSound(notifier[q], outbox', endpoint', expects')
      BY <1>1, <1>4, <2>2, <3>2, <3>3, PollStays
    <3>5. \A e \in notifier[q].announce : outbox[e] = "processed"
      BY <1>4, <2>2 DEF PollSound
    <3> QED BY <1>3, <1>6, <3>4, <3>5
  <2> QED BY <1>1, <2>1, <2>2, NotifierMoves DEF Turning
<1>8. Expecting'
  BY <1>1 DEF Turning, Expecting
<1>9. \A y \in A : y \in Pair /\ y.event \in o.locked
  BY <1>2, <1>6 DEF PollSound
<1>10. \A e \in o.locked : \A w \in expects[e] :
           Present(w) => [event |-> e, endpoint |-> w] \in A
  BY <1>1, <1>2 DEF PollSound, Present
<1> HIDE DEF A
<1>11. /\ n \in Nat /\ k \in Nat /\ Rows = 1..n /\ Rows' = 1..(n + k) /\ x \in [1..k -> A]
       /\ \A d \in 1..n : deliveries'[d] = deliveries[d]
       /\ \A i \in 1..k : deliveries'[n + i] = Row(x[i])
       /\ \A i, j \in 1..k : x[i] = x[j] => i = j
       /\ \A y \in A : \E i \in 1..k : x[i] = y
  <2>1. /\ n \in Nat /\ k \in Nat /\ Rows = 1..n /\ Len(deliveries') = n + k
        /\ Rows' = 1..(n + k)
        /\ \A d \in 1..n : deliveries'[d] = deliveries[d]
        /\ \A i \in 1..k : deliveries'[n + i] = Row(x[i])
    <3>1. deliveries \in Seq(Delivery) /\ deliveries' \in Seq(Delivery)
      BY DEF Types
    <3>2. k \in Nat /\ Len(deliveries') = n + k /\ deliveries' \in Seq(Delivery)
      BY <1>5 DEF Inserts
    <3>3. n \in Nat /\ Rows = 1..n /\ Rows' = 1..(n + k)
      BY <3>1, <3>2 DEF Rows
    <3>4. /\ \A d \in 1..n : deliveries'[d] = deliveries[d]
          /\ \A i \in 1..k : deliveries'[n + i] = Row(x[i])
      BY <1>5 DEF Inserts
    <3> QED BY <3>2, <3>3, <3>4
  <2>2. /\ x \in [1..k -> A]
        /\ \A i, j \in 1..k : x[i] = x[j] => i = j
        /\ \A y \in A : \E i \in 1..k : x[i] = y
    BY <1>5 DEF Inserts
  <2> QED BY <2>1, <2>2
<1> HIDE DEF n
<1>12. ASSUME NEW d \in Rows'
       PROVE  \/ d \in 1..n
              \/ \E i \in 1..k : d = n + i
  <2>1. CASE d \notin 1..n
    <3>1. d \in Nat /\ d > n /\ d <= n + k
      BY <1>11, <2>1
    <3>2. d - n \in 1..k /\ d = n + (d - n)
      BY <1>11, <3>1
    <3> QED BY <3>2
  <2> QED BY <2>1
<1>13. \A i \in 1..k : /\ x[i] \in Pair /\ x[i].event \in o.locked
                       /\ deliveries'[n + i].event = x[i].event
                       /\ deliveries'[n + i].endpoint = x[i].endpoint
  <2> TAKE i \in 1..k
  <2>1. x[i] \in A
    BY <1>11
  <2>2. deliveries'[n + i] = Row(x[i])
    BY <1>11
  <2>3. Row(x[i]).event = x[i].event /\ Row(x[i]).endpoint = x[i].endpoint
    BY DEF Row
  <2> QED BY <1>9, <2>1, <2>2, <2>3
<1>14. \A d \in 1..n : /\ deliveries'[d] = deliveries[d] /\ deliveries[d].event \in Events
                       /\ outbox[deliveries[d].event] = "processed"
                       /\ deliveries[d].event \notin o.locked
  <2>1. \A d \in Rows : /\ deliveries[d].event \in Events
                        /\ outbox[deliveries[d].event] = "processed"
    BY RowTypes DEF Delivery, Turning, Turned
  <2> QED BY <1>6, <1>11, <2>1
<1>15. Turned'
  <2>1. \A d \in Rows' : outbox'[deliveries'[d].event] = "processed"
    BY <1>1, <1>6, <1>12, <1>13, <1>14
  <2>2. ASSUME NEW c \in Rows', NEW d \in Rows',
               deliveries'[c].event = deliveries'[d].event,
               deliveries'[c].endpoint = deliveries'[d].endpoint
        PROVE  c = d
    <3>1. CASE c \in 1..n /\ d \in 1..n
      BY <1>11, <2>2, <3>1 DEF Turning, Turned
    <3>2. ASSUME NEW i \in 1..k, NEW j \in 1..k, c = n + i, d = n + j PROVE c = d
      <4>1. x[i].event = x[j].event /\ x[i].endpoint = x[j].endpoint
        BY <1>13, <2>2, <3>2
      <4>2. x[i] = x[j]
        BY <1>13, <4>1 DEF Pair
      <4> QED BY <1>11, <3>2, <4>2
    <3>3. ASSUME NEW i \in 1..k, (c \in 1..n /\ d = n + i) \/ (d \in 1..n /\ c = n + i)
          PROVE  FALSE
      BY <1>13, <1>14, <2>2, <3>3
    <3> QED BY <1>12, <3>1, <3>2, <3>3
  <2>3. ASSUME NEW e \in Events, NEW w \in expects[e], outbox'[e] = "processed", Present(w)
        PROVE  \E d \in Rows' : deliveries'[d].event = e /\ deliveries'[d].endpoint = w
    <3>1. CASE e \in o.locked
      <4> DEFINE y == [event |-> e, endpoint |-> w]
      <4>1. PICK i \in 1..k : x[i] = y
        BY <1>10, <1>11, <2>3, <3>1
      <4>2. n + i \in Rows' /\ y.event = e /\ y.endpoint = w
        BY <1>11
      <4> HIDE DEF y
      <4> QED BY <1>13, <4>1, <4>2
    <3>2. CASE e \notin o.locked
      <4>1. For(e, w) # {}
        BY <1>1, <2>3, <3>2 DEF Turning, Turned
      <4>2. PICK d \in Rows : deliveries[d].event = e /\ deliveries[d].endpoint = w
        BY <4>1 DEF For
      <4>3. d \in Rows' /\ deliveries'[d] = deliveries[d]
        BY <1>11
      <4> QED BY <4>2, <4>3
    <3> QED BY <3>1, <3>2
  <2> QED BY <1>1, <2>1, <2>2, <2>3 DEF Turned, For, Present
<1> QED BY <1>7, <1>8, <1>15 DEF Turning

\* Every step keeps the polls apart and the events turned at most once.
LEMMA NextTurns ==
    ASSUME Types, Types', Turning, [Next]_vars
    PROVE  Turning'
<1>0. ASSUME notifier' = notifier, outbox' = outbox, expects' = expects, endpoint' = endpoint,
             Rows' = Rows,
             \A d \in Rows : /\ deliveries'[d].event = deliveries[d].event
                             /\ deliveries'[d].endpoint = deliveries[d].endpoint
      PROVE  Turning'
  BY <1>0, TurningStays DEF Turning, Expecting
<1>1. CASE RealtimeNext /\ UNCHANGED <<outbox, webhooks, notifier, expects, faults>>
  BY <1>0, <1>1 DEF webhooks, Rows
<1>2. ASSUME NEW e \in Events, WriteEvent(e) PROVE Turning'
  BY <1>2, WriteTurns
<1>3. ASSUME NEW p \in Procs, notifier' = [notifier EXCEPT ![p] = NoPoll], outbox' = outbox,
             endpoint' = endpoint, expects' = expects, deliveries' = deliveries
      PROVE  Turning'
  BY <1>3, NoPollIsSound, NotifierOnly
<1>4. ASSUME NEW p \in Procs, NotifierStep(p) PROVE Turning'
  <2>1. CASE PollFails(p)
    BY <1>3, <2>1 DEF PollFails, webhooks
  <2> QED BY <1>4, <2>1, PollTurns, AddTurns, CommitTurns, AnnounceTurns DEF NotifierStep
<1>5. ASSUME NEW p \in Procs, DispatcherStep(p) PROVE Turning'
  <2>1. CASE DispatchCommit(p)
    <3>1. \A d \in Rows : /\ deliveries'[d].event = deliveries[d].event
                          /\ deliveries'[d].endpoint = deliveries[d].endpoint
      BY <2>1, RowTypes, AttemptedRow DEF DispatchCommit
    <3>2. Rows' = Rows
      BY <2>1 DEF DispatchCommit, Rows
    <3> QED BY <1>0, <2>1, <3>1, <3>2 DEF DispatchCommit
  <2>2. CASE Select(p) \/ \E d \in Rows, ok \in BOOLEAN : Post(p, d, ok)
    BY <1>0, <2>2 DEF Select, Post, Rows
  <2>3. CASE PostRaises(p)
    BY <1>0, <2>3 DEF PostRaises, RollBack, Rows
  <2> QED BY <1>5, <2>1, <2>2, <2>3 DEF DispatcherStep
<1>6. ASSUME NEW p \in Procs, DispatchFails(p) PROVE Turning'
  BY <1>0, <1>6 DEF DispatchFails, RollBack, Rows
<1>7. ASSUME NEW p \in Procs, Crash(p) PROVE Turning'
  BY <1>3, <1>7 DEF Crash
<1>8. ASSUME NEW d \in Rows, BackoffElapses(d) PROVE Turning'
  <2>1. \A c \in Rows : deliveries[c] \in Delivery
    BY RowTypes
  <2>2. /\ Rows' = Rows
        /\ \A c \in Rows : /\ deliveries'[c].event = deliveries[c].event
                           /\ deliveries'[c].endpoint = deliveries[c].endpoint
    BY <1>8, <2>1 DEF BackoffElapses, Rows, Delivery
  <2> QED BY <1>0, <1>8, <2>2 DEF BackoffElapses
<1>9. ASSUME NEW w \in Endpoints, NEW events \in Subscriptions, CreateWebhook(w, events)
      PROVE  Turning'
  <2>1. /\ notifier' = notifier /\ outbox' = outbox /\ expects' = expects
        /\ deliveries' = deliveries /\ endpoint[w].status = "none"
        /\ \A v \in Endpoints : v # w => endpoint'[v] = endpoint[v]
    BY <1>9 DEF CreateWebhook, Types
  <2>2. \A e \in Events : \A v \in expects[e] : v \in Endpoints /\ v # w
    BY <2>1 DEF Turning, Expecting, Types
  <2>3. \A e \in Events : \A v \in expects[e] :
            /\ endpoint'[v].status # "none" /\ endpoint'[v].events = endpoint[v].events
            /\ endpoint'[v].status = "present" => endpoint[v].status = "present"
    BY <2>1, <2>2 DEF Turning, Expecting
  <2> QED BY <2>1, <2>3, TurningStays DEF Rows
<1>10. ASSUME NEW w \in Endpoints, DeleteWebhook(w) PROVE Turning'
  <2>1. \A c \in Rows : deliveries[c] \in Delivery
    BY RowTypes
  <2>2. /\ Rows' = Rows
        /\ \A c \in Rows : /\ deliveries'[c].event = deliveries[c].event
                           /\ deliveries'[c].endpoint = deliveries[c].endpoint
    BY <1>10, <2>1 DEF DeleteWebhook, Rows, Delivery
  <2>3. /\ notifier' = notifier /\ outbox' = outbox /\ expects' = expects
        /\ endpoint' = [endpoint EXCEPT ![w].status = "deleted"]
        /\ endpoint[w].status = "present"
    BY <1>10 DEF DeleteWebhook, Present
  <2>4. \A v \in Endpoints : /\ endpoint'[v].events = endpoint[v].events
                             /\ endpoint'[v].status = IF v = w THEN "deleted"
                                                      ELSE endpoint[v].status
    BY <2>3 DEF Types, EndpointRow
  <2>5. \A e \in Events : \A v \in expects[e] :
            /\ endpoint'[v].status # "none" /\ endpoint'[v].events = endpoint[v].events
            /\ endpoint'[v].status = "present" => endpoint[v].status = "present"
    BY <2>3, <2>4 DEF Turning, Expecting, Types
  <2> QED BY <2>2, <2>3, <2>5, TurningStays
<1>11. CASE UNCHANGED vars
  BY <1>0, <1>11 DEF vars, Rows
<1> QED BY <1>1, <1>2, <1>4, <1>5, <1>6, <1>7, <1>8, <1>9, <1>10, <1>11 DEF Next

-----------------------------------------------------------------------------
(***************************************************************************)
(* Websockets.                                                             *)
(***************************************************************************)

\* Nothing is announced or sent, notifications may be lost.
LEMMA CopiesStay ==
    ASSUME Types, Copies, received' = received, bus' \subseteq bus,
           \A e \in Events : outbox[e] = "processed" => outbox'[e] = "processed",
           \A p \in Procs : notifier'[p].announce \subseteq notifier[p].announce
    PROVE  Copies'
<1>1. \A m \in bus : m.event \in Events
  BY DEF Types, RealtimeTypeOK, Notification
<1>2. \A s \in Sockets, e \in Events : Settled(s, e) => Settled(s, e)'
  BY DEF Settled
<1>3. \A s \in Sockets, e \in Events :
          received'[s][e] = 0 \/ (received'[s][e] = 1 /\ Settled(s, e)')
  BY <1>2 DEF Copies
<1>4. \A m \in bus' : /\ outbox'[m.event] = "processed"
                      /\ \A p \in Procs : m.event \notin notifier'[p].announce
  BY <1>1 DEF Copies
<1>5. \A m, k \in bus' : m.event = k.event => m.origin = k.origin
  BY DEF Copies
<1> QED BY <1>3, <1>4, <1>5 DEF Copies

\* poll_once announces events nobody has announced.
LEMMA CommitCopies ==
    ASSUME Types, Polls, Copies, NEW p \in Procs, PollCommit(p)
    PROVE  Copies'
<1>1. /\ received' = received /\ bus' = bus
      /\ \A e \in Events : outbox[e] = "processed" => outbox'[e] = "processed"
  BY DEF PollCommit, realtime
<1>2. /\ notifier'[p].announce = notifier[p].locked
      /\ \A q \in Procs : q # p => notifier'[q] = notifier[q]
  BY DEF PollCommit, Types, NoPoll
<1>3. \A e \in Events : outbox[e] = "processed" => e \notin notifier[p].locked
  BY DEF Polls, PollSound
<1>4. \A m \in bus : m.event \in Events
  BY DEF Types, RealtimeTypeOK, Notification
<1>5. \A s \in Sockets, e \in Events : Settled(s, e) => Settled(s, e)'
  BY <1>1, <1>2, <1>3 DEF Settled
<1>6. \A s \in Sockets, e \in Events :
          received'[s][e] = 0 \/ (received'[s][e] = 1 /\ Settled(s, e)')
  BY <1>1, <1>5 DEF Copies
<1>7. \A m \in bus' : /\ outbox'[m.event] = "processed"
                      /\ \A q \in Procs : m.event \notin notifier'[q].announce
  BY <1>1, <1>2, <1>3, <1>4 DEF Copies
<1> QED BY <1>1, <1>6, <1>7 DEF Copies

\* broadcast sends to the process's own sockets, the others get it from the bus.
LEMMA AnnounceCopies ==
    ASSUME Types, Polls, Copies, NEW p \in Procs, NEW e \in Events,
           NEW stale \in SUBSET Sockets, Announce(p, e, stale)
    PROVE  Copies'
<1>1. /\ outbox' = outbox /\ e \in notifier[p].announce
      /\ notifier'[p].announce = notifier[p].announce \ {e}
      /\ \A q \in Procs : q # p => notifier'[q] = notifier[q]
  BY DEF Announce, Types, PollState
<1>2. outbox[e] = "processed" /\ \A q \in Procs : e \notin notifier'[q].announce
  BY <1>1 DEF Polls, PollSound
<1>3. \A s \in Sockets, f \in Events :
          \/ received'[s][f] = received[s][f]
          \/ f = e /\ home[s] = p /\ received'[s][f] = received[s][f] + 1
  BY BroadcastTypes DEF Announce, Types
<1>4. \A s \in Sockets : received[s][e] = 0
  BY <1>1 DEF Copies, Settled
<1>5. \A m \in bus : m.event # e
  BY <1>1 DEF Copies
<1>6. \A m \in bus' : m \in bus \/ (m.event = e /\ m.origin = p)
  BY DEF Announce, Publish
<1>7. ASSUME NEW s \in Sockets, NEW f \in Events
      PROVE  received'[s][f] = 0 \/ (received'[s][f] = 1 /\ Settled(s, f)')
  <2>1. CASE f # e
    <3>1. Settled(s, f) => Settled(s, f)'
      BY <1>1, <1>6, <2>1 DEF Settled
    <3> QED BY <1>3, <2>1, <3>1 DEF Copies
  <2>2. CASE f = e /\ received'[s][f] # received[s][f]
    <3>1. home[s] = p /\ received'[s][f] = 1
      BY <1>3, <1>4, <2>2
    <3>2. \A m \in bus' : m.event = e /\ m.to = home[s] => m.origin = m.to
      BY <1>5, <1>6, <3>1
    <3> QED BY <1>1, <1>2, <2>2, <3>1, <3>2 DEF Settled
  <2>3. CASE f = e /\ received'[s][f] = received[s][f]
    BY <1>4, <2>3
  <2> QED BY <2>1, <2>2, <2>3
<1>8. \A m \in bus' : /\ outbox'[m.event] = "processed"
                      /\ \A q \in Procs : m.event \notin notifier'[q].announce
  BY <1>1, <1>2, <1>6 DEF Copies
<1>9. \A m, k \in bus' : m.event = k.event => m.origin = k.origin
  BY <1>5, <1>6 DEF Copies
<1> QED BY <1>7, <1>8, <1>9 DEF Copies

\* A process passes on what another sent, and only that.
LEMMA NotificationCopies ==
    ASSUME Types, Copies, NEW m \in bus, NEW stale \in SUBSET Sockets,
           OnNotification(m, stale), outbox' = outbox, notifier' = notifier
    PROVE  Copies'
<1>1. /\ bus' = bus \ {m} /\ m.to \in Procs /\ m.event \in Events
      /\ bus \subseteq Notification
  BY DEF OnNotification, Types, RealtimeTypeOK, Notification
<1>2. CASE m.origin = m.to
  <2>1. received' = received
    BY <1>2 DEF OnNotification
  <2> QED BY <1>1, <2>1, CopiesStay
<1>3. CASE m.origin # m.to
  <2>1. \A s \in Sockets, f \in Events :
            \/ received'[s][f] = received[s][f]
            \/ f = m.event /\ home[s] = m.to /\ received'[s][f] = received[s][f] + 1
    BY <1>1, <1>3, BroadcastTypes DEF OnNotification, Types
  <2>2. /\ outbox[m.event] = "processed"
        /\ \A q \in Procs : m.event \notin notifier[q].announce
    BY DEF Copies
  <2>3. \A k \in bus : k.event = m.event /\ k.to = m.to => k = m
    BY <1>1 DEF Copies, Notification
  <2>4. ASSUME NEW s \in Sockets, NEW f \in Events
        PROVE  received'[s][f] = 0 \/ (received'[s][f] = 1 /\ Settled(s, f)')
    <3>1. CASE received'[s][f] = received[s][f]
      <4>1. Settled(s, f) => Settled(s, f)'
        BY <1>1 DEF Settled
      <4> QED BY <3>1, <4>1 DEF Copies
    <3>2. CASE received'[s][f] # received[s][f]
      <4>1. f = m.event /\ home[s] = m.to /\ received'[s][f] = received[s][f] + 1
        BY <2>1, <3>2
      <4>2. ~Settled(s, f)
        BY <1>3, <4>1 DEF Settled
      <4>3. received'[s][f] = 1
        BY <4>1, <4>2 DEF Copies
      <4>4. Settled(s, f)'
        BY <1>1, <2>2, <2>3, <4>1 DEF Settled
      <4> QED BY <4>3, <4>4
    <3> QED BY <3>1, <3>2
  <2>5. \A k \in bus' : /\ outbox'[k.event] = "processed"
                        /\ \A q \in Procs : k.event \notin notifier'[q].announce
    BY <1>1 DEF Copies
  <2>6. \A j, k \in bus' : j.event = k.event => j.origin = k.origin
    BY <1>1 DEF Copies
  <2> QED BY <2>4, <2>5, <2>6 DEF Copies
<1> QED BY <1>2, <1>3

\* Every step keeps the count of copies that a socket has or may still get.
LEMMA NextCopies ==
    ASSUME Types, Polls, Copies, [Next]_vars
    PROVE  Copies'
<1>0. ASSUME received' = received, bus' = bus, outbox' = outbox, notifier' = notifier
      PROVE  Copies'
  BY <1>0, CopiesStay
<1>1. CASE RealtimeNext /\ UNCHANGED <<outbox, webhooks, notifier, expects, faults>>
  <2>1. CASE \E s \in Sockets : Connect(s) \/ Disconnect(s)
    BY <1>0, <1>1, <2>1 DEF Connect, Disconnect
  <2>2. CASE \E m \in bus, stale \in SUBSET Sockets : OnNotification(m, stale)
    BY <1>1, <2>2, NotificationCopies
  <2> QED BY <1>1, <2>1, <2>2 DEF RealtimeNext
<1>2. ASSUME NEW e \in Events, WriteEvent(e) PROVE Copies'
  <2>1. /\ received' = received /\ bus' = bus /\ notifier' = notifier
        /\ \A f \in Events : outbox[f] = "processed" => outbox'[f] = "processed"
    BY <1>2 DEF WriteEvent, realtime, Types
  <2> QED BY <2>1, CopiesStay
<1>3. ASSUME NEW p \in Procs, NEW n, notifier' = [notifier EXCEPT ![p] = n],
             n.announce \subseteq notifier[p].announce, received' = received,
             bus' \subseteq bus, outbox' = outbox
      PROVE  Copies'
  <2>1. \A q \in Procs : notifier'[q].announce \subseteq notifier[q].announce
    BY <1>3 DEF Types
  <2> QED BY <1>3, <2>1, CopiesStay
<1>4. ASSUME NEW p \in Procs, NotifierStep(p) PROVE Copies'
  <2>1. CASE Poll(p)
    <3> DEFINE n == [notifier[p] EXCEPT !.locked = EventsToPoll, !.todo = EventsToPoll]
    <3>1. notifier' = [notifier EXCEPT ![p] = n] /\ n.announce = notifier[p].announce
      BY <2>1 DEF Poll, Types, PollState
    <3> HIDE DEF n
    <3> QED BY <1>3, <2>1, <3>1 DEF Poll, realtime
  <2>2. ASSUME NEW e \in Events, AddDeliveries(p, e) PROVE Copies'
    <3> DEFINE S == {[event |-> e, endpoint |-> w] : w \in Subscribed(e)}
               n == [notifier[p] EXCEPT !.todo = @ \ {e},
                                        !.flushed = @ \cup notifier[p].added, !.added = S]
    <3>1. notifier' = [notifier EXCEPT ![p] = n] /\ n.announce = notifier[p].announce
      BY <2>2 DEF AddDeliveries, Types, PollState
    <3> HIDE DEF n
    <3> QED BY <1>3, <2>2, <3>1 DEF AddDeliveries, realtime
  <2>3. CASE PollFails(p)
    BY <1>3, <2>3, NoPollIsSound DEF PollFails, realtime
  <2>4. CASE PollCommit(p)
    BY <2>4, CommitCopies
  <2>5. ASSUME NEW e \in Events, NEW stale \in SUBSET Sockets, Announce(p, e, stale)
        PROVE  Copies'
    BY <2>5, AnnounceCopies
  <2> QED BY <1>4, <2>1, <2>2, <2>3, <2>4, <2>5 DEF NotifierStep
<1>5. ASSUME NEW p \in Procs, DispatcherStep(p) \/ DispatchFails(p) PROVE Copies'
  BY <1>0, <1>5 DEF DispatcherStep, Select, Post, PostRaises, DispatchCommit, DispatchFails,
                    RollBack, realtime
<1>6. ASSUME NEW p \in Procs, Crash(p) PROVE Copies'
  BY <1>3, <1>6, NoPollIsSound DEF Crash, RealtimeCrash
<1>7. ASSUME NEW d \in Rows, BackoffElapses(d) PROVE Copies'
  BY <1>0, <1>7 DEF BackoffElapses, realtime
<1>8. ASSUME NEW w \in Endpoints,
             DeleteWebhook(w) \/ \E events \in Subscriptions : CreateWebhook(w, events)
      PROVE  Copies'
  BY <1>0, <1>8 DEF DeleteWebhook, CreateWebhook, realtime
<1>9. CASE UNCHANGED vars
  BY <1>0, <1>9 DEF vars, realtime
<1> QED BY <1>1, <1>2, <1>4, <1>5, <1>6, <1>7, <1>8, <1>9 DEF Next

-----------------------------------------------------------------------------
(***************************************************************************)
(* Theorems.                                                               *)
(***************************************************************************)

\* Empty tables and resting loops satisfy the invariant.
LEMMA InitInv ==
    ASSUME Init PROVE Inv
<1>1. /\ socket = [s \in Sockets |-> "new"] /\ bus = {}
      /\ received = [s \in Sockets |-> [e \in Events |-> 0]]
      /\ outbox = [e \in Events |-> "none"]
      /\ endpoint = [w \in Endpoints |-> [status |-> "none", events |-> {}]]
      /\ deliveries = <<>> /\ sent = <<>> /\ faults = 0
      /\ notifier = [p \in Procs |-> NoPoll] /\ dispatcher = [p \in Procs |-> NoBatch]
      /\ expects = [e \in Events |-> {}]
  BY DEF Init, RealtimeInit
<1>2. RealtimeTypeOK
  BY <1>1 DEF RealtimeTypeOK
<1>3. NoPoll \in PollState /\ NoBatch \in Batch
  BY DEF NoPoll, PollState, NoBatch, Batch
<1>4. Types
  BY <1>1, <1>2, <1>3 DEF Types, EndpointRow
<1>5. Locks /\ Accounts
  BY <1>1 DEF Locks, Accounts, Rows, NoBatch
<1>6. Polls
  BY <1>1, NoPollIsSound DEF Polls
<1>7. Expecting /\ Turned
  BY <1>1 DEF Expecting, Turned, Rows
<1>8. Copies
  BY <1>1 DEF Copies
<1> QED BY <1>4, <1>5, <1>6, <1>7, <1>8 DEF Inv

\* The inductive invariant holds in every reachable state.
THEOREM InvHolds == Spec => []Inv
<1>1. Init => Inv
  BY InitInv
<1>2. Inv /\ [Next]_vars => Inv'
  BY NextTypes, NextSends, NextTurns, NextCopies DEF Inv, Sends, Turning
<1> QED BY <1>1, <1>2, PTL DEF Spec

\* Types: no process holds a processed event or a delivery that is done.
THEOREM TypeCorrect == Spec => []TypeOK
<1>1. Inv => TypeOK
  <2> SUFFICES ASSUME Inv PROVE TypeOK
    OBVIOUS
  <2>1. /\ RealtimeTypeOK /\ outbox \in [Events -> {"none", "new", "processed"}]
        /\ DOMAIN sent = Rows
    BY DEF Inv, Types, Rows
  <2>2. ASSUME NEW d \in Rows
        PROVE  /\ deliveries[d].status \in {"pending", "delivered", "failed", "deleted"}
               /\ deliveries[d].attempts \in 0 .. MaxAttempts
               /\ deliveries[d].event \in Events /\ deliveries[d].endpoint \in Endpoints
    <3>1. deliveries[d] \in Delivery /\ deliveries[d].attempts \in Nat
      BY RowTypes DEF Inv
    <3>2. deliveries[d].attempts <= MaxAttempts
      BY DEF Inv, Accounts, Account
    <3> QED BY <3>1, <3>2, OutboxAssumption DEF Delivery
  <2>3. \A p \in Procs : /\ \A e \in notifier[p].locked : outbox[e] = "new"
                         /\ \A d \in dispatcher[p].locked : deliveries[d].status = "pending"
    BY DEF Inv, Polls, PollSound, Locks
  <2> QED BY <2>1, <2>2, <2>3 DEF TypeOK
<1> QED BY <1>1, InvHolds, PTL

\* A websocket gets an event at most once.
THEOREM Once == Spec => []ReceivedOnce
<1>1. Inv => ReceivedOnce
  BY DEF Inv, Copies, ReceivedOnce
<1> QED BY <1>1, InvHolds, PTL

\* An event is turned into deliveries exactly once.
THEOREM Deliveries == Spec => []DeliveryPerSubscriber
<1>1. Inv => DeliveryPerSubscriber
  <2> SUFFICES ASSUME Inv, NEW e \in Events, NEW w \in Endpoints
               PROVE  /\ Cardinality(For(e, w)) <= 1
                      /\ outbox[e] \in {"none", "new"} => For(e, w) = {}
                      /\ outbox[e] = "processed" /\ w \in expects[e] /\ Present(w)
                             => For(e, w) # {}
    BY DEF DeliveryPerSubscriber
  <2>1. Cardinality(For(e, w)) <= 1
    <3>1. CASE For(e, w) = {}
      BY <3>1, FS_EmptySet
    <3>2. CASE For(e, w) # {}
      <4>1. PICK d : d \in For(e, w)
        BY <3>2
      <4>2. For(e, w) = {d}
        BY <4>1 DEF For, Inv, Turned
      <4>3. Cardinality({d}) = 1
        BY FS_Singleton
      <4> QED BY <4>2, <4>3
    <3> QED BY <3>1, <3>2
  <2>2. outbox[e] \in {"none", "new"} => For(e, w) = {}
    BY DEF For, Inv, Turned
  <2>3. outbox[e] = "processed" /\ w \in expects[e] /\ Present(w) => For(e, w) # {}
    BY DEF Inv, Turned
  <2> QED BY <2>1, <2>2, <2>3
<1> QED BY <1>1, InvHolds, PTL

\* A receiver gets a delivery once for each attempt counted and once more for
\* each fault, and at least once before the delivery counts as delivered.
THEOREM Attempts == Spec => []SendsAccounted
<1>1. Inv => SendsAccounted
  <2> SUFFICES ASSUME Inv, faults <= MaxFaults, NEW d \in Rows
               PROVE  /\ sent[d] <= deliveries[d].attempts + Cardinality(InHand(d)) + faults
                      /\ sent[d] <= MaxAttempts + faults
                      /\ deliveries[d].status = "delivered" => sent[d] >= 1
                      /\ deliveries[d].status = "failed" => sent[d] >= MaxAttempts
    BY DEF SendsAccounted
  <2> DEFINE h == Cardinality(InHand(d))
  <2>1. h \in {0, 1} /\ (h = 1 => deliveries[d].status = "pending")
    BY OneHand DEF Inv
  <2>2. /\ deliveries[d].attempts \in Nat /\ sent[d] \in Nat /\ faults \in Nat
        /\ MaxAttempts \in Nat
    BY RowTypes, OutboxAssumption DEF Inv
  <2>3. Account(deliveries[d], sent[d], h, faults)
    BY DEF Inv, Accounts
  <2> HIDE DEF h
  <2>4. /\ sent[d] <= deliveries[d].attempts + h + faults
        /\ sent[d] <= MaxAttempts + faults
        /\ deliveries[d].status = "delivered" => sent[d] >= 1
        /\ deliveries[d].status = "failed" => sent[d] >= MaxAttempts
    BY <2>1, <2>2, <2>3 DEF Account
  <2> QED BY <2>4 DEF h
<1> QED BY <1>1, InvHolds, PTL
=============================================================================
