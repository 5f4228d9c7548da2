------------------------------ MODULE Realtime ------------------------------
(***************************************************************************)
(* Messages to websockets: backend/services/realtime_service.py and the    *)
(* LISTEN/NOTIFY fan-out between processes of                              *)
(* backend/services/realtime_bus.py.  One execution; a socket that         *)
(* reconnects is another socket.                                           *)
(***************************************************************************)
EXTENDS Naturals, FiniteSets

CONSTANTS
    Events,     \* outbox events, the messages
    Procs,      \* API processes, each with its own service and bus connection
    Sockets,    \* websockets of the execution's watchers
    home        \* [Sockets -> Procs]: the process a socket is connected to

ASSUME RealtimeAssumption == home \in [Sockets -> Procs]

VARIABLES
    socket,     \* [Sockets -> {"new", "open", "closed"}]; open ones are in _connections
    bus,        \* notifications on their way to a listener
    received    \* [Sockets -> [Events -> Nat]]: copies of a message a socket got

realtime == <<socket, bus, received>>

Notification == [to : Procs, event : Events, origin : Procs]

RealtimeInit ==
    /\ socket = [s \in Sockets |-> "new"]
    /\ bus = {}
    /\ received = [s \in Sockets |-> [e \in Events |-> 0]]

Connections(p) == {s \in Sockets : home[s] = p /\ socket[s] = "open"}

Connect(s) ==
    /\ socket[s] = "new"
    /\ socket' = [socket EXCEPT ![s] = "open"]
    /\ UNCHANGED <<bus, received>>

Disconnect(s) ==
    /\ socket[s] = "open"
    /\ socket' = [socket EXCEPT ![s] = "closed"]
    /\ UNCHANGED <<bus, received>>

\* broadcast_local: a socket whose send fails is stale and is disconnected.
BroadcastLocal(p, e, stale) ==
    /\ stale \subseteq Connections(p)
    /\ received' = [s \in Sockets |-> IF s \in Connections(p) \ stale
                                      THEN [received[s] EXCEPT ![e] = @ + 1]
                                      ELSE received[s]]
    /\ socket' = [s \in Sockets |-> IF s \in stale THEN "closed" ELSE socket[s]]

\* publish: NOTIFY reaches every listener, the sender's too.
Publish(p, e) ==
    bus' = bus \cup {[to |-> q, event |-> e, origin |-> p] : q \in Procs}

\* MUTANT: the listener passes on what its own process sent.
OnNotificationAny(m, stale) ==
    /\ bus' = bus \ {m}
    /\ BroadcastLocal(m.to, m.event, stale)

\* _on_notification: what the process sent itself has been delivered locally.
OnNotification(m, stale) ==
    /\ bus' = bus \ {m}
    /\ IF m.origin = m.to
       THEN stale = {} /\ UNCHANGED <<socket, received>>
       ELSE BroadcastLocal(m.to, m.event, stale)

\* The process dies: its sockets close and notifications to it are lost.
RealtimeCrash(p) ==
    /\ socket' = [s \in Sockets |-> IF s \in Connections(p) THEN "closed" ELSE socket[s]]
    /\ bus' = {m \in bus : m.to # p}
    /\ UNCHANGED received

RealtimeNext ==
    \/ \E s \in Sockets : Connect(s) \/ Disconnect(s)
    \/ \E m \in bus, stale \in SUBSET Sockets : OnNotification(m, stale)

RealtimeTypeOK ==
    /\ socket \in [Sockets -> {"new", "open", "closed"}]
    /\ bus \subseteq Notification
    /\ received \in [Sockets -> [Events -> Nat]]

\* A websocket gets an event at most once, whichever process broadcasts it and
\* whatever crashes: once an event is marked processed nobody takes it again.
ReceivedOnce == \A s \in Sockets, e \in Events : received[s][e] <= 1
=============================================================================
