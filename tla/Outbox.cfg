\* Two events, an endpoint for one or both of them, an endpoint with a malformed URL,
\* two processes, a websocket, two faults.
SPECIFICATION MCSpec
CONSTANTS
    e1 = e1
    e2 = e2
    w1 = w1
    w2 = w2
    Events = {e1, e2}
    Procs = {p1, p2}
    Sockets = {s1}
    home <- MCHome
    event_type <- MCTypes
    Endpoints = {w1, w2}
    Malformed = {w2}
    Subscriptions <- MCSubscriptions
    MaxAttempts = 2
    MaxFaults = 2
INVARIANTS TypeOK ReceivedOnce DeliveryPerSubscriber SendsAccounted
PROPERTIES DeliveriesEnd
CHECK_DEADLOCK FALSE
