------------------------------- MODULE Access -------------------------------
(***************************************************************************)
(* Who gets in: get_principal of backend/api/dependencies.py, which calls  *)
(* AuthService.authenticate with its cache of principals                   *)
(* (backend/services/auth_service.py) and then MemoryRateLimiter.consume   *)
(* (backend/core/rate_limit.py), and the two operations that change keys,  *)
(* create_key and revoke_key.  The cache and the buckets are one process's *)
(* own.                                                                    *)
(***************************************************************************)
EXTENDS Naturals, Sequences, FiniteSets

CONSTANTS
    Keys,           \* API keys that exist or may be created
    Bootstrap,      \* the key ensure_bootstrap creates
    Admins,         \* the keys whose role is admin
    Procs,          \* API processes
    Requests,       \* requests that may be under way at once
    Ttl,            \* settings.auth_cache_ttl_seconds
    Burst,          \* settings.rate_limit_burst
    Scale, Rate,    \* a request costs Scale units, a second brings Rate of them
                    \* (60 and rate_limit_requests_per_minute in the code)
    Idle,           \* seconds after which a bucket may be dropped (600)
    MaxBuckets,     \* buckets above which idle ones are dropped (10 000)
    MaxTime         \* bound on the clock

\* The last conjunct holds for the default settings (600 a minute, burst 100);
\* the bounds of config.py do not enforce it.
ASSUME AccessAssumption ==
    /\ Bootstrap \in Admins /\ Admins \subseteq Keys
    /\ Ttl \in Nat /\ Idle \in Nat /\ MaxBuckets \in Nat /\ MaxTime \in Nat
    /\ Burst \in Nat \ {0} /\ Scale \in Nat \ {0} /\ Rate \in Nat \ {0}
    /\ Scale * Burst <= Rate * Idle

VARIABLES
    now,
    status,      \* [Keys -> {"absent", "live", "revoked"}]: the rows of api_keys
    since,       \* [Keys -> Nat]: when the key's first revocation was committed
    cache,       \* [Procs -> [Keys -> Nat]]: _principal_cache, when an entry expires, or 0
    buckets,     \* [Procs -> SUBSET Keys]: the keys that have a bucket
    tokens,      \* [Procs -> [Keys -> Nat]]: units in it
    updated_at,  \* [Procs -> [Keys -> Nat]]
    admitted,    \* [Procs -> [Keys -> Seq(Nat)]]: when requests were let in
    req          \* the requests

table == <<status, since>>
limiter == <<buckets, tokens, updated_at, admitted>>
vars == <<now, status, since, cache, buckets, tokens, updated_at, admitted, req>>

Calls == {"read", "create", "revoke"}

\* A request: its process and key, what it calls on which key, and the clock
\* authenticate read.
Request == [pc : {"select", "store", "limit", "admitted", "commit"},
            proc : Procs, key : Keys, call : Calls, target : Keys, at : Nat]
NoRequest == [pc |-> "idle"]

Init ==
    /\ now = 0
    /\ status = [k \in Keys |-> IF k = Bootstrap THEN "live" ELSE "absent"]
    /\ since = [k \in Keys |-> 0]
    /\ cache = [p \in Procs |-> [k \in Keys |-> 0]]
    /\ buckets = [p \in Procs |-> {}]
    /\ tokens = [p \in Procs |-> [k \in Keys |-> 0]]
    /\ updated_at = [p \in Procs |-> [k \in Keys |-> 0]]
    /\ admitted = [p \in Procs |-> [k \in Keys |-> <<>>]]
    /\ req = [r \in Requests |-> NoRequest]

Goto(r, pc) == req' = [req EXCEPT ![r].pc = pc]
End(r) == req' = [req EXCEPT ![r] = NoRequest]

(***************************************************************************)
(* authenticate.                                                           *)
(***************************************************************************)

\* A cached principal that has not expired will do.  (A read has no target;
\* its own key stands for it.)
Arrive(r, p, k, call, t) ==
    /\ req[r] = NoRequest
    /\ call = "read" => t = k
    /\ req' = [req EXCEPT ![r] = [pc |-> IF cache[p][k] > now THEN "limit" ELSE "select",
                                  proc |-> p, key |-> k, call |-> call, target |-> t, at |-> now]]
    /\ UNCHANGED <<now, table, cache, limiter>>

\* The SELECT of a key that is not revoked; without one the answer is 401.
Select(r) ==
    /\ req[r].pc = "select"
    /\ IF status[req[r].key] = "live" THEN Goto(r, "store") ELSE End(r)
    /\ UNCHANGED <<now, table, cache, limiter>>

\* MUTANT: the entry lives from the moment it is written.
StoreLater(r) ==
    /\ req[r].pc = "store"
    /\ cache' = IF Ttl = 0 THEN cache
                ELSE [cache EXCEPT ![req[r].proc][req[r].key] = now + Ttl]
    /\ Goto(r, "limit")
    /\ UNCHANGED <<now, table, limiter>>

\* The principal is cached from the clock read before the SELECT.
Store(r) ==
    /\ req[r].pc = "store"
    /\ cache' = IF Ttl = 0 THEN cache
                ELSE [cache EXCEPT ![req[r].proc][req[r].key] = req[r].at + Ttl]
    /\ Goto(r, "limit")
    /\ UNCHANGED <<now, table, limiter>>

(***************************************************************************)
(* consume.                                                                *)
(***************************************************************************)

Full == Scale * Burst
Least(a, b) == IF a <= b THEN a ELSE b

\* The bucket after the time since its last use.
Refilled(p, k) ==
    IF k \in buckets[p]
    THEN Least(Full, tokens[p][k] + (now - updated_at[p][k]) * Rate)
    ELSE Full

\* The buckets that are kept after a request was let in.
Kept(p, k) ==
    LET present == buckets[p] \cup {k}
    IN IF Cardinality(present) > MaxBuckets
       THEN {j \in present : j = k \/ updated_at[p][j] + Idle >= now}
       ELSE present

\* The request is let in, at the cost of a token ...
Admit(r) ==
    LET p == req[r].proc
        k == req[r].key
    IN /\ req[r].pc = "limit"
       /\ Refilled(p, k) >= Scale
       /\ tokens' = [tokens EXCEPT ![p][k] = Refilled(p, k) - Scale]
       /\ updated_at' = [updated_at EXCEPT ![p][k] = now]
       /\ buckets' = [buckets EXCEPT ![p] = Kept(p, k)]
       /\ admitted' = [admitted EXCEPT ![p][k] = Append(@, now)]
       /\ Goto(r, "admitted")
       /\ UNCHANGED <<now, table, cache>>

\* MUTANT: the refill is kept but not its time.
RefuseUnstamped(r) ==
    LET p == req[r].proc
        k == req[r].key
    IN /\ req[r].pc = "limit"
       /\ Refilled(p, k) < Scale
       /\ tokens' = [tokens EXCEPT ![p][k] = Refilled(p, k)]
       /\ End(r)
       /\ UNCHANGED <<now, table, cache, buckets, updated_at, admitted>>

\* ... or answered with 429; the refill is kept.
Refuse(r) ==
    LET p == req[r].proc
        k == req[r].key
    IN /\ req[r].pc = "limit"
       /\ Refilled(p, k) < Scale
       /\ tokens' = [tokens EXCEPT ![p][k] = Refilled(p, k)]
       /\ updated_at' = [updated_at EXCEPT ![p][k] = now]
       /\ End(r)
       /\ UNCHANGED <<now, table, cache, buckets, admitted>>

(***************************************************************************)
(* What an admitted request does.                                          *)
(***************************************************************************)

MayCall(r) == req[r].key \in Admins

\* A call that changes no key, or is refused with 400, 403 or 404.
Respond(r) ==
    /\ req[r].pc = "admitted"
    /\ \/ req[r].call = "read" \/ ~MayCall(r)
       \/ req[r].call = "revoke" /\ (status[req[r].target] = "absent" \/ req[r].target = req[r].key)
    /\ End(r)
    /\ UNCHANGED <<now, table, cache, limiter>>

CreateKey(r) ==
    /\ req[r].pc = "admitted" /\ req[r].call = "create" /\ MayCall(r)
    /\ status' = IF status[req[r].target] = "absent"
                 THEN [status EXCEPT ![req[r].target] = "live"] ELSE status
    /\ End(r)
    /\ UNCHANGED <<now, since, cache, limiter>>

\* revoke_key drops the entry of its own process before it commits ...
RevokeKey(r) ==
    /\ req[r].pc = "admitted" /\ req[r].call = "revoke" /\ MayCall(r)
    /\ status[req[r].target] # "absent" /\ req[r].target # req[r].key
    /\ cache' = [cache EXCEPT ![req[r].proc][req[r].target] = 0]
    /\ Goto(r, "commit")
    /\ UNCHANGED <<now, table, limiter>>

\* ... and a request that overlaps it puts it back.
RevokeCommit(r) ==
    LET t == req[r].target
    IN /\ req[r].pc = "commit"
       /\ status' = [status EXCEPT ![t] = "revoked"]
       /\ since' = IF status[t] = "revoked" THEN since ELSE [since EXCEPT ![t] = now]
       /\ End(r)
       /\ UNCHANGED <<now, cache, limiter>>

Tick ==
    /\ now < MaxTime
    /\ now' = now + 1
    /\ UNCHANGED <<table, cache, limiter, req>>

Step(r) ==
    \/ \E p \in Procs, k \in Keys, call \in Calls, t \in Keys : Arrive(r, p, k, call, t)
    \/ Select(r) \/ Store(r) \/ Admit(r) \/ Refuse(r)
    \/ Respond(r) \/ CreateKey(r) \/ RevokeKey(r) \/ RevokeCommit(r)

Next == Tick \/ \E r \in Requests : Step(r)

Spec == Init /\ [][Next]_vars

(***************************************************************************)
(* Properties.                                                             *)
(***************************************************************************)

\* Types of the table, the caches, the buckets and the requests.
TypeOK ==
    /\ now \in Nat
    /\ status \in [Keys -> {"absent", "live", "revoked"}]
    /\ since \in [Keys -> Nat]
    /\ cache \in [Procs -> [Keys -> Nat]]
    /\ buckets \in [Procs -> SUBSET Keys]
    /\ tokens \in [Procs -> [Keys -> 0 .. Full]]
    /\ updated_at \in [Procs -> [Keys -> Nat]]
    /\ admitted \in [Procs -> [Keys -> Seq(Nat)]]
    /\ req \in [Requests -> Request \cup {NoRequest}]

\* A revoked key opens nothing to a request that arrives auth_cache_ttl_seconds
\* or more after the revocation was committed, in any process, also when an
\* authentication that overlapped the revocation filled the cache again.
RevocationBound ==
    \A r \in Requests :
        req[r].pc \in {"limit", "admitted", "commit"} /\ status[req[r].key] = "revoked"
            => req[r].at <= since[req[r].key] \/ req[r].at < since[req[r].key] + Ttl

\* In any stretch of time a process lets in no more requests of a key than the
\* burst and what the rate brings in that time, although buckets are dropped
\* and made anew.
AdmissionBound ==
    \A p \in Procs, k \in Keys :
        LET times == admitted[p][k]
        IN \A i, j \in DOMAIN times :
               i <= j => Scale * (j - i + 1) <= Full + Rate * (times[j] - times[i])
=============================================================================
