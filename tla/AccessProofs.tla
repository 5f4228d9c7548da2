---------------------------- MODULE AccessProofs ----------------------------
(***************************************************************************)
(* RevocationBound and AdmissionBound for any number of keys, processes    *)
(* and requests and any settings that satisfy AccessAssumption.            *)
(***************************************************************************)
EXTENDS Access, Integers, TLAPS

(***************************************************************************)
(* The inductive invariant.                                                *)
(***************************************************************************)

\* Nothing recorded lies in the future.
ClockInv ==
    /\ \A k \in Keys : since[k] <= now
    /\ \A p \in Procs, k \in Keys : updated_at[p][k] <= now /\ cache[p][k] <= now + Ttl
    /\ \A r \in Requests : req[r] # NoRequest => req[r].at <= now

\* Why RevocationBound holds: no entry outlives its key's revocation by more
\* than Ttl, and what is about to be stored was read before it.
CacheInv ==
    /\ \A p \in Procs, k \in Keys : status[k] = "revoked" => cache[p][k] <= since[k] + Ttl
    /\ \A r \in Requests :
           req[r].pc = "store" /\ status[req[r].key] = "revoked" => req[r].at <= since[req[r].key]

\* Why AdmissionBound holds: what was let in since any admission, together
\* with what is left in the bucket, is covered by the burst and the rate; and
\* when a bucket is dropped the rate alone covers it.
BucketInv ==
    \A p \in Procs, k \in Keys : \A i \in 1 .. Len(admitted[p][k]) :
        IF k \in buckets[p]
        THEN Scale * (Len(admitted[p][k]) - i + 1) + tokens[p][k]
                 <= Full + Rate * (updated_at[p][k] - admitted[p][k][i])
        ELSE Scale * (Len(admitted[p][k]) - i + 1) <= Rate * (now - admitted[p][k][i])

AuthInv == TypeOK /\ ClockInv /\ CacheInv /\ RevocationBound
Inv == AuthInv /\ BucketInv /\ AdmissionBound

(***************************************************************************)
(* Lemmas.                                                                 *)
(***************************************************************************)

\* A bucket never holds more than the burst (Refilled, consume's min).
LEMMA RefilledType ==
    ASSUME TypeOK, ClockInv, NEW p \in Procs, NEW k \in Keys
    PROVE  /\ Full \in Nat /\ Scale <= Full
           /\ Refilled(p, k) \in 0 .. Full
           /\ k \in buckets[p] =>
                  Refilled(p, k) <= tokens[p][k] + (now - updated_at[p][k]) * Rate
           /\ k \notin buckets[p] => Refilled(p, k) = Full
<1>1. Full \in Nat /\ Scale <= Full
  BY AccessAssumption DEF Full
<1>2. CASE k \in buckets[p]
  <2> DEFINE x == tokens[p][k] + (now - updated_at[p][k]) * Rate
  <2>1. /\ tokens[p][k] \in 0 .. Full
        /\ now - updated_at[p][k] \in Nat
    BY DEF TypeOK, ClockInv
  <2>2. x \in Nat
    BY <2>1, <1>1, AccessAssumption
  <2>3. Refilled(p, k) = Least(Full, x)
    BY <1>2 DEF Refilled
  <2> QED
    BY <1>1, <1>2, <2>2, <2>3 DEF Least
<1>3. CASE k \notin buckets[p]
  BY <1>1, <1>3 DEF Refilled
<1> QED
  BY <1>1, <1>2, <1>3

\* An assignment to one entry of a table with two indices.
LEMMA TableUpdate ==
    ASSUME NEW P, NEW K, NEW S, NEW f \in [P -> [K -> S]],
           NEW p \in P, NEW k \in K, NEW v \in S, NEW g, g = [f EXCEPT ![p][k] = v]
    PROVE  /\ g \in [P -> [K -> S]]
           /\ \A q \in P, j \in K : g[q][j] = IF q = p /\ j = k THEN v ELSE f[q][j]
  OBVIOUS

\* A request that has a program counter other than idle is a Request.
LEMMA RequestType ==
    ASSUME TypeOK, NEW r \in Requests, req[r].pc # "idle"
    PROVE  req[r] \in Request
  BY DEF TypeOK, NoRequest, Request

\* A request moves on and keeps the rest.
LEMMA GotoStep ==
    ASSUME TypeOK, NEW r \in Requests, req[r] \in Request,
           NEW pc \in {"select", "store", "limit", "admitted", "commit"}, Goto(r, pc)
    PROVE  /\ req' \in [Requests -> Request \cup {NoRequest}]
           /\ req'[r] \in Request
           /\ req'[r].pc = pc /\ req'[r].at = req[r].at /\ req'[r].key = req[r].key
           /\ \A q \in Requests : q # r => req'[q] = req[q]
<1>1. req' = [req EXCEPT ![r] = [req[r] EXCEPT !.pc = pc]]
  BY DEF Goto
<1>2. req \in [Requests -> Request \cup {NoRequest}]
  BY DEF TypeOK
<1>3. req'[r] = [req[r] EXCEPT !.pc = pc] /\ \A q \in Requests : q # r => req'[q] = req[q]
  BY <1>1, <1>2
<1>4. /\ [req[r] EXCEPT !.pc = pc] \in Request
      /\ [req[r] EXCEPT !.pc = pc].pc = pc
      /\ [req[r] EXCEPT !.pc = pc].at = req[r].at
      /\ [req[r] EXCEPT !.pc = pc].key = req[r].key
  BY DEF Request
<1> QED
  BY <1>1, <1>2, <1>3, <1>4

\* A request ends.
LEMMA EndStep ==
    ASSUME TypeOK, NEW r \in Requests, End(r)
    PROVE  /\ req' \in [Requests -> Request \cup {NoRequest}]
           /\ req'[r] = NoRequest
           /\ \A q \in Requests : q # r => req'[q] = req[q]
  BY DEF TypeOK, End

\* The constants that clocks are compared with.
LEMMA ConstantTypes == Ttl \in Nat /\ Scale \in Nat \ {0} /\ Rate \in Nat \ {0} /\ Idle \in Nat
  BY AccessAssumption

\* What Store writes into the cache.
LEMMA StoreCache ==
    ASSUME TypeOK, NEW r \in Requests, Store(r)
    PROVE  /\ cache' \in [Procs -> [Keys -> Nat]]
           /\ \A p \in Procs, k \in Keys :
                  \/ cache'[p][k] = cache[p][k]
                  \/ k = req[r].key /\ cache'[p][k] = req[r].at + Ttl
<1>1. req[r] \in Request
  BY RequestType DEF Store
<1>2. req[r].at + Ttl \in Nat /\ req[r].proc \in Procs /\ req[r].key \in Keys
  BY <1>1, ConstantTypes DEF Request
<1>3. cache \in [Procs -> [Keys -> Nat]]
  BY DEF TypeOK
<1>4. CASE Ttl = 0
  BY <1>3, <1>4 DEF Store
<1>5. CASE Ttl # 0
  <2>1. cache' = [cache EXCEPT ![req[r].proc][req[r].key] = req[r].at + Ttl]
    BY <1>5 DEF Store
  <2> QED
    BY <1>2, <1>3, <2>1, TableUpdate
<1> QED
  BY <1>4, <1>5

\* What RevokeKey takes out of the cache.
LEMMA RevokeCache ==
    ASSUME TypeOK, NEW r \in Requests, RevokeKey(r)
    PROVE  /\ cache' \in [Procs -> [Keys -> Nat]]
           /\ \A p \in Procs, k \in Keys : cache'[p][k] \in {0, cache[p][k]}
<1>1. req[r] \in Request
  BY RequestType DEF RevokeKey
<1>2. req[r].proc \in Procs /\ req[r].target \in Keys
  BY <1>1 DEF Request
<1>3. cache \in [Procs -> [Keys -> Nat]] /\ 0 \in Nat
  BY DEF TypeOK
<1>4. cache' = [cache EXCEPT ![req[r].proc][req[r].target] = 0]
  BY DEF RevokeKey
<1> QED
  BY <1>2, <1>3, <1>4, TableUpdate

(***************************************************************************)
(* Types and clocks.                                                       *)
(***************************************************************************)

\* Every step keeps the types and leaves nothing in the future.
LEMMA TypeStep ==
    ASSUME TypeOK, ClockInv, [Next]_vars
    PROVE  TypeOK' /\ ClockInv'
<1> USE ConstantTypes
<1>1. CASE UNCHANGED vars
  BY <1>1 DEF vars, TypeOK, ClockInv
<1>2. CASE Tick
  <2>1. now' = now + 1 /\ UNCHANGED <<status, since, cache, buckets, tokens, updated_at, admitted, req>>
    BY <1>2 DEF Tick, table, limiter
  <2>2. TypeOK'
    BY <2>1 DEF TypeOK
  <2>3. \A r \in Requests : req[r] # NoRequest => req[r].at \in Nat
    BY DEF TypeOK, Request
  <2> QED
    BY <2>1, <2>2, <2>3 DEF TypeOK, ClockInv
<1>3. ASSUME NEW r \in Requests, NEW p \in Procs, NEW k \in Keys, NEW call \in Calls,
             NEW t \in Keys, Arrive(r, p, k, call, t)
      PROVE  TypeOK' /\ ClockInv'
  <2>1. req'[r] \in Request /\ req'[r].at = now
    BY <1>3 DEF Arrive, TypeOK, Request
  <2>2. UNCHANGED <<now, status, since, cache, buckets, tokens, updated_at, admitted>>
    BY <1>3 DEF Arrive, table, limiter
  <2> DEFINE new == [pc |-> IF cache[p][k] > now THEN "limit" ELSE "select",
                     proc |-> p, key |-> k, call |-> call, target |-> t, at |-> now]
  <2>3. req' = [req EXCEPT ![r] = new] /\ req'[r] = new
    BY <1>3 DEF Arrive, TypeOK
  <2> HIDE DEF new
  <2>4. TypeOK'
    BY <2>1, <2>2, <2>3 DEF TypeOK
  <2>5. ClockInv'
    BY <2>1, <2>2, <2>3 DEF TypeOK, ClockInv
  <2> QED
    BY <2>4, <2>5
<1>4. ASSUME NEW r \in Requests, Select(r)
      PROVE  TypeOK' /\ ClockInv'
  <2>1. req[r] \in Request /\ req[r] # NoRequest
    BY <1>4, RequestType DEF Select, NoRequest
  <2>2. UNCHANGED <<now, status, since, cache, buckets, tokens, updated_at, admitted>>
    BY <1>4 DEF Select, table, limiter
  <2>3. CASE Goto(r, "store")
    BY <2>1, <2>2, <2>3, GotoStep DEF TypeOK, ClockInv
  <2>4. CASE End(r)
    BY <2>2, <2>4, EndStep DEF TypeOK, ClockInv
  <2> QED
    BY <1>4, <2>3, <2>4 DEF Select
<1>5. ASSUME NEW r \in Requests, Store(r)
      PROVE  TypeOK' /\ ClockInv'
  <2>1. req[r] \in Request /\ req[r] # NoRequest
    BY <1>5, RequestType DEF Store, NoRequest
  <2>2. UNCHANGED <<now, status, since, buckets, tokens, updated_at, admitted>> /\ Goto(r, "limit")
    BY <1>5 DEF Store, table, limiter
  <2>3. cache' \in [Procs -> [Keys -> Nat]] /\ \A p \in Procs, k \in Keys : cache'[p][k] <= now + Ttl
    <3>1. SUFFICES ASSUME NEW p \in Procs, NEW k \in Keys
                   PROVE  cache' \in [Procs -> [Keys -> Nat]] /\ cache'[p][k] <= now + Ttl
      BY StoreCache, <1>5
    <3>2. now \in Nat /\ cache[p][k] \in Nat /\ cache[p][k] <= now + Ttl
      BY DEF TypeOK, ClockInv
    <3>3. req[r].at \in Nat /\ req[r].at <= now
      BY <2>1 DEF ClockInv, Request
    <3>4. cache'[p][k] \in {cache[p][k], req[r].at + Ttl}
      BY StoreCache, <1>5
    <3> QED
      BY StoreCache, <1>5, <3>2, <3>3, <3>4
  <2> QED
    BY <2>1, <2>2, <2>3, GotoStep DEF TypeOK, ClockInv
<1>6. ASSUME NEW r \in Requests, Admit(r)
      PROVE  TypeOK' /\ ClockInv'
  <2> DEFINE p == req[r].proc
             k == req[r].key
  <2>1. req[r] \in Request /\ req[r] # NoRequest
    BY <1>6, RequestType DEF Admit, NoRequest
  <2>2. p \in Procs /\ k \in Keys
    BY <2>1 DEF Request
  <2>3. UNCHANGED <<now, status, since, cache>> /\ Goto(r, "admitted")
    BY <1>6 DEF Admit, table
  <2>4. Refilled(p, k) - Scale \in 0 .. Full
    <3>1. Refilled(p, k) \in 0 .. Full /\ Refilled(p, k) >= Scale
      BY <1>6, <2>2, RefilledType DEF Admit
    <3>2. Full \in Nat
      BY AccessAssumption DEF Full
    <3> HIDE DEF p, k
    <3> QED BY <3>1, <3>2
  <2>5. tokens' \in [Procs -> [Keys -> 0 .. Full]]
    BY <1>6, <2>2, <2>4 DEF Admit, TypeOK
  <2>6. updated_at' \in [Procs -> [Keys -> Nat]] /\ \A q \in Procs, j \in Keys : updated_at'[q][j] <= now
    BY <1>6, <2>2 DEF Admit, TypeOK, ClockInv
  <2>7. Kept(p, k) \subseteq Keys
    BY <2>2 DEF Kept, TypeOK
  <2>8. buckets' \in [Procs -> SUBSET Keys]
    BY <1>6, <2>2, <2>7 DEF Admit, TypeOK
  <2>9. admitted' \in [Procs -> [Keys -> Seq(Nat)]]
    <3>1. Append(admitted[p][k], now) \in Seq(Nat)
      BY <2>2 DEF TypeOK
    <3> QED
      BY <1>6, <2>2, <3>1 DEF Admit, TypeOK
  <2>10. TypeOK'
    BY <2>1, <2>3, <2>5, <2>6, <2>8, <2>9, GotoStep DEF TypeOK
  <2>11. ClockInv'
    BY <2>1, <2>3, <2>6, GotoStep DEF ClockInv
  <2> QED
    BY <2>10, <2>11
<1>7. ASSUME NEW r \in Requests, Refuse(r)
      PROVE  TypeOK' /\ ClockInv'
  <2> DEFINE p == req[r].proc
             k == req[r].key
  <2>1. req[r] \in Request
    BY <1>7, RequestType DEF Refuse
  <2>2. p \in Procs /\ k \in Keys
    BY <2>1 DEF Request
  <2>3. Refilled(p, k) \in 0 .. Full
    BY <2>2, RefilledType
  <2>4. tokens' \in [Procs -> [Keys -> 0 .. Full]]
    BY <1>7, <2>2, <2>3 DEF Refuse, TypeOK
  <2>5. updated_at' \in [Procs -> [Keys -> Nat]] /\ \A q \in Procs, j \in Keys : updated_at'[q][j] <= now
    BY <1>7, <2>2 DEF Refuse, TypeOK, ClockInv
  <2>6. UNCHANGED <<now, status, since, cache, buckets, admitted>> /\ End(r)
    BY <1>7 DEF Refuse, table
  <2> QED
    BY <2>4, <2>5, <2>6, EndStep DEF TypeOK, ClockInv
<1>8. ASSUME NEW r \in Requests, Respond(r)
      PROVE  TypeOK' /\ ClockInv'
  <2>1. UNCHANGED <<now, status, since, cache, buckets, tokens, updated_at, admitted>> /\ End(r)
    BY <1>8 DEF Respond, table, limiter
  <2> QED
    BY <2>1, EndStep DEF TypeOK, ClockInv
<1>9. ASSUME NEW r \in Requests, CreateKey(r)
      PROVE  TypeOK' /\ ClockInv'
  <2>1. UNCHANGED <<now, since, cache, buckets, tokens, updated_at, admitted>> /\ End(r)
    BY <1>9 DEF CreateKey, limiter
  <2>2. status' \in [Keys -> {"absent", "live", "revoked"}]
    BY <1>9 DEF CreateKey, TypeOK
  <2> QED
    BY <2>1, <2>2, EndStep DEF TypeOK, ClockInv
<1>10. ASSUME NEW r \in Requests, RevokeKey(r)
       PROVE  TypeOK' /\ ClockInv'
  <2>1. req[r] \in Request /\ req[r] # NoRequest
    BY <1>10, RequestType DEF RevokeKey, NoRequest
  <2>2. UNCHANGED <<now, status, since, buckets, tokens, updated_at, admitted>> /\ Goto(r, "commit")
    BY <1>10 DEF RevokeKey, table, limiter
  <2>3. /\ cache' \in [Procs -> [Keys -> Nat]]
        /\ \A p \in Procs, k \in Keys : cache'[p][k] \in {0, cache[p][k]}
    BY RevokeCache, <1>10
  <2>4. \A p \in Procs, k \in Keys : cache'[p][k] <= now + Ttl
    <3>1. now + Ttl \in Nat
      BY DEF TypeOK
    <3> QED
      BY <2>3, <3>1 DEF ClockInv
  <2>5. TypeOK'
    BY <2>1, <2>2, <2>3, GotoStep DEF TypeOK
  <2>6. ClockInv'
    BY <2>1, <2>2, <2>4, GotoStep DEF ClockInv
  <2> QED
    BY <2>5, <2>6
<1>11. ASSUME NEW r \in Requests, RevokeCommit(r)
       PROVE  TypeOK' /\ ClockInv'
  <2>1. UNCHANGED <<now, cache, buckets, tokens, updated_at, admitted>> /\ End(r)
    BY <1>11 DEF RevokeCommit, limiter
  <2>2. /\ status' \in [Keys -> {"absent", "live", "revoked"}]
        /\ since' \in [Keys -> Nat]
        /\ \A k \in Keys : since'[k] <= now
    <3>1. now \in Nat /\ since \in [Keys -> Nat] /\ status \in [Keys -> {"absent", "live", "revoked"}]
      BY DEF TypeOK
    <3>2. since' = since \/ since' = [since EXCEPT ![req[r].target] = now]
      BY <1>11 DEF RevokeCommit
    <3>3. status' = [status EXCEPT ![req[r].target] = "revoked"]
      BY <1>11 DEF RevokeCommit
    <3>4. status' \in [Keys -> {"absent", "live", "revoked"}]
      BY <3>1, <3>3
    <3>5. CASE since' = since
      BY <3>1, <3>4, <3>5 DEF ClockInv
    <3>6. CASE since' = [since EXCEPT ![req[r].target] = now]
      <4>1. \A k \in Keys : since'[k] = IF k = req[r].target THEN now ELSE since[k]
        BY <3>1, <3>6
      <4>2. since' \in [Keys -> Nat]
        BY <3>1, <3>6
      <4> QED
        BY <3>1, <3>4, <4>1, <4>2 DEF ClockInv
    <3> QED
      BY <3>2, <3>5, <3>6
  <2> QED
    BY <2>1, <2>2, EndStep DEF TypeOK, ClockInv
<1> QED
  BY <1>1, <1>2, <1>3, <1>4, <1>5, <1>6, <1>7, <1>8, <1>9, <1>10, <1>11 DEF Next, Step

(***************************************************************************)
(* Revocation.                                                             *)
(***************************************************************************)

\* Requests that keep their place and their key keep what is known of them as
\* long as the table of keys does not change.
AuthRequest(r) ==
    /\ req[r].pc = "store" /\ status[req[r].key] = "revoked" => req[r].at <= since[req[r].key]
    /\ req[r].pc \in {"limit", "admitted", "commit"} /\ status[req[r].key] = "revoked"
           => req[r].at <= since[req[r].key] \/ req[r].at < since[req[r].key] + Ttl

\* No step lets a revoked key live longer than Ttl.
LEMMA AuthStep ==
    ASSUME AuthInv, [Next]_vars
    PROVE  CacheInv' /\ RevocationBound'
<1> USE ConstantTypes
<1> DEFINE CacheOK == \A p \in Procs, k \in Keys : status[k] = "revoked" => cache[p][k] <= since[k] + Ttl
<1>0. SUFFICES CacheOK' /\ \A q \in Requests : AuthRequest(q)'
  BY DEF CacheInv, RevocationBound, AuthRequest
<1>a. CacheOK /\ \A q \in Requests : AuthRequest(q)
  BY DEF AuthInv, CacheInv, RevocationBound, AuthRequest
<1>b. TypeOK /\ ClockInv
  BY DEF AuthInv
<1>c. ASSUME UNCHANGED <<status, since, cache>>
      PROVE  CacheOK'
  BY <1>a, <1>c
<1>d. ASSUME NEW q \in Requests, UNCHANGED <<status, since>>, req'[q] = req[q]
      PROVE  AuthRequest(q)'
  BY <1>a, <1>d DEF AuthRequest
<1>e. ASSUME NEW q \in Requests, req'[q] = NoRequest
      PROVE  AuthRequest(q)'
  BY <1>e DEF AuthRequest, NoRequest
<1>1. CASE UNCHANGED vars
  BY <1>1, <1>c, <1>d DEF vars
<1>2. CASE Tick
  BY <1>2, <1>c, <1>d DEF Tick, table
<1>3. ASSUME NEW r \in Requests, NEW p \in Procs, NEW k \in Keys, NEW call \in Calls,
             NEW t \in Keys, Arrive(r, p, k, call, t)
      PROVE  CacheOK' /\ \A q \in Requests : AuthRequest(q)'
  <2>1. UNCHANGED <<status, since, cache>> /\ \A q \in Requests : q # r => req'[q] = req[q]
    BY <1>3, <1>b DEF Arrive, table, TypeOK
  <2>2. /\ req'[r].key = k /\ req'[r].at = now
        /\ req'[r].pc = IF cache[p][k] > now THEN "limit" ELSE "select"
    BY <1>3, <1>b DEF Arrive, TypeOK
  <2>3. now \in Nat /\ cache[p][k] \in Nat /\ since[k] \in Nat
    BY <1>b DEF TypeOK
  <2>4. cache[p][k] > now /\ status[k] = "revoked" => now < since[k] + Ttl
    BY <1>a, <2>3
  <2>5. AuthRequest(r)'
    BY <2>1, <2>2, <2>4 DEF AuthRequest
  <2> QED
    BY <1>c, <1>d, <2>1, <2>5
<1>4. ASSUME NEW r \in Requests, Select(r)
      PROVE  CacheOK' /\ \A q \in Requests : AuthRequest(q)'
  <2>1. UNCHANGED <<status, since, cache>>
    BY <1>4 DEF Select, table
  <2>2. req[r] \in Request
    BY <1>b, <1>4, RequestType DEF Select
  <2>3. CASE status[req[r].key] = "live"
    <3>1. Goto(r, "store")
      BY <1>4, <2>3 DEF Select
    <3>2. req'[r].pc = "store" /\ req'[r].key = req[r].key /\ \A q \in Requests : q # r => req'[q] = req[q]
      BY <1>b, <2>2, <3>1, GotoStep
    <3>3. AuthRequest(r)'
      BY <2>1, <2>3, <3>2 DEF AuthRequest
    <3> QED
      BY <1>c, <1>d, <2>1, <3>2, <3>3
  <2>4. CASE status[req[r].key] # "live"
    BY <1>b, <1>c, <1>d, <1>e, <1>4, <2>1, <2>4, EndStep DEF Select
  <2> QED
    BY <2>3, <2>4
<1>5. ASSUME NEW r \in Requests, Store(r)
      PROVE  CacheOK' /\ \A q \in Requests : AuthRequest(q)'
  <2>1. UNCHANGED <<status, since>> /\ Goto(r, "limit") /\ req[r].pc = "store"
    BY <1>5 DEF Store, table
  <2>2. req[r] \in Request
    BY <1>b, <2>1, RequestType
  <2>3. req[r].at \in Nat /\ req[r].key \in Keys
    BY <2>2 DEF Request
  <2>4. status[req[r].key] = "revoked" => req[r].at <= since[req[r].key]
    BY <1>a, <2>1 DEF AuthRequest
  <2>5. /\ req'[r].pc = "limit" /\ req'[r].key = req[r].key /\ req'[r].at = req[r].at
        /\ \A q \in Requests : q # r => req'[q] = req[q]
    BY <1>b, <2>1, <2>2, GotoStep
  <2>6. AuthRequest(r)'
    BY <2>1, <2>4, <2>5 DEF AuthRequest
  <2>7. CacheOK'
    <3>1. SUFFICES ASSUME NEW p \in Procs, NEW k \in Keys, status[k] = "revoked"
                   PROVE  cache'[p][k] <= since[k] + Ttl
      BY <2>1
    <3>2. since[k] \in Nat
      BY <1>b DEF TypeOK
    <3>3. CASE cache'[p][k] = cache[p][k]
      BY <1>a, <3>1, <3>3
    <3>4. CASE k = req[r].key /\ cache'[p][k] = req[r].at + Ttl
      BY <2>3, <2>4, <3>1, <3>2, <3>4
    <3> QED
      BY <1>b, <1>5, <3>3, <3>4, StoreCache
  <2> QED
    BY <1>d, <2>1, <2>5, <2>6, <2>7
<1>6. ASSUME NEW r \in Requests, Admit(r)
      PROVE  CacheOK' /\ \A q \in Requests : AuthRequest(q)'
  <2>1. UNCHANGED <<status, since, cache>> /\ Goto(r, "admitted") /\ req[r].pc = "limit"
    BY <1>6 DEF Admit, table
  <2>2. req[r] \in Request
    BY <1>b, <2>1, RequestType
  <2>3. /\ req'[r].pc = "admitted" /\ req'[r].key = req[r].key /\ req'[r].at = req[r].at
        /\ \A q \in Requests : q # r => req'[q] = req[q]
    BY <1>b, <2>1, <2>2, GotoStep
  <2>4. AuthRequest(r)'
    BY <1>a, <2>1, <2>3 DEF AuthRequest
  <2> QED
    BY <1>c, <1>d, <2>1, <2>3, <2>4
<1>7. ASSUME NEW r \in Requests, Refuse(r) \/ Respond(r)
      PROVE  CacheOK' /\ \A q \in Requests : AuthRequest(q)'
  <2>1. UNCHANGED <<status, since, cache>> /\ End(r)
    BY <1>7 DEF Refuse, Respond, table
  <2> QED
    BY <1>b, <1>c, <1>d, <1>e, <2>1, EndStep
<1>8. ASSUME NEW r \in Requests, CreateKey(r)
      PROVE  CacheOK' /\ \A q \in Requests : AuthRequest(q)'
  <2>1. UNCHANGED <<since, cache>> /\ End(r)
    BY <1>8 DEF CreateKey
  <2>2. \A k : status'[k] = "revoked" => status[k] = "revoked"
    BY <1>b, <1>8 DEF CreateKey, TypeOK
  <2>3. \A q \in Requests : q # r => req'[q] = req[q]
    BY <1>b, <2>1, EndStep
  <2>4. \A q \in Requests : q # r => AuthRequest(q)'
    BY <1>a, <2>1, <2>2, <2>3 DEF AuthRequest
  <2> QED
    BY <1>a, <1>b, <1>e, <2>1, <2>2, <2>4, EndStep
<1>9. ASSUME NEW r \in Requests, RevokeKey(r)
      PROVE  CacheOK' /\ \A q \in Requests : AuthRequest(q)'
  <2>1. UNCHANGED <<status, since>> /\ Goto(r, "commit") /\ req[r].pc = "admitted"
    BY <1>9 DEF RevokeKey, table
  <2>2. req[r] \in Request
    BY <1>b, <2>1, RequestType
  <2>3. /\ req'[r].pc = "commit" /\ req'[r].key = req[r].key /\ req'[r].at = req[r].at
        /\ \A q \in Requests : q # r => req'[q] = req[q]
    BY <1>b, <2>1, <2>2, GotoStep
  <2>4. AuthRequest(r)'
    BY <1>a, <2>1, <2>3 DEF AuthRequest
  <2>5. CacheOK'
    <3>1. SUFFICES ASSUME NEW p \in Procs, NEW k \in Keys, status[k] = "revoked"
                   PROVE  cache'[p][k] <= since[k] + Ttl
      BY <2>1
    <3>2. since[k] + Ttl \in Nat
      BY <1>b DEF TypeOK
    <3>3. cache'[p][k] \in {0, cache[p][k]}
      BY <1>b, <1>9, RevokeCache
    <3> QED
      BY <1>a, <3>1, <3>2, <3>3
  <2> QED
    BY <1>d, <2>1, <2>3, <2>4, <2>5
<1>10. ASSUME NEW r \in Requests, RevokeCommit(r)
       PROVE  CacheOK' /\ \A q \in Requests : AuthRequest(q)'
  <2> DEFINE t == req[r].target
  <2>1. UNCHANGED <<now, cache>> /\ End(r)
    BY <1>10 DEF RevokeCommit
  <2>2. req[r] \in Request
    BY <1>b, <1>10, RequestType DEF RevokeCommit
  <2>3. t \in Keys /\ now \in Nat
    BY <1>b, <2>2 DEF TypeOK, Request
  <2>4. \A k \in Keys : status'[k] = "revoked" =>
            \/ status[k] = "revoked" /\ since'[k] = since[k]
            \/ since'[k] = now
    BY <1>b, <1>10, <2>3 DEF RevokeCommit, TypeOK
  <2>5. CacheOK'
    <3>1. SUFFICES ASSUME NEW p \in Procs, NEW k \in Keys, status'[k] = "revoked"
                   PROVE  cache[p][k] <= since'[k] + Ttl
      BY <2>1
    <3>2. cache[p][k] <= now + Ttl
      BY <1>b DEF ClockInv
    <3> QED
      BY <1>a, <2>4, <3>1, <3>2
  <2>6. ASSUME NEW q \in Requests, q # r
        PROVE  AuthRequest(q)'
    <3>1. req'[q] = req[q]
      BY <1>b, <2>1, <2>6, EndStep
    <3>2. CASE req[q] = NoRequest
      BY <1>e, <3>1, <3>2
    <3>3. CASE req[q] # NoRequest
      <4>1. req[q].key \in Keys /\ req[q].at <= now
        BY <1>b, <3>3 DEF TypeOK, ClockInv, Request
      <4> QED
        BY <1>a, <2>4, <3>1, <4>1 DEF AuthRequest
    <3> QED
      BY <3>2, <3>3
  <2> QED
    BY <1>b, <1>e, <2>1, <2>5, <2>6, EndStep
<1> QED
  BY <1>1, <1>2, <1>3, <1>4, <1>5, <1>6, <1>7, <1>8, <1>9, <1>10 DEF Next, Step

(***************************************************************************)
(* The rate limiter.                                                       *)
(***************************************************************************)

\* The sums of one bucket.
BucketOK(p, k) ==
    \A i \in 1 .. Len(admitted[p][k]) :
        IF k \in buckets[p]
        THEN Scale * (Len(admitted[p][k]) - i + 1) + tokens[p][k]
                 <= Full + Rate * (updated_at[p][k] - admitted[p][k][i])
        ELSE Scale * (Len(admitted[p][k]) - i + 1) <= Rate * (now - admitted[p][k][i])

\* The bound on one bucket's admissions.
AdmissionsOK(p, k) ==
    \A i, j \in DOMAIN admitted[p][k] :
        i <= j => Scale * (j - i + 1) <= Full + Rate * (admitted[p][k][j] - admitted[p][k][i])

\* Multiplication, for the products of the settings with times and counts.
LEMMA Times ==
    /\ \A a, b \in Int : a * b \in Int /\ a * b = b * a
    /\ \A a, b, c \in Int : a * (b + c) = a * b + a * c
    /\ \A a, b \in Nat : a * b \in Nat
  OBVIOUS

\* What consume's refill leaves: admissions since i and the refilled bucket are
\* covered by the burst and the time up to now, whether the bucket is there or
\* is made anew.
LEMMA Covered ==
    ASSUME TypeOK, ClockInv, NEW p \in Procs, NEW k \in Keys, BucketOK(p, k),
           NEW i \in 1 .. Len(admitted[p][k])
    PROVE  Scale * (Len(admitted[p][k]) - i + 1) + Refilled(p, k)
               <= Full + Rate * (now - admitted[p][k][i])
<1> DEFINE n == Len(admitted[p][k])
           u == updated_at[p][k]
           x == admitted[p][k][i]
           v == tokens[p][k]
<1>1. n \in Nat /\ u \in Nat /\ x \in Nat /\ now \in Nat /\ v \in Nat /\ i \in Nat /\ i <= n
  BY DEF TypeOK
<1>2. Full \in Nat /\ Refilled(p, k) \in 0 .. Full
  BY RefilledType
<1> DEFINE A == Scale * (n - i + 1)
           B == Rate * (u - x)
           C == Rate * (now - u)
           D == Rate * (now - x)
           R == Refilled(p, k)
<1>3. A \in Int /\ B \in Int /\ C \in Int /\ D \in Int /\ R \in Int
  <2>1. n - i + 1 \in Int /\ u - x \in Int /\ now - u \in Int /\ now - x \in Int
        /\ Scale \in Int /\ Rate \in Int
    BY <1>1, ConstantTypes
  <2> HIDE DEF n, u, x
  <2> QED
    BY <1>2, <2>1, Times
<1>4. D = B + C
  <2> HIDE DEF n, u, x
  <2>1. now - x = (u - x) + (now - u) /\ u - x \in Int /\ now - u \in Int /\ Rate \in Int
    BY <1>1, ConstantTypes
  <2> QED
    BY <2>1, Times
<1>5. CASE k \in buckets[p]
  <2>1. A + v <= Full + B
    BY <1>5 DEF BucketOK
  <2>2. R <= v + (now - u) * Rate
    BY <1>5, RefilledType
  <2>3. (now - u) * Rate = C
    <3>1. now - u \in Int /\ Rate \in Int
      BY <1>1, ConstantTypes
    <3> HIDE DEF u
    <3> QED
      BY <3>1, Times
  <2>4. R <= v + C
    BY <2>2, <2>3
  <2> HIDE DEF A, B, C, D, R, v, n, u, x
  <2>5. A + R <= Full + D
    BY <1>1, <1>2, <1>3, <1>4, <2>1, <2>4
  <2> QED
    BY <2>5 DEF A, D, R, n, x
<1>6. CASE k \notin buckets[p]
  <2>1. A <= D
    BY <1>6 DEF BucketOK
  <2>2. R = Full
    BY <1>6, RefilledType
  <2> HIDE DEF A, B, C, D, R, v, n, u, x
  <2>3. A + R <= Full + D
    BY <1>2, <1>3, <2>1, <2>2
  <2> QED
    BY <2>3 DEF A, D, R, n, x
<1> QED
  BY <1>5, <1>6

\* A bucket that has been idle long enough to be dropped has been refilled.
LEMMA Dropped ==
    ASSUME TypeOK, NEW p \in Procs, NEW k \in Keys, BucketOK(p, k), k \in buckets[p],
           updated_at[p][k] + Idle < now, NEW i \in 1 .. Len(admitted[p][k])
    PROVE  Scale * (Len(admitted[p][k]) - i + 1) <= Rate * (now - admitted[p][k][i])
<1> DEFINE n == Len(admitted[p][k])
           u == updated_at[p][k]
           x == admitted[p][k][i]
           v == tokens[p][k]
<1>1. n \in Nat /\ u \in Nat /\ x \in Nat /\ now \in Nat /\ v \in Nat /\ i \in Nat /\ i <= n
  BY DEF TypeOK
<1>2. Full \in Nat /\ Full <= Rate * Idle
  BY AccessAssumption DEF Full
<1>3. Scale * (n - i + 1) + v <= Full + Rate * (u - x)
  BY DEF BucketOK
<1> DEFINE A == Scale * (n - i + 1)
           B == Rate * (u - x)
           D == Rate * (now - x)
           G == Rate * (now - u - Idle)
           H == Rate * Idle
<1>a. u + Idle < now
  OBVIOUS
<1>4. A \in Int /\ B \in Int /\ D \in Int /\ G \in Nat /\ H \in Int
  <2> HIDE DEF n, u, x
  <2>1. n - i + 1 \in Int /\ u - x \in Int /\ now - u - Idle \in Nat /\ now - x \in Int
        /\ Scale \in Int /\ Rate \in Nat /\ Idle \in Nat
    BY <1>1, <1>a, ConstantTypes
  <2> QED
    BY <2>1, Times
<1>5. D = B + (H + G)
  <2> HIDE DEF u, x
  <2>1. now - x = (u - x) + (Idle + (now - u - Idle)) /\ u - x \in Int /\ now - u - Idle \in Int
        /\ Rate \in Int /\ Idle \in Int
    BY <1>1, ConstantTypes
  <2>2. Rate * (Idle + (now - u - Idle)) = H + G
    BY <2>1, Times
  <2>3. Rate * ((u - x) + (Idle + (now - u - Idle))) = B + Rate * (Idle + (now - u - Idle))
    <3>1. Idle + (now - u - Idle) \in Int
      BY <2>1
    <3> QED
      BY <2>1, <3>1, Times
  <2> QED
    BY <2>1, <2>2, <2>3
<1>6. A + v <= Full + B /\ Full <= H
  BY <1>2, <1>3
<1> HIDE DEF A, B, D, G, H, n, u, x, v
<1>7. A <= D
  BY <1>1, <1>2, <1>4, <1>5, <1>6
<1> QED
  BY <1>7 DEF A, D, n, x

\* Time that passes brings more.
LEMMA Later ==
    ASSUME NEW a \in Int, NEW x \in Nat, NEW t \in Nat, a <= Rate * (t - x)
    PROVE  a <= Rate * (t + 1 - x)
<1>1. t + 1 - x = (t - x) + 1 /\ t - x \in Int /\ 1 \in Int /\ Rate \in Int
  BY ConstantTypes
<1>2. Rate * (t + 1 - x) = Rate * (t - x) + Rate * 1 /\ Rate * (t - x) \in Int
  BY <1>1, Times
<1>3. Rate * 1 = Rate /\ Rate \in Nat
  BY ConstantTypes
<1> QED
  BY <1>2, <1>3

\* A bucket that no field of changes keeps its sums.
LEMMA BucketUnchanged ==
    ASSUME NEW p \in Procs, NEW k \in Keys, BucketOK(p, k), now' = now,
           admitted'[p][k] = admitted[p][k], tokens'[p][k] = tokens[p][k],
           updated_at'[p][k] = updated_at[p][k], k \in buckets'[p] <=> k \in buckets[p]
    PROVE  BucketOK(p, k)'
  BY DEF BucketOK

\* The bucket and the admissions of a request that is let in.
LEMMA Admitted ==
    ASSUME TypeOK, ClockInv, NEW p \in Procs, NEW k \in Keys, BucketOK(p, k), AdmissionsOK(p, k),
           admitted'[p][k] = Append(admitted[p][k], now), k \in buckets'[p],
           tokens'[p][k] = Refilled(p, k) - Scale, updated_at'[p][k] = now,
           Scale <= Refilled(p, k)
    PROVE  BucketOK(p, k)' /\ AdmissionsOK(p, k)'
<1> DEFINE L == admitted[p][k]
           n == Len(L)
           M == Append(L, now)
           R == Refilled(p, k)
<1>1. L \in Seq(Nat) /\ now \in Nat
  BY DEF TypeOK
<1>2. /\ n \in Nat /\ M \in Seq(Nat) /\ Len(M) = n + 1 /\ DOMAIN L = 1 .. n /\ DOMAIN M = 1 .. n + 1
      /\ M[n + 1] = now
      /\ \A i \in 1 .. n : M[i] = L[i] /\ L[i] \in Nat
      /\ \A i \in 1 .. n + 1 : M[i] \in Nat
  <2> HIDE DEF L
  <2> QED
    BY <1>1
<1>3. Full \in Nat /\ R \in 0 .. Full /\ Scale \in Nat /\ Rate \in Nat
  BY RefilledType, ConstantTypes
<1>4. \A i \in 1 .. n : Scale * (n - i + 1) + R <= Full + Rate * (now - L[i])
  BY Covered
<1>5. \A i \in 1 .. n + 1 : Scale * (n + 1 - i + 1) + (R - Scale) <= Full + Rate * (now - M[i])
  <2> SUFFICES ASSUME NEW i \in 1 .. n + 1
               PROVE  Scale * (n + 1 - i + 1) + (R - Scale) <= Full + Rate * (now - M[i])
    OBVIOUS
  <2> HIDE DEF R, n, L, M
  <2>1. /\ n + 1 - i + 1 = (n - i + 1) + 1 /\ n - i + 1 \in Int /\ 1 \in Int /\ Scale \in Int
        /\ i \in Int
    BY <1>2, <1>3
  <2>2. Scale * (n + 1 - i + 1) = Scale * (n - i + 1) + Scale * 1 /\ Scale * (n - i + 1) \in Int
    <3> DEFINE e == n - i + 1
    <3>1. e \in Int /\ n + 1 - i + 1 = e + 1
      BY <2>1
    <3> HIDE DEF e
    <3>2. Scale * (e + 1) = Scale * e + Scale * 1 /\ Scale * e \in Int
      BY <2>1, <3>1, Times
    <3>3. Scale * (n + 1 - i + 1) = Scale * e + Scale * 1
      BY <3>1, <3>2
    <3> QED
      BY <3>2, <3>3 DEF e
  <2>3. Scale * 1 = Scale /\ Rate * 0 = 0 /\ Scale * 0 = 0
    <3>1. \A a \in Int : a * 1 = a /\ a * 0 = 0
      OBVIOUS
    <3>2. Scale \in Int /\ Rate \in Int
      BY <1>3
    <3> QED
      BY <3>1, <3>2
  <2>4. Scale * (n + 1 - i + 1) + (R - Scale) = Scale * (n - i + 1) + R
    BY <1>3, <2>2, <2>3
  <2>5. CASE i = n + 1
    <3>1. n - i + 1 = 0 /\ now - M[i] = 0
      BY <1>1, <1>2, <2>5
    <3> QED
      BY <1>3, <2>3, <2>4, <3>1
  <2>6. CASE i # n + 1
    <3>1. i \in 1 .. n
      BY <1>2, <2>6
    <3>2. Scale * (n - i + 1) + R <= Full + Rate * (now - L[i]) /\ M[i] = L[i]
      BY <1>2, <1>4, <3>1
    <3> QED
      BY <2>4, <3>2
  <2> QED
    BY <2>5, <2>6
<1>6. BucketOK(p, k)'
  BY <1>2, <1>5 DEF BucketOK, Full
<1>7. AdmissionsOK(p, k)'
  <2> SUFFICES ASSUME NEW i \in 1 .. n + 1, NEW j \in 1 .. n + 1, i <= j
               PROVE  Scale * (j - i + 1) <= Full + Rate * (M[j] - M[i])
    BY <1>2 DEF AdmissionsOK, Full
  <2>1. CASE j = n + 1
    <3>1. Scale * (n + 1 - i + 1) + (R - Scale) <= Full + Rate * (now - M[i])
      BY <1>5
    <3>2. Scale * (n + 1 - i + 1) \in Int /\ Rate * (now - M[i]) \in Int
      <4> HIDE DEF n, M
      <4>1. n + 1 - i + 1 \in Int /\ now - M[i] \in Int /\ Scale \in Int /\ Rate \in Int
        BY <1>1, <1>2, <1>3
      <4> QED
        BY <4>1, Times
    <3>3. R - Scale \in Nat
      BY <1>3
    <3>4. M[j] = now
      BY <1>2, <2>1
    <3> DEFINE A == Scale * (n + 1 - i + 1)
               B == Rate * (now - M[i])
               D == R - Scale
    <3>5. A + D <= Full + B /\ A \in Int /\ B \in Int /\ D \in Nat
      BY <3>1, <3>2, <3>3
    <3>6. Scale * (j - i + 1) = A /\ Rate * (M[j] - M[i]) = B
      BY <2>1, <3>4
    <3> HIDE DEF A, B, D, n, M, R
    <3>7. A <= Full + B
      BY <1>3, <3>5
    <3> QED
      BY <3>6, <3>7
  <2>2. CASE j # n + 1
    <3>1. i \in 1 .. n /\ j \in 1 .. n
      <4> HIDE DEF n
      <4> QED
        BY <1>2, <2>2
    <3>2. Scale * (j - i + 1) <= Full + Rate * (L[j] - L[i])
      BY <1>2, <3>1 DEF AdmissionsOK
    <3>3. M[i] = L[i] /\ M[j] = L[j]
      BY <1>2, <3>1
    <3> HIDE DEF L, M
    <3> QED
      BY <3>2, <3>3
  <2> QED
    BY <2>1, <2>2
<1> QED
  BY <1>6, <1>7

\* No step lets a bucket give more than the burst and the rate.
LEMMA LimitStep ==
    ASSUME TypeOK, ClockInv, BucketInv, AdmissionBound, [Next]_vars
    PROVE  BucketInv' /\ AdmissionBound'
<1>0. \A p \in Procs, k \in Keys : BucketOK(p, k) /\ AdmissionsOK(p, k)
  BY DEF BucketInv, AdmissionBound, BucketOK, AdmissionsOK
<1> SUFFICES ASSUME NEW q \in Procs, NEW j \in Keys
             PROVE  BucketOK(q, j)' /\ AdmissionsOK(q, j)'
  BY DEF BucketInv, AdmissionBound, BucketOK, AdmissionsOK
<1>a. BucketOK(q, j) /\ AdmissionsOK(q, j)
  BY <1>0
<1>b. ASSUME admitted'[q][j] = admitted[q][j]
      PROVE  AdmissionsOK(q, j)'
  BY <1>a, <1>b DEF AdmissionsOK
<1>c. ASSUME UNCHANGED <<now, buckets, tokens, updated_at, admitted>>
      PROVE  BucketOK(q, j)' /\ AdmissionsOK(q, j)'
  BY <1>a, <1>b, <1>c, BucketUnchanged
<1>1. CASE UNCHANGED vars
  BY <1>1, <1>c DEF vars
<1>2. CASE Tick
  <2>1. now' = now + 1 /\ UNCHANGED <<buckets, tokens, updated_at, admitted>>
    BY <1>2 DEF Tick, limiter
  <2>2. CASE j \in buckets[q]
    BY <1>a, <2>1, <2>2, <1>b DEF BucketOK
  <2>3. CASE j \notin buckets[q]
    <3>1. SUFFICES ASSUME NEW i \in 1 .. Len(admitted[q][j])
                   PROVE  Scale * (Len(admitted[q][j]) - i + 1) <= Rate * (now' - admitted[q][j][i])
      <4>1. UNCHANGED <<buckets, admitted>>
        BY <2>1
      <4> QED
        BY <1>b, <2>3, <4>1 DEF BucketOK
    <3> DEFINE A == Scale * (Len(admitted[q][j]) - i + 1)
               x == admitted[q][j][i]
    <3>2. Len(admitted[q][j]) \in Nat /\ x \in Nat /\ now \in Nat
      BY DEF TypeOK
    <3>3. A \in Int
      <4>1. Len(admitted[q][j]) - i + 1 \in Int /\ Scale \in Int
        BY <3>2, ConstantTypes
      <4> QED
        BY <4>1, Times
    <3>4. A <= Rate * (now - x)
      BY <1>a, <2>3 DEF BucketOK
    <3> HIDE DEF A, x
    <3>5. A <= Rate * (now' - x)
      BY <2>1, <3>2, <3>3, <3>4, Later
    <3> QED
      BY <3>5 DEF A, x
  <2> QED
    BY <2>2, <2>3
<1>3. ASSUME NEW r \in Requests, Admit(r)
      PROVE  BucketOK(q, j)' /\ AdmissionsOK(q, j)'
  <2> DEFINE p == req[r].proc
             k == req[r].key
  <2>1. req[r] \in Request
    BY <1>3, RequestType DEF Admit
  <2>2. p \in Procs /\ k \in Keys
    BY <2>1 DEF Request
  <2>3. /\ now' = now
        /\ Scale <= Refilled(p, k)
        /\ tokens' = [tokens EXCEPT ![p][k] = Refilled(p, k) - Scale]
        /\ updated_at' = [updated_at EXCEPT ![p][k] = now]
        /\ buckets' = [buckets EXCEPT ![p] = Kept(p, k)]
        /\ admitted' = [admitted EXCEPT ![p][k] = Append(admitted[p][k], now)]
    <3>1. Refilled(p, k) \in Int /\ Scale \in Int
      BY <2>2, RefilledType, ConstantTypes
    <3> QED
      BY <1>3, <3>1 DEF Admit
  <2> HIDE DEF p, k
  <2>4. k \in Kept(p, k) /\ Kept(p, k) \subseteq buckets[p] \cup {k}
    BY DEF Kept
  <2>5. CASE q = p /\ j = k
    <3>1. k \in buckets'[p]
      BY <2>2, <2>3, <2>4 DEF TypeOK
    <3>2. tokens'[p][k] = Refilled(p, k) - Scale /\ updated_at'[p][k] = now
      BY <2>2, <2>3 DEF TypeOK
    <3>3. admitted'[p][k] = Append(admitted[p][k], now)
      BY <2>2, <2>3 DEF TypeOK
    <3>4. BucketOK(p, k) /\ AdmissionsOK(p, k)
      BY <1>0, <2>2
    <3> QED
      BY <2>2, <2>3, <2>5, <3>1, <3>2, <3>3, <3>4, Admitted
  <2>6. CASE q # p \/ j # k
    <3>1. /\ admitted'[q][j] = admitted[q][j] /\ tokens'[q][j] = tokens[q][j]
          /\ updated_at'[q][j] = updated_at[q][j]
      BY <2>2, <2>3, <2>6 DEF TypeOK
    <3>2. CASE j \in buckets'[q] <=> j \in buckets[q]
      BY <1>a, <1>b, <2>3, <3>1, <3>2, BucketUnchanged
    <3>3. CASE ~(j \in buckets'[q] <=> j \in buckets[q])
      <4>1. q = p
        BY <2>2, <2>3, <3>3 DEF TypeOK
      <4>2. buckets'[p] = Kept(p, k)
        BY <2>2, <2>3 DEF TypeOK
      <4>3. j \in buckets[q] /\ j \notin Kept(p, k) /\ j # k
        BY <2>4, <2>6, <3>3, <4>1, <4>2
      <4>4. ~(updated_at[q][j] + Idle >= now)
        BY <4>1, <4>3 DEF Kept
      <4>5. updated_at[q][j] + Idle < now
        <5>1. updated_at[q][j] \in Nat /\ now \in Nat
          BY DEF TypeOK
        <5> QED
          BY <4>4, <5>1, ConstantTypes
      <4>6. \A i \in 1 .. Len(admitted[q][j]) :
                Scale * (Len(admitted[q][j]) - i + 1) <= Rate * (now - admitted[q][j][i])
        BY <1>a, <4>3, <4>5, Dropped
      <4>7. j \notin buckets'[q]
        BY <4>1, <4>2, <4>3
      <4> QED
        BY <1>b, <2>3, <3>1, <4>6, <4>7 DEF BucketOK
    <3> QED
      BY <3>2, <3>3
  <2> QED
    BY <2>5, <2>6
<1>4. ASSUME NEW r \in Requests, Refuse(r)
      PROVE  BucketOK(q, j)' /\ AdmissionsOK(q, j)'
  <2> DEFINE p == req[r].proc
             k == req[r].key
  <2>1. req[r] \in Request
    BY <1>4, RequestType DEF Refuse
  <2>2. p \in Procs /\ k \in Keys
    BY <2>1 DEF Request
  <2>3. /\ UNCHANGED <<now, buckets, admitted>>
        /\ Refilled(p, k) < Scale
        /\ tokens' = [tokens EXCEPT ![p][k] = Refilled(p, k)]
        /\ updated_at' = [updated_at EXCEPT ![p][k] = now]
    BY <1>4 DEF Refuse
  <2> HIDE DEF p, k
  <2>4. k \in buckets[p]
    <3>1. Full \in Nat /\ Scale <= Full /\ (k \notin buckets[p] => Refilled(p, k) = Full)
      BY <2>2, RefilledType
    <3> QED
      BY <2>3, <3>1, ConstantTypes
  <2>5. CASE q = p /\ j = k
    <3>1. tokens'[p][k] = Refilled(p, k) /\ updated_at'[p][k] = now
      BY <2>2, <2>3 DEF TypeOK
    <3>2. \A i \in 1 .. Len(admitted[p][k]) :
              Scale * (Len(admitted[p][k]) - i + 1) + Refilled(p, k)
                  <= Full + Rate * (now - admitted[p][k][i])
      BY <1>a, <2>2, <2>5, Covered
    <3> QED
      BY <1>b, <2>3, <2>4, <2>5, <3>1, <3>2 DEF BucketOK, Full
  <2>6. CASE q # p \/ j # k
    <3>1. tokens'[q][j] = tokens[q][j] /\ updated_at'[q][j] = updated_at[q][j]
      BY <2>2, <2>3, <2>6 DEF TypeOK
    <3> QED
      BY <1>a, <1>b, <2>3, <3>1, BucketUnchanged
  <2> QED
    BY <2>5, <2>6
<1>5. ASSUME NEW r \in Requests,
             \/ \E p \in Procs, k \in Keys, call \in Calls, t \in Keys : Arrive(r, p, k, call, t)
             \/ Select(r) \/ Store(r) \/ Respond(r) \/ CreateKey(r) \/ RevokeKey(r) \/ RevokeCommit(r)
      PROVE  BucketOK(q, j)' /\ AdmissionsOK(q, j)'
  <2>1. UNCHANGED <<now, buckets, tokens, updated_at, admitted>>
    BY <1>5 DEF Arrive, Select, Store, Respond, CreateKey, RevokeKey, RevokeCommit, limiter
  <2> QED
    BY <1>c, <2>1
<1> QED
  BY <1>1, <1>2, <1>3, <1>4, <1>5 DEF Next, Step

(***************************************************************************)
(* The theorems.                                                           *)
(***************************************************************************)

\* The invariant holds at the start: no key is cached, no bucket is there.
LEMMA InitInv == Init => Inv
<1> SUFFICES ASSUME Init PROVE Inv
  OBVIOUS
<1>1. TypeOK
  <2>1. 0 \in 0 .. Full
    BY AccessAssumption DEF Full
  <2> QED
    BY <2>1 DEF Init, TypeOK
<1>2. ClockInv
  BY ConstantTypes DEF Init, ClockInv
<1>3. CacheInv /\ RevocationBound
  BY DEF Init, CacheInv, RevocationBound, NoRequest
<1>4. BucketInv /\ AdmissionBound
  BY DEF Init, BucketInv, AdmissionBound
<1> QED
  BY <1>1, <1>2, <1>3, <1>4 DEF Inv, AuthInv

\* The inductive invariant holds in every reachable state.
THEOREM Invariance == Spec => []Inv
<1>1. Init => Inv
  BY InitInv
<1>2. Inv /\ [Next]_vars => Inv'
  BY TypeStep, AuthStep, LimitStep DEF Inv, AuthInv
<1> QED
  BY <1>1, <1>2, PTL DEF Spec

\* A key revoked in any process lets in no request that arrives Ttl seconds or
\* more after the revocation's commit (authenticate, revoke_key).
THEOREM RevocationBounded == Spec => []RevocationBound
<1>1. Inv => RevocationBound
  BY DEF Inv, AuthInv
<1> QED
  BY <1>1, Invariance, PTL

\* Over any stretch of time a process's token bucket for a key lets in at most
\* the burst and what the rate brings (MemoryRateLimiter.consume).
THEOREM AdmissionBounded == Spec => []AdmissionBound
<1>1. Inv => AdmissionBound
  BY DEF Inv
<1> QED
  BY <1>1, Invariance, PTL
=============================================================================
