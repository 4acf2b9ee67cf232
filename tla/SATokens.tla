----------------------------- MODULE SATokens -----------------------------
(***************************************************************************)
(* The guards of POST /platform/keys/exchange: a per-client bucket, the    *)
(* local check of the ServiceAccount token against the cluster's cached    *)
(* JWKS (SATokenVerifier), a global bucket, and the TokenReview the buckets*)
(* protect.  The cluster rotates its ServiceAccount keys, reads of its     *)
(* JWKS take time and fail, and requests overlap.                          *)
(***************************************************************************)
EXTENDS Integers

CONSTANTS Reqs,        \* requests in flight at once
          TTL,         \* saJWKSTTL, in ticks
          MinRefetch,  \* saJWKSMinRefetch
          Timeout,     \* saJWKSFetchTimeout: below MinRefetch
          Burst,       \* of the client's bucket and of the global one
          MaxRotations, MaxFails,
          None

VARIABLES cluster,     \* the keys the cluster publishes; ages of the retired
          jwks,        \* the cached set: keys, generation, age; None before the first
          tried,       \* ticks since the last attempt; None: never
          req,         \* each request: its step, the key its token claims
          client, global,   \* tokens left in the two buckets
          fails

vars == <<cluster, jwks, tried, req, client, global, fails>>

Foreign == 0
Idle == [pc |-> "idle", kid |-> None, age |-> 0, body |-> None]

Horizon == TTL + 1

\* Key n is the newest; retired[k] counts ticks since k left the set.
Init ==
  /\ cluster = [newest |-> 1, keys |-> {1}, retired |-> [k \in 1..MaxRotations + 1 |-> 0]]
  /\ jwks = None /\ tried = None
  /\ req = [r \in Reqs |-> Idle]
  /\ client = Burst /\ global = Burst /\ fails = 0

Step(r, rec) == req' = [req EXCEPT ![r] = rec]

------------------------------------------------------------------------------
\* LooksLikeJWS and the aud peek let the request in; AllowClient takes a
\* token of its client's bucket or answers 429.
Enter(r, k) ==
  /\ req[r].pc = "idle" /\ client > 0
  /\ client' = client - 1
  /\ Step(r, [Idle EXCEPT !.pc = "keys", !.kid = k])
  /\ UNCHANGED <<cluster, jwks, tried, global, fails>>

\* As if a cached set were good for ever.
StaleNever == jwks = None

Stale == jwks = None \/ jwks.age >= TTL

\* v.attempted after keysFor: only a fetch stamps it.
Stamp(t, fetches) == IF fetches THEN 0 ELSE t

WantsFetch(k) == Stale \/ k \notin jwks.keys

\* As if the attempt were stamped when the fetch returns.
MayFetchAlways == TRUE

MayFetch == tried = None \/ tried >= MinRefetch

\* keysFor up to its unlock: fetch, or serve what is cached.
keysFor(r) ==
  /\ req[r].pc = "keys"
  /\ LET fetches == WantsFetch(req[r].kid) /\ MayFetch
     IN /\ tried' = Stamp(tried, fetches)
        /\ Step(r, IF fetches THEN [req[r] EXCEPT !.pc = "fetch"]
                   ELSE IF jwks = None THEN Idle               \* ErrSAKeysUnavailable, 503
                   ELSE [req[r] EXCEPT !.pc = "verify", !.body = jwks.keys])
  /\ UNCHANGED <<cluster, jwks, client, global, fails>>

\* The API server's answer, on its way back.
Fetch(r) ==
  /\ req[r].pc = "fetch"
  /\ Step(r, [req[r] EXCEPT !.pc = "store", !.body = [gen |-> cluster.newest, keys |-> cluster.keys]])
  /\ UNCHANGED <<cluster, jwks, tried, client, global, fails>>

\* The answer is cached under the time the attempt began.
StoreKeys(r) ==
  /\ req[r].pc = "store"
  /\ jwks' = [keys |-> req[r].body.keys, gen |-> req[r].body.gen, age |-> req[r].age]
  /\ Step(r, [req[r] EXCEPT !.pc = "verify", !.body = req[r].body.keys])
  /\ UNCHANGED <<cluster, tried, client, global, fails>>

\* An error or the timeout: the cached set is served on, if there is one.
FetchFails(r) ==
  /\ req[r].pc \in {"fetch", "store"} /\ fails < MaxFails
  /\ fails' = fails + 1
  /\ Step(r, IF jwks = None THEN Idle ELSE [req[r] EXCEPT !.pc = "verify", !.body = jwks.keys])
  /\ UNCHANGED <<cluster, jwks, tried, client, global>>

\* The signature verifies with the key of that kid; the kid of a token some
\* other cluster signed is never in the set.
Verify(r) ==
  /\ req[r].pc = "verify"
  /\ Step(r, IF req[r].kid # Foreign /\ req[r].kid \in req[r].body
             THEN [Idle EXCEPT !.pc = "limit", !.kid = req[r].kid]
             ELSE Idle)                                        \* 401
  /\ UNCHANGED <<cluster, jwks, tried, client, global, fails>>

AllowGlobal(r) ==
  /\ req[r].pc = "limit"
  /\ IF global > 0
     THEN global' = global - 1 /\ Step(r, [req[r] EXCEPT !.pc = "review"])
     ELSE global' = global /\ Step(r, Idle)                    \* 429
  /\ UNCHANGED <<cluster, jwks, tried, client, fails>>

\* The TokenReview, and with it the end of the guards; an error is a 503.
TokenReview(r) ==
  /\ req[r].pc = "review"
  /\ Step(r, IF req[r].kid \in cluster.keys THEN [req[r] EXCEPT !.pc = "granted"] ELSE Idle)
  /\ UNCHANGED <<cluster, jwks, tried, client, global, fails>>

\* The rest of the exchange is KeyExchange's.
Answer(r) ==
  /\ req[r].pc = "granted"
  /\ Step(r, Idle)
  /\ UNCHANGED <<cluster, jwks, tried, client, global, fails>>

------------------------------------------------------------------------------
(* The cluster, and the clock.                                              *)

Rotate ==
  /\ cluster.newest <= MaxRotations
  /\ cluster' = [cluster EXCEPT !.newest = @ + 1, !.keys = @ \cup {cluster.newest + 1}]
  /\ UNCHANGED <<jwks, tried, req, client, global, fails>>

Retire ==
  /\ cluster.keys # {cluster.newest}
  /\ cluster' = [cluster EXCEPT !.keys = {cluster.newest}]
  /\ UNCHANGED <<jwks, tried, req, client, global, fails>>

Cap(n, c) == IF n < c THEN n + 1 ELSE c

\* A fetch ends within its timeout; everything else takes less than a tick.
Tick ==
  /\ \A r \in Reqs : /\ req[r].pc \in {"idle", "fetch", "store"}
                     /\ req[r].age < Timeout
  /\ jwks' = IF jwks = None THEN None ELSE [jwks EXCEPT !.age = Cap(@, TTL)]
  /\ tried' = IF tried = None THEN None ELSE Cap(tried, MinRefetch)
  /\ cluster' = [cluster EXCEPT !.retired = [k \in DOMAIN @ |->
                   IF k <= cluster.newest /\ k \notin cluster.keys THEN Cap(@[k], Horizon) ELSE @[k]]]
  /\ req' = [r \in Reqs |-> IF req[r].pc = "idle" THEN req[r] ELSE [req[r] EXCEPT !.age = @ + 1]]
  /\ client' = Burst /\ global' = Burst
  /\ UNCHANGED fails

\* Tokens are signed with a key the cluster has had, or with none of them.
Claims == {Foreign} \cup 1..cluster.newest

Handle(r) == keysFor(r) \/ Fetch(r) \/ StoreKeys(r) \/ Verify(r) \/ AllowGlobal(r) \/ TokenReview(r) \/ Answer(r)

Next ==
  \/ \E r \in Reqs : (\E k \in Claims : Enter(r, k)) \/ Handle(r) \/ FetchFails(r)
  \/ Rotate \/ Retire \/ Tick

Spec == Init /\ [][Next]_vars

------------------------------------------------------------------------------
\* Buckets stay between empty and their burst, a fetch within its timeout.
TypeOK ==
  /\ client \in 0..Burst /\ global \in 0..Burst
  /\ cluster.newest \in cluster.keys
  /\ \A r \in Reqs : req[r].age \in 0..Timeout
  /\ jwks # None => jwks.age \in 0..TTL /\ jwks.gen <= cluster.newest

\* A slow answer never puts an older key set over a newer one, although the
\* lock does not cover the fetch (keysFor stamps the attempt before it
\* unlocks, and a fetch is shorter than the time between attempts).
KeysOnlyAdvance == jwks # None => jwks'.gen >= jwks.gen

\* A TokenReview is spent only on a token signed with a key of the cluster,
\* and on one retired longer than the cache's lifetime only while the read
\* that will drop the key is under way, failed reads aside (the guards of
\* ExchangeHandler, keysFor).
ReviewsAreEarned ==
  \A r \in Reqs : req[r].pc = "review" =>
    /\ req[r].kid \in 1..cluster.newest
    /\ cluster.retired[req[r].kid] <= TTL \/ tried <= Timeout \/ fails > 0

==============================================================================
