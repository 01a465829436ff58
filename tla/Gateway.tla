------------------------------ MODULE Gateway ------------------------------
(***************************************************************************)
(* The way of an HTTP request to its handler: request metrics, CORS, the    *)
(* rate limiter, the bearer token and the cache of the identity provider's  *)
(* keys (internal/server, internal/authn).                                  *)
(*                                                                          *)
(* Requests are served side by side.  The limiter is given a time that was  *)
(* read before its lock was taken, so the times it sees may go back.  The   *)
(* keys are fetched outside the lock of the cache: several requests may     *)
(* fetch at once and install what they got in any order.                    *)
(***************************************************************************)
EXTENDS Integers, Sequences, FiniteSets, FiniteSetsExt

CONSTANTS Scenarios,      \* sets of requests that are made, once each
          Input(_),       \* Input(r): [client, origin, method, route, auth, token, panics]
          Limited(_),     \* RATE_LIMIT_ENABLED in a scenario
          AuthEnabled(_), \* AUTH_ENABLED in a scenario
          Burst,          \* RATE_LIMIT_BURST
          Unit, Rate,     \* Rate / Unit requests per second
          ClientTTL,      \* RATE_LIMIT_CLIENT_TTL
          LockDelay,      \* how long a request may wait for the limiter
          Publications,   \* the key sets the provider publishes, in order
          KeyTTL,         \* lifetime of the cached keys
          FetchTime,      \* the HTTP timeout of a fetch
          Skew,           \* tolerated difference of the clocks
          MaxTime(_)      \* bound on the clock in a scenario

VARIABLES made,      \* the requests of this behaviour
          now,
          req,       \* progress and answer of each request
          bucket,    \* the limiter's clients
          cleanup,   \* lastCleanup
          cache,     \* JWKSProvider: keys and expires
          pub,       \* when each publication was made
          http,      \* HTTPMetrics
          grants,    \* history: the times of the requests let through (see known)
          promise    \* history: when a refused client was told to retry

gatewayVars == <<made, now, req, bucket, cleanup, cache, pub, http, grants, promise>>

Clients == {Input(r).client : r \in made}

Never == MaxTime(made) + Burst * Unit + 1

ASSUME GatewayAssumption ==
    /\ Burst \in Nat \ {0} /\ Unit \in Nat \ {0} /\ Rate \in Nat \ {0}
    /\ ClientTTL \in Nat /\ LockDelay \in Nat
    /\ KeyTTL \in Nat \ {0} /\ FetchTime \in Nat /\ Skew \in Nat
    \* A fetch times out before what it fetched would lapse.
    /\ FetchTime <= KeyTTL

ASSUME ScenarioAssumption ==
    \A s \in Scenarios : IsFiniteSet(s) /\ MaxTime(s) \in Nat \ {0}

\* A client that was not seen for the TTL would have had a full bucket: its last
\* time may be late, and so may that of the request that finds it forgotten.
\* The configuration does not enforce it; its defaults satisfy it.
RefillsWithinTTL == Rate * (ClientTTL - 2 * LockDelay) >= Burst * Unit

NewReq == [pc |-> "new", status |-> 0, at |-> 0, start |-> 0, doc |-> {}, put |-> 0,
           late |-> FALSE, why |-> "", passed |-> 0]

GatewayInit ==
    /\ made \in Scenarios
    /\ now = 1
    /\ req = [r \in made |-> NewReq]
    /\ bucket = [c \in {} |-> 0]
    /\ cleanup = 1
    /\ cache = [keys |-> {}, expires |-> 0]
    /\ pub = <<0>>
    /\ http = [inFlight |-> 0, requests |-> 0, errors |-> 0]
    /\ grants = [c \in Clients |-> <<>>]
    /\ promise = [c \in Clients |-> Never]

-----------------------------------------------------------------------------
(* Helpers.                                                                 *)

Respond(r, status) ==
    req' = [req EXCEPT ![r].pc = "written", ![r].status = status]

Goto(r, pc) == req' = [req EXCEPT ![r].pc = pc]

\* What is left to do once the limiter has let a request through.
AfterLimit(r) == IF Input(r).auth = "public" THEN "handler" ELSE "token"

\* Requests that Readyz answers with a check; others get 405 from its handler.
IsProbe(r) == Input(r).route = "readyz" /\ Input(r).method = "get"

-----------------------------------------------------------------------------
(* Metrics and CORS.                                                        *)

\* HTTPMetrics.RequestStarted.
RequestStarted == http' = [http EXCEPT !.inFlight = @ + 1]

\* withRequestObservability, withCORS and the clock of withRateLimit.  Without
\* an Origin, OPTIONS is no preflight: it goes on to the handler, unlimited.
Arrive(r) ==
    LET q == Input(r) IN
    /\ req[r].pc = "new"
    /\ RequestStarted
    /\ \/ /\ q.origin = "other"
          /\ Respond(r, 403)
       \/ /\ q.origin = "allowed" /\ q.method \in {"preflight", "badpreflight"}
          /\ Respond(r, IF q.method = "preflight" THEN 204 ELSE 405)
       \/ /\ q.origin = "none" \/ (q.origin = "allowed" /\ q.method = "get")
          /\ req' = [req EXCEPT ![r].pc = IF q.method = "get" /\ q.route = "api" /\ Limited(made)
                                          THEN "limit" ELSE AfterLimit(r),
                                ![r].at = now]
    /\ UNCHANGED <<now, bucket, cleanup, cache, pub, grants, promise>>

-----------------------------------------------------------------------------
(* The limiter.                                                             *)

FullBucket(t) == [tokens |-> Burst * Unit, updated |-> t, seen |-> t]

\* Plausible bug: the cleanup forgets everybody.
RememberNobody(t) == [c \in {} |-> 0]

\* The cleanup of allow: clients that were not seen for the TTL are forgotten.
Remembered(t) ==
    IF t - cleanup < ClientTTL THEN bucket
    ELSE [c \in {x \in DOMAIN bucket : t - bucket[x].seen < ClientTTL} |-> bucket[c]]

\* The refill of allow: an earlier time adds nothing.
Refill(b, t) ==
    IF t > b.updated
    THEN [tokens |-> Min({Burst * Unit, b.tokens + (t - b.updated) * Rate}), updated |-> t, seen |-> t]
    ELSE [b EXCEPT !.seen = t]

\* Retry-After in whole seconds.
RetryAfter(b) == Max({1, (Unit - b.tokens + Rate - 1) \div Rate})

\* allow, and the 429 of withRateLimit.  known: the requests let through that
\* the contract counts.  Those before a new bucket count only where a client
\* that is forgotten has refilled.
Allow(r) ==
    LET t == req[r].at
        c == Input(r).client
        kept == Remembered(t)
        b == Refill(IF c \in DOMAIN kept THEN kept[c] ELSE FullBucket(t), t)
        ok == b.tokens >= Unit
        left == IF ok THEN [b EXCEPT !.tokens = @ - Unit] ELSE b
        known == IF c \in DOMAIN kept \/ RefillsWithinTTL THEN grants[c] ELSE <<>>
        last == IF known = <<>> THEN 0 ELSE known[Len(known)] IN
    /\ req[r].pc = "limit"
    /\ cleanup' = IF t - cleanup >= ClientTTL THEN t ELSE cleanup
    /\ bucket' = [x \in DOMAIN kept \cup {c} |-> IF x = c THEN left ELSE kept[x]]
    /\ grants' = [grants EXCEPT ![c] = IF ok THEN Append(known, Max({t, last})) ELSE known]
    /\ IF ok
       THEN /\ Goto(r, AfterLimit(r))
            /\ promise' = [promise EXCEPT ![c] = Never]
       ELSE /\ req' = [req EXCEPT ![r].pc = "written", ![r].status = 429,
                                  ![r].late = t >= promise[c]]
            /\ promise' = [promise EXCEPT ![c] = Min({@, now + RetryAfter(b)})]
    /\ UNCHANGED <<now, cache, pub, http>>

-----------------------------------------------------------------------------
(* The token.                                                               *)

Published == Publications[Len(pub)]

\* Signature and claims; the times of the token count with the skew.
Verified(q) ==
    /\ q.token.signer = q.token.kid
    /\ q.token.claims
    /\ now <= q.token.exp + Skew
    /\ now + Skew >= q.token.iat

\* Validate once the key is known, then RequireScope.
Judge(r) ==
    \/ /\ ~Verified(Input(r))
       /\ Respond(r, 401)
    \/ /\ Verified(Input(r)) /\ ~Input(r).token.scope
       /\ Respond(r, 403)
    \/ /\ Verified(Input(r)) /\ Input(r).token.scope
       /\ req' = [req EXCEPT ![r].pc = "handler", ![r].passed = now]

\* The cached key is used while it is fresh.
Cached(k) == k \in cache.keys /\ now < cache.expires

\* Require: without authentication, without a token or with a malformed one, the
\* request is refused before the keys are asked.
Authenticate(r) ==
    LET tok == Input(r).token IN
    /\ req[r].pc = "token"
    /\ \/ ~AuthEnabled(made) /\ Respond(r, 503)
       \/ AuthEnabled(made) /\ ~tok.formed /\ Respond(r, 401)
       \/ AuthEnabled(made) /\ tok.formed /\ Cached(tok.kid) /\ Judge(r)
       \/ /\ AuthEnabled(made) /\ tok.formed /\ ~Cached(tok.kid)
          /\ req' = [req EXCEPT ![r].pc = "fetch", ![r].start = now]
    /\ UNCHANGED <<now, bucket, cleanup, cache, pub, http, grants, promise>>

\* Plausible bug: a failed fetch falls back to the cached key.
RefreshFailedUseCache(r) ==
    IF Input(r).token.kid \in cache.keys THEN Judge(r) ELSE Respond(r, 401)

\* A failed fetch fails the request.
RefreshFailed(r) ==
    req' = [req EXCEPT ![r].pc = "written", ![r].status = 401, ![r].why = "provider"]

\* refresh: the provider answers with what it publishes, or not usefully.
Fetch(r) ==
    /\ req[r].pc = "fetch"
    /\ \/ req' = [req EXCEPT ![r].pc = "install", ![r].doc = Published]
       \/ RefreshFailed(r)
    /\ UNCHANGED <<now, bucket, cleanup, cache, pub, http, grants, promise>>

\* refresh: the parsed keys replace the cached ones, whatever those are.
Install(r) ==
    /\ req[r].pc = "install"
    /\ cache' = [keys |-> req[r].doc, expires |-> now + KeyTTL]
    /\ req' = [req EXCEPT ![r].pc = "reread", ![r].put = now]
    /\ UNCHANGED <<now, bucket, cleanup, pub, http, grants, promise>>

\* Key reads the cache again, which another request may have replaced.
Reread(r) ==
    /\ req[r].pc = "reread"
    /\ IF Input(r).token.kid \in cache.keys THEN Judge(r)
       ELSE req' = [req EXCEPT ![r].pc = "written", ![r].status = 401, ![r].why = "key"]
    /\ UNCHANGED <<now, bucket, cleanup, cache, pub, http, grants, promise>>

-----------------------------------------------------------------------------
(* The handler and the end of the request.                                  *)

\* The handler refuses a method that is not its own, answers or panics, which is
\* counted as a 500.
Handle(r) ==
    /\ req[r].pc = "handler" /\ ~IsProbe(r)
    /\ Respond(r, IF Input(r).method # "get" THEN 405 ELSE IF Input(r).panics THEN 500 ELSE 200)
    /\ UNCHANGED <<now, bucket, cleanup, cache, pub, http, grants, promise>>

\* HTTPMetrics.RequestFinished.
RequestFinished(status) ==
    http' = [inFlight |-> IF http.inFlight > 0 THEN http.inFlight - 1 ELSE 0,
             requests |-> http.requests + 1,
             errors |-> http.errors + (IF status >= 400 THEN 1 ELSE 0)]

\* Plausible bug: the request is only counted when the handler returns.
FinishUnlessPanic(r) ==
    /\ req[r].pc = "written"
    /\ req' = [req EXCEPT ![r].pc = "done", ![r].at = 0, ![r].start = 0, ![r].passed = 0]
    /\ IF Input(r).panics THEN UNCHANGED http ELSE RequestFinished(req[r].status)
    /\ UNCHANGED <<now, bucket, cleanup, cache, pub, grants, promise>>

\* The deferred RequestFinished, which also runs when the handler panics.
Finish(r) ==
    /\ req[r].pc = "written"
    /\ req' = [req EXCEPT ![r].pc = "done", ![r].at = 0, ![r].start = 0, ![r].passed = 0]
    /\ RequestFinished(req[r].status)
    /\ UNCHANGED <<now, bucket, cleanup, cache, pub, grants, promise>>

GatewayStep(r) ==
    \/ Arrive(r)
    \/ Allow(r)
    \/ Authenticate(r)
    \/ Fetch(r)
    \/ Install(r)
    \/ Reread(r)
    \/ Handle(r)
    \/ Finish(r)

\* The provider publishes its next key set.
Rotate ==
    /\ Len(pub) < Len(Publications)
    /\ pub' = Append(pub, now)
    /\ \E r \in made : Input(r).auth = "bearer"
    /\ UNCHANGED <<now, req, bucket, cleanup, cache, http, grants, promise>>

\* Time passes, but not beyond the bounds on waiting for the limiter's lock
\* and on a fetch; the probes use no clock.
Tick ==
    /\ now < MaxTime(made)
    /\ \E r \in made : Input(r).route = "api"
    /\ \A r \in made : /\ req[r].pc = "limit" => now < req[r].at + LockDelay
                       /\ req[r].pc \in {"fetch", "install", "reread"}
                             => now < req[r].start + FetchTime
    /\ now' = now + 1
    /\ UNCHANGED <<req, bucket, cleanup, cache, pub, http, grants, promise>>

-----------------------------------------------------------------------------
(* Properties.                                                              *)

\* The counters of the requests: in flight, finished, failed.
HttpCounted ==
    /\ http.inFlight = Cardinality({r \in made : req[r].pc \notin {"new", "done"}})
    /\ http.requests = Cardinality({r \in made : req[r].pc = "done"})
    /\ http.errors = Cardinality({r \in made : req[r].pc = "done" /\ req[r].status >= 400})

\* The limiter keeps its contract although its times may go back: between any two
\* requests of a client that were let through there are never more than the burst
\* and the refill of that time, and a client that waits for Retry-After is let
\* through.  It holds for as long as the limiter remembers the client and, where
\* RefillsWithinTTL, also across being forgotten and started with a full bucket.
RateContract ==
    /\ \A c \in Clients : \A i, j \in DOMAIN grants[c] :
          i <= j => (j - i + 1) * Unit <= Burst * Unit + Rate * (grants[c][j] - grants[c][i])
    /\ \A r \in made : ~req[r].late

RetiredAt(k) ==
    IF Len(pub) > 1 /\ k \notin Published
    THEN pub[Min({n \in DOMAIN pub : \A m \in n..Len(pub) : k \notin Publications[m]})]
    ELSE Never

\* A key the provider has retired is not accepted for longer than one fetch
\* and one lifetime of the cache, whoever installs an outdated document.
RetiredKeyLapses ==
    \A r \in made : Input(r).auth = "bearer" =>
        req[r].passed <= RetiredAt(Input(r).token.kid) + FetchTime + KeyTTL

KnownSince(k) == pub[Max({n \in DOMAIN pub : k \in Publications[n] /\ (n = 1 \/ k \notin Publications[n-1])})]

\* A token whose key is published is refused for its key only when another
\* request installed an outdated document meanwhile: one that was fetched
\* before the key was published.
RefusedOnlyByOverlap ==
    \A r \in made :
        LET k == Input(r).token.kid IN
        /\ req[r].pc = "written" /\ req[r].why = "key"
        /\ k \in Published /\ KnownSince(k) < req[r].at
        => \E s \in made \ {r} : req[s].put >= req[r].at /\ k \notin req[s].doc

\* The cache follows the provider: retired keys lapse in bounded time, and a
\* published key is refused only because of an overlapping refresh.
KeysFollowProvider == RetiredKeyLapses /\ RefusedOnlyByOverlap
=============================================================================
