------------------------------- MODULE Gateway -------------------------------
(***************************************************************************)
(* What a request passes before its route: the middlewares of              *)
(* app/api/main.py in the order they run (rate limit, JWT, size, timeout,  *)
(* API key), with the Redis token buckets of                               *)
(* app/api/middleware/token_bucket.py.  One API process, whose clock is    *)
(* the only one.                                                           *)
(*                                                                         *)
(* A tick is the time in which a bucket regains one unit: both tiers are   *)
(* full again after a minute, which is Full ticks, and a token is Cost     *)
(* units.  time.time() is read just before the script is sent, and the     *)
(* model takes both for one moment: that a call is held up on its way to   *)
(* Redis for so long that it brings an older time than the one before it   *)
(* is left out.                                                            *)
(***************************************************************************)
EXTENDS Naturals

CONSTANTS
    Requests,     \* connections, each with one request at a time
    Profiles,     \* what a request may be like
    Identities,   \* API keys and addresses that clients are told apart by
    Tiers,        \* "general" and "agent"
    Cost,         \* of a token of each tier
    Full,         \* capacity of every bucket, in units
    TTL,          \* BucketConfig.ttl, in ticks
    SecretSet,    \* JWT_SECRET_KEY is not empty
    KeySet,       \* API_KEY is set
    NoRequest,    \* a connection between two requests
    MaxLosses     \* bound: how often Redis restarts without its data

Profile == [path : {"public", "api", "chat"}, who : Identities,
            jwt : {"none", "bad", "good"}, key : {"none", "wrong", "right"}, large : BOOLEAN]

ASSUME TierAssumption == Tiers = {"general", "agent"}
ASSUME CostAssumption == Cost \in [Tiers -> Nat] /\ \A t \in Tiers : Cost[t] > 0
ASSUME CapacityAssumption == Full \in Nat /\ TTL \in Nat
\* A bucket that nobody used for TTL is full: 120 seconds against 60.
ASSUME TTLAssumption == TTL >= Full
ASSUME ProfileAssumption == Profiles \subseteq Profile
ASSUME DistinctAssumption == NoRequest \notin Profiles
ASSUME LossAssumption == MaxLosses \in Nat

VARIABLES
    pc,       \* where each connection's request is
    req,      \* what it is like
    tokens,   \* `tokens` of each bucket's Redis hash
    age,      \* time since its `last`; the key is gone when that reaches TTL
    verdict,  \* what the Lua script last returned for each bucket
    redisUp,  \* Redis is reachable
    cached,   \* Redis has the script in its script cache
    sha,      \* _script_sha is set
    hung,     \* requests whose call to Redis gets neither an answer nor an error
    losses    \* how often Redis came back empty

buckets == <<tokens, age, verdict, losses>>
redis   == <<redisUp, cached, sha, hung>>
vars    == <<pc, req, tokens, age, verdict, redisUp, cached, sha, hung, losses>>

Buckets == Tiers \X Identities
RequestState == {"idle", "general", "agent", "handling"}
Verdict == {"none", "granted", "refused"}

Init ==
    /\ pc = [r \in Requests |-> "idle"]
    /\ req = [r \in Requests |-> NoRequest]
    /\ tokens = [b \in Buckets |-> 0]
    /\ age = [b \in Buckets |-> TTL]
    /\ verdict = [b \in Buckets |-> "none"]
    /\ redisUp = TRUE
    /\ cached = FALSE
    /\ sha = FALSE
    /\ hung = {}
    /\ losses = 0

----------------------------------------------------------------------------
(* The Lua script *)

Capped(n) == IF n < Full THEN n ELSE Full

\* The bucket brought up to date: a missing one is full.
Refilled(b) == IF age[b] = TTL THEN Full ELSE Capped(tokens[b] + age[b])

\* Mutant: a refusal does not write `last` back, so its time counts again.
ScriptKeepsLast(b) ==
    /\ IF Refilled(b) < Cost[b[1]]
       THEN /\ tokens' = [tokens EXCEPT ![b] = Refilled(b)]
            /\ verdict' = [verdict EXCEPT ![b] = "refused"]
            /\ UNCHANGED age
       ELSE /\ tokens' = [tokens EXCEPT ![b] = Refilled(b) - Cost[b[1]]]
            /\ verdict' = [verdict EXCEPT ![b] = "granted"]
            /\ age' = [age EXCEPT ![b] = 0]
    /\ UNCHANGED losses

\* Refill, then consume or refuse; both write the hash back and renew its expiry.
Script(b) ==
    /\ IF Refilled(b) < Cost[b[1]]
       THEN /\ tokens' = [tokens EXCEPT ![b] = Refilled(b)]
            /\ verdict' = [verdict EXCEPT ![b] = "refused"]
       ELSE /\ tokens' = [tokens EXCEPT ![b] = Refilled(b) - Cost[b[1]]]
            /\ verdict' = [verdict EXCEPT ![b] = "granted"]
    /\ age' = [age EXCEPT ![b] = 0]
    /\ UNCHANGED losses

----------------------------------------------------------------------------
(* The chain *)

\* A response is sent.
Answer(r) ==
    /\ pc' = [pc EXCEPT ![r] = "idle"]
    /\ req' = [req EXCEPT ![r] = NoRequest]

\* JWTAuthMiddleware lets the request through, a Bearer token that does not
\* verify not even beside an API key.
Authenticated(p) ==
    \/ p.path = "public" \/ ~SecretSet \/ p.jwt = "good"
    \/ p.jwt = "none" /\ p.key # "none"

KeyAccepted(p) == p.path = "public" \/ ~KeySet \/ p.key = "right"

\* From the rate limiter to the route, or to a response of 401, 413 or 403:
\* nothing in between waits.
Proceed(r, p) ==
    IF Authenticated(p) /\ ~p.large /\ KeyAccepted(p)
    THEN pc' = [pc EXCEPT ![r] = "handling"] /\ req' = [req EXCEPT ![r] = p]
    ELSE Answer(r)

\* rate_limit_middleware once this tier's check has let the request through.
Passed(r) ==
    IF pc[r] = "general" /\ req[r].path = "chat"
    THEN pc' = [pc EXCEPT ![r] = "agent"] /\ UNCHANGED req
    ELSE Proceed(r, req[r])

Receive(r, p) ==
    /\ pc[r] = "idle"
    /\ IF p.path = "public" THEN Proceed(r, p)
       ELSE pc' = [pc EXCEPT ![r] = "general"] /\ req' = [req EXCEPT ![r] = p]
    /\ UNCHANGED <<buckets, redis>>

Limited(r) == pc[r] \in {"general", "agent"}

\* The limiter goes on with r: its call to Redis, which has no time-out, ends.
Goes(r) == Limited(r) /\ r \notin hung

\* JWT runs inside the rate limiter, so request.state.user_id is never set there.
BucketOf(r) == <<pc[r], req[r].who>>

\* _ensure_script on first use.
LoadScript(r) ==
    /\ Goes(r) /\ ~sha /\ redisUp
    /\ sha' = TRUE
    /\ cached' = TRUE
    /\ UNCHANGED <<pc, req, redisUp, hung, buckets>>

\* check: the verdict arrives.  An HTTPException out of the outermost middleware
\* meets only the handler of last resort, which answers 500 and not 429.
Check(r) ==
    /\ Goes(r) /\ sha /\ redisUp /\ cached
    /\ Script(BucketOf(r))
    /\ IF verdict'[BucketOf(r)] = "refused" THEN Answer(r) ELSE Passed(r)
    /\ UNCHANGED redis

\* The connection breaks after the script ran: the limiter fails open.
CheckLost(r) ==
    /\ Goes(r) /\ sha /\ redisUp /\ cached
    /\ Script(BucketOf(r))
    /\ Passed(r)
    /\ UNCHANGED redis

\* Redis is down, or has forgotten the script (NOSCRIPT): the limiter fails open.
FailOpen(r) ==
    /\ Goes(r)
    /\ ~redisUp \/ (sha /\ ~cached)
    /\ Passed(r)
    /\ UNCHANGED <<buckets, redis>>

\* The route answers, or raises.
Respond(r) ==
    /\ pc[r] = "handling"
    /\ Answer(r)
    /\ UNCHANGED <<buckets, redis>>

\* Mutant: wait_for reports the timeout but waits for the route it cancelled.
TimeOutWaits(r) ==
    /\ pc[r] = "handling" /\ req[r].path = "public"
    /\ Answer(r)
    /\ UNCHANGED <<buckets, redis>>

\* TimeoutMiddleware: wait_for gives up on the route.
TimeOut(r) ==
    /\ pc[r] = "handling"
    /\ Answer(r)
    /\ UNCHANGED <<buckets, redis>>

----------------------------------------------------------------------------
(* Redis and the clock *)

RedisStops ==
    /\ redisUp
    /\ redisUp' = FALSE
    /\ UNCHANGED <<pc, req, cached, sha, hung, buckets>>

\* Redis is reachable again: the network was down; or it restarted, without its
\* scripts, and with its data or without.
RedisReturns ==
    /\ ~redisUp
    /\ redisUp' = TRUE
    /\ \/ UNCHANGED <<cached, buckets>>
       \/ cached' = FALSE /\ UNCHANGED buckets
       \/ /\ losses < MaxLosses
          /\ cached' = FALSE
          /\ tokens' = [b \in Buckets |-> 0]
          /\ age' = [b \in Buckets |-> TTL]
          /\ losses' = losses + 1
          /\ UNCHANGED verdict
    /\ UNCHANGED <<pc, req, sha, hung>>

\* Redis, or the network, keeps a call of r without a sign; and, maybe, gives one
\* in the end.
Hang(r) ==
    /\ Goes(r)
    /\ hung' = hung \cup {r}
    /\ UNCHANGED <<pc, req, redisUp, cached, sha, buckets>>

Wake(r) ==
    /\ r \in hung
    /\ hung' = hung \ {r}
    /\ UNCHANGED <<pc, req, redisUp, cached, sha, buckets>>

Tick ==
    /\ age' = [b \in Buckets |-> IF age[b] < TTL THEN age[b] + 1 ELSE TTL]
    /\ tokens' = [b \in Buckets |-> IF age[b] + 1 < TTL THEN tokens[b] ELSE 0]
    /\ UNCHANGED <<pc, req, verdict, losses, redis>>

\* What the limiter does with a request that waits for its verdict.
Limit(r) == LoadScript(r) \/ Check(r) \/ CheckLost(r) \/ FailOpen(r)

Next ==
    \/ \E r \in Requests : \/ (\E p \in Profiles : Receive(r, p)) \/ Limit(r) \/ Respond(r) \/ TimeOut(r)
                          \/ Hang(r) \/ Wake(r)
    \/ RedisStops \/ RedisReturns \/ Tick

Spec == Init /\ [][Next]_vars

\* A call to Redis that does not hang ends, by its answer or by an error; so does a
\* wait_for.  That a route ends by itself, or a call that hangs, is not assumed.
Fairness == \A r \in Requests : WF_vars(Limit(r)) /\ WF_vars(TimeOut(r))

FairSpec == Spec /\ Fairness

----------------------------------------------------------------------------
(* Properties *)

\* The variables keep their ranges.
TypeOK ==
    /\ pc \in [Requests -> RequestState]
    /\ req \in [Requests -> Profiles \cup {NoRequest}]
    /\ \A r \in Requests : req[r] = NoRequest <=> pc[r] = "idle"
    /\ tokens \in [Buckets -> 0..Full]
    /\ age \in [Buckets -> 0..TTL]
    /\ verdict \in [Buckets -> Verdict]
    /\ redisUp \in BOOLEAN
    /\ cached \in BOOLEAN
    /\ sha \in BOOLEAN
    /\ hung \subseteq Requests
    /\ losses \in 0..MaxLosses

Level == [b \in Buckets |-> Refilled(b)]

Eager == INSTANCE RateLimit WITH
    Cost <- [b \in Buckets |-> Cost[b[1]]],
    level <- Level

\* A bucket that is refilled only when it is used, whose key expires, and whose
\* verdict may be lost on the way gives every request the answer of one that is
\* refilled all the time (token_bucket.py:28-60).
LazyBucketIsEager == Eager!Spec

\* Every request is answered, even when its route hangs or Redis breaks off in the
\* middle of a check, unless it has a call to Redis that hangs: that one has no
\* time-out, and runs outside TimeoutMiddleware (token_bucket.py:104, 140-172,
\* request_protection.py:72-95, main.py:84-112).
EveryRequestAnswered == \A r \in Requests : pc[r] # "idle" ~> pc[r] = "idle" \/ r \in hung

\* "Redis down → fail-open but log" (token_bucket.py:171), and only then: a limiter that
\* can reach Redis can run its script there.
FailsOpenOnlyWhileDown == redisUp /\ sha => cached

=============================================================================
