--------------------------- MODULE Requests_proofs ---------------------------
(***************************************************************************)
(* Proofs about a request, on its way in (Gateway) and in its turn (Turn). *)
(*                                                                         *)
(*   Gateway implements RateLimit, for every set of requests, identities,  *)
(*   costs and capacities and every time to live that is long enough for a *)
(*   bucket to fill (TTLAssumption, the one assumption the argument is     *)
(*   about): that is what makes a deleted key the same as a full bucket.   *)
(*                                                                         *)
(*   Turn: CachedWasGraded, SequentialForgetsNothing and EvolutionsFit,    *)
(*   for any turns and questions and any prompts file that fits.  While    *)
(*   one turn follows another, the one in flight has a copy of each file   *)
(*   that is the file, until it has more (Remembered).                     *)
(***************************************************************************)
EXTENDS Requests, TLAPS

(***************************************************************************)
(* Gateway                                                                 *)
(***************************************************************************)

\* What the refinement rests on; the rest of TypeOK comes along.
BucketsTyped ==
    /\ tokens \in [Buckets -> 0..Full]
    /\ age \in [Buckets -> 0..TTL]
    /\ verdict \in [Buckets -> Verdict]
    /\ losses \in 0..MaxLosses

RequestsTyped ==
    /\ pc \in [Requests -> RequestState]
    /\ req \in [Requests -> Profiles \cup {NoRequest}]
    /\ \A r \in Requests : req[r] = NoRequest <=> pc[r] = "idle"

RedisTyped == redisUp \in BOOLEAN /\ cached \in BOOLEAN /\ sha \in BOOLEAN /\ hung \subseteq Requests

----------------------------------------------------------------------------
(* Requests *)

LEMMA AnswerTyped ==
    ASSUME RequestsTyped, NEW r \in Requests, Answer(r) PROVE RequestsTyped'
BY DistinctAssumption DEF RequestsTyped, Answer, RequestState

LEMMA ProceedTyped ==
    ASSUME RequestsTyped, NEW r \in Requests, NEW p \in Profiles, Proceed(r, p)
    PROVE  RequestsTyped'
<1>1. CASE Answer(r) BY <1>1, AnswerTyped
<1>2. CASE pc' = [pc EXCEPT ![r] = "handling"] /\ req' = [req EXCEPT ![r] = p]
  BY <1>2, DistinctAssumption DEF RequestsTyped, RequestState
<1> QED BY <1>1, <1>2 DEF Proceed

LEMMA LimitedHasBucket ==
    ASSUME RequestsTyped, NEW r \in Requests, Limited(r)
    PROVE  req[r] \in Profiles /\ BucketOf(r) \in Buckets
<1>1. req[r] \in Profiles /\ pc[r] \in Tiers
  BY TierAssumption DEF RequestsTyped, Limited, RequestState
<1>2. req[r].who \in Identities BY <1>1, ProfileAssumption DEF Profile
<1> QED BY <1>1, <1>2 DEF BucketOf, Buckets

LEMMA PassedTyped ==
    ASSUME RequestsTyped, NEW r \in Requests, Limited(r), Passed(r) PROVE RequestsTyped'
<1>1. req[r] \in Profiles BY LimitedHasBucket
<1>2. CASE pc' = [pc EXCEPT ![r] = "agent"] /\ UNCHANGED req
  BY <1>1, <1>2, DistinctAssumption DEF RequestsTyped, RequestState
<1>3. CASE Proceed(r, req[r]) BY <1>1, <1>3, ProceedTyped
<1> QED BY <1>2, <1>3 DEF Passed

----------------------------------------------------------------------------
(* Buckets *)

LEMMA RefilledTyped ==
    ASSUME BucketsTyped, NEW b \in Buckets PROVE Refilled(b) \in 0..Full
BY CapacityAssumption DEF BucketsTyped, Refilled, Capped

LEMMA CostTyped == ASSUME NEW b \in Buckets PROVE Cost[b[1]] \in Nat /\ Cost[b[1]] > 0
BY CostAssumption DEF Buckets

LEMMA ScriptTyped ==
    ASSUME BucketsTyped, NEW b \in Buckets, Script(b) PROVE BucketsTyped'
<1>1. Refilled(b) \in 0..Full /\ Cost[b[1]] \in Nat BY RefilledTyped, CostTyped
<1>2. age' \in [Buckets -> 0..TTL] BY CapacityAssumption DEF BucketsTyped, Script
<1>3. verdict' \in [Buckets -> Verdict] BY DEF BucketsTyped, Script, Verdict
<1>4. tokens' \in [Buckets -> 0..Full]
  <2>1. CASE Refilled(b) < Cost[b[1]] BY <1>1, <2>1 DEF BucketsTyped, Script
  <2>2. CASE ~(Refilled(b) < Cost[b[1]])
    <3>1. Refilled(b) - Cost[b[1]] \in 0..Full BY <1>1, <2>2, CapacityAssumption
    <3> QED BY <2>2, <3>1 DEF BucketsTyped, Script
  <2> QED BY <2>1, <2>2
<1> QED BY <1>2, <1>3, <1>4 DEF BucketsTyped, Script

\* Just written, a bucket holds what was written.
LEMMA WrittenLevel ==
    ASSUME BucketsTyped, NEW b \in Buckets, Script(b)
    PROVE  /\ Level'[b] = tokens'[b]
           /\ \A d \in Buckets \ {b} : Level'[d] = Level[d]
<1>1. BucketsTyped' BY ScriptTyped
<1>2. age'[b] = 0 BY DEF BucketsTyped, Script
<1>3. Level'[b] = tokens'[b]
  <2>1. tokens'[b] \in 0..Full BY <1>1 DEF BucketsTyped
  <2>2. Level'[b] = IF 0 = TTL THEN Full ELSE Capped(tokens'[b] + 0) BY <1>2 DEF Level, Refilled
  <2>3. CASE TTL = 0
    <3>1. Full = 0 BY <2>3, TTLAssumption, CapacityAssumption
    <3> QED BY <2>1, <2>2, <2>3, <3>1
  <2>4. CASE TTL # 0 BY <2>1, <2>2, <2>4, CapacityAssumption DEF Capped
  <2> QED BY <2>3, <2>4
<1>4. ASSUME NEW d \in Buckets \ {b} PROVE Level'[d] = Level[d]
  <2>1. tokens'[d] = tokens[d] /\ age'[d] = age[d] BY <1>4 DEF BucketsTyped, Script
  <2> QED BY <2>1 DEF Level, Refilled, Capped
<1> QED BY <1>3, <1>4

LEMMA LevelIsFunction == Level = [b \in Buckets |-> Refilled(b)]
BY DEF Level

\* The script grants or refuses as the eager bucket would.
LEMMA ScriptRefines ==
    ASSUME BucketsTyped, NEW b \in Buckets, Script(b) PROVE Eager!Grant(b) \/ Eager!Refuse(b)
<1>1. Refilled(b) \in 0..Full /\ Cost[b[1]] \in Nat BY RefilledTyped, CostTyped
<1>2. Level[b] = Refilled(b) BY DEF Level
<1>3. Level'[b] = tokens'[b] /\ \A d \in Buckets \ {b} : Level'[d] = Level[d] BY WrittenLevel
<1>4. [d \in Buckets |-> Cost[d[1]]][b] = Cost[b[1]] OBVIOUS
<1>5. CASE Refilled(b) < Cost[b[1]]
  <2>1. Level' = Level
    <3>1. tokens'[b] = Refilled(b) BY <1>5 DEF BucketsTyped, Script
    <3>2. \A d \in Buckets : Level'[d] = Level[d] BY <1>2, <1>3, <3>1
    <3> QED BY <3>2 DEF Level
  <2>2. verdict' = [verdict EXCEPT ![b] = "refused"] /\ losses' = losses BY <1>5 DEF Script
  <2> QED BY <1>2, <1>4, <1>5, <2>1, <2>2 DEF Eager!Refuse
<1>6. CASE ~(Refilled(b) < Cost[b[1]])
  <2>1. Level' = [Level EXCEPT ![b] = Level[b] - Cost[b[1]]]
    <3>1. tokens'[b] = Refilled(b) - Cost[b[1]] BY <1>6 DEF BucketsTyped, Script
    <3>2. Level'[b] = Level[b] - Cost[b[1]] BY <1>2, <1>3, <3>1
    <3> QED BY <1>3, <3>2 DEF Level
  <2>2. verdict' = [verdict EXCEPT ![b] = "granted"] /\ losses' = losses BY <1>6 DEF Script
  <2>3. Level[b] >= Cost[b[1]] BY <1>1, <1>2, <1>6
  <2> QED BY <1>4, <2>1, <2>2, <2>3 DEF Eager!Grant
<1> QED BY <1>5, <1>6

\* A tick of the clock refills every bucket by one; a key that expires belongs to a
\* bucket that is full by then.
LEMMA TickRefines == ASSUME BucketsTyped, Tick PROVE BucketsTyped' /\ Eager!Refill
<1> USE CapacityAssumption
<1>1. BucketsTyped' BY DEF BucketsTyped, Tick
<1>2. ASSUME NEW b \in Buckets
      PROVE  Refilled(b)' = IF Refilled(b) < Full THEN Refilled(b) + 1 ELSE Full
  <2>1. /\ tokens[b] \in 0..Full /\ age[b] \in 0..TTL
        /\ age'[b] = IF age[b] < TTL THEN age[b] + 1 ELSE TTL
        /\ tokens'[b] = IF age[b] + 1 < TTL THEN tokens[b] ELSE 0
    BY DEF BucketsTyped, Tick
  <2>2. CASE age[b] = TTL BY <2>1, <2>2 DEF Refilled
  <2>3. CASE age[b] + 1 = TTL BY <2>1, <2>3, TTLAssumption DEF Refilled, Capped
  <2>4. CASE age[b] + 1 < TTL BY <2>1, <2>4 DEF Refilled, Capped
  <2> QED BY <2>1, <2>2, <2>3, <2>4
<1>3. Level' = [b \in Buckets |-> IF Level[b] < Full THEN Level[b] + 1 ELSE Full]
  BY <1>2 DEF Level
<1>4. UNCHANGED <<verdict, losses>> BY DEF Tick
<1> QED BY <1>1, <1>3, <1>4 DEF Eager!Refill

\* Redis comes back with what it had, or with nothing, which is full buckets.
LEMMA ReturnRefines ==
    ASSUME BucketsTyped, RedisReturns
    PROVE  BucketsTyped' /\ (Eager!Lose \/ UNCHANGED <<Level, verdict, losses>>)
<1>1. CASE UNCHANGED buckets
  BY <1>1 DEF buckets, BucketsTyped, Level, Refilled, Capped
<1>2. CASE /\ losses < MaxLosses /\ tokens' = [b \in Buckets |-> 0]
           /\ age' = [b \in Buckets |-> TTL] /\ losses' = losses + 1 /\ UNCHANGED verdict
  <2>1. BucketsTyped' BY <1>2, CapacityAssumption, LossAssumption DEF BucketsTyped
  <2>2. Level' = [b \in Buckets |-> Full] BY <1>2 DEF Level, Refilled
  <2> QED BY <1>2, <2>1, <2>2 DEF Eager!Lose
<1> QED BY <1>1, <1>2 DEF RedisReturns

----------------------------------------------------------------------------
(* The steps *)

Typed == RequestsTyped /\ BucketsTyped /\ RedisTyped

\* A step keeps the types and is one of the eager bucket's, or none.
Refines == Typed' /\ (Eager!Next \/ UNCHANGED <<Level, verdict, losses>>)

LEMMA QuietStep ==
    ASSUME BucketsTyped, UNCHANGED buckets
    PROVE  BucketsTyped' /\ UNCHANGED <<Level, verdict, losses>>
BY DEF buckets, BucketsTyped, Level, Refilled, Capped

LEMMA CheckRefines ==
    ASSUME Typed, NEW r \in Requests, Limited(r), Script(BucketOf(r)),
           Answer(r) \/ Passed(r), UNCHANGED redis
    PROVE  Refines
<1>1. BucketOf(r) \in Buckets BY LimitedHasBucket DEF Typed
<1>2. BucketsTyped' BY <1>1, ScriptTyped DEF Typed
<1>3. RequestsTyped' BY AnswerTyped, PassedTyped DEF Typed
<1>4. RedisTyped' BY DEF Typed, RedisTyped, redis
<1>5. Eager!Next BY <1>1, ScriptRefines DEF Typed, Eager!Next
<1> QED BY <1>2, <1>3, <1>4, <1>5 DEF Refines, Typed

LEMMA StepRefines == ASSUME Typed, [Next]_vars PROVE Refines
<1>1. ASSUME NEW r \in Requests, NEW p \in Profiles, Receive(r, p) PROVE Refines
  <2>1. RequestsTyped'
    <3>1. CASE Proceed(r, p) BY <3>1, ProceedTyped DEF Typed
    <3>2. CASE pc' = [pc EXCEPT ![r] = "general"] /\ req' = [req EXCEPT ![r] = p]
      BY <3>2, DistinctAssumption DEF Typed, RequestsTyped, RequestState
    <3> QED BY <1>1, <3>1, <3>2 DEF Receive
  <2>2. UNCHANGED buckets /\ UNCHANGED redis BY <1>1 DEF Receive
  <2> QED BY <2>1, <2>2, QuietStep DEF Refines, Typed, RedisTyped, redis
<1>2. ASSUME NEW r \in Requests, LoadScript(r) PROVE Refines
  <2>1. UNCHANGED buckets BY <1>2 DEF LoadScript
  <2>2. RequestsTyped' /\ RedisTyped' BY <1>2 DEF LoadScript, Typed, RequestsTyped, RedisTyped
  <2> QED BY <2>1, <2>2, QuietStep DEF Refines, Typed
<1>3. ASSUME NEW r \in Requests, Check(r) PROVE Refines
  BY <1>3, CheckRefines DEF Check, Goes
<1>4. ASSUME NEW r \in Requests, CheckLost(r) PROVE Refines
  BY <1>4, CheckRefines DEF CheckLost, Goes
<1>5. ASSUME NEW r \in Requests, FailOpen(r) PROVE Refines
  <2>1. RequestsTyped' BY <1>5, PassedTyped DEF FailOpen, Goes, Typed
  <2>2. UNCHANGED buckets /\ UNCHANGED redis BY <1>5 DEF FailOpen
  <2> QED BY <2>1, <2>2, QuietStep DEF Refines, Typed, RedisTyped, redis
<1>6. ASSUME NEW r \in Requests, Respond(r) \/ TimeOut(r) PROVE Refines
  <2>1. RequestsTyped' BY <1>6, AnswerTyped DEF Respond, TimeOut, Typed
  <2>2. UNCHANGED buckets /\ UNCHANGED redis BY <1>6 DEF Respond, TimeOut
  <2> QED BY <2>1, <2>2, QuietStep DEF Refines, Typed, RedisTyped, redis
<1>7. CASE RedisStops
  <2>1. UNCHANGED buckets BY <1>7 DEF RedisStops
  <2>2. RequestsTyped' /\ RedisTyped' BY <1>7 DEF RedisStops, Typed, RequestsTyped, RedisTyped
  <2> QED BY <2>1, <2>2, QuietStep DEF Refines, Typed
<1>8. CASE RedisReturns
  <2>1. RequestsTyped' /\ RedisTyped' BY <1>8 DEF RedisReturns, Typed, RequestsTyped, RedisTyped
  <2> QED BY <1>8, <2>1, ReturnRefines DEF Refines, Typed, Eager!Next
<1>9. CASE Tick
  <2>1. RequestsTyped' /\ RedisTyped' BY <1>9 DEF Tick, redis, Typed, RequestsTyped, RedisTyped
  <2> QED BY <1>9, <2>1, TickRefines DEF Refines, Typed, Eager!Next
<1>10. ASSUME NEW r \in Requests, Hang(r) \/ Wake(r) PROVE Refines
  <2>1. UNCHANGED buckets BY <1>10 DEF Hang, Wake
  <2>2. RequestsTyped' /\ RedisTyped' BY <1>10 DEF Hang, Wake, Typed, RequestsTyped, RedisTyped
  <2> QED BY <2>1, <2>2, QuietStep DEF Refines, Typed
<1>11. CASE UNCHANGED vars
  <2>1. UNCHANGED buckets BY <1>11 DEF vars, buckets
  <2>2. RequestsTyped' /\ RedisTyped' BY <1>11 DEF vars, Typed, RequestsTyped, RedisTyped
  <2> QED BY <2>1, <2>2, QuietStep DEF Refines, Typed
<1> QED BY <1>1, <1>2, <1>3, <1>4, <1>5, <1>6, <1>7, <1>8, <1>9, <1>10, <1>11 DEF Next, Limit

LEMMA InitTyped == ASSUME Init PROVE Typed /\ Eager!Init
<1>1. RequestsTyped BY DEF Init, RequestsTyped, RequestState
<1>2. BucketsTyped BY CapacityAssumption, LossAssumption DEF Init, BucketsTyped, Verdict
<1>3. RedisTyped BY DEF Init, RedisTyped
<1>4. Eager!Init
  <2>1. Level = [b \in Buckets |-> Full] BY DEF Init, Level, Refilled
  <2> QED BY <2>1 DEF Init, Eager!Init
<1> QED BY <1>1, <1>2, <1>3, <1>4 DEF Typed

----------------------------------------------------------------------------
(* The theorems *)

\* The variables keep their ranges.
THEOREM TypeCorrect == Spec => []TypeOK
<1>1. Init => Typed BY InitTyped
<1>2. Typed /\ [Next]_vars => Typed' BY StepRefines DEF Refines
<1>3. Typed => TypeOK BY DEF Typed, RequestsTyped, BucketsTyped, RedisTyped, TypeOK
<1> QED BY <1>1, <1>2, <1>3, PTL DEF Spec

\* Refilling lazily, forgetting idle buckets, losing verdicts and losing Redis are
\* invisible: whatever the costs and the capacity, each answer of the script is one
\* of a bucket that fills all the time (token_bucket.py:35-66, 131-172).
THEOREM Refinement == Spec => LazyBucketIsEager
<1>1. Init => Typed /\ Eager!Init BY InitTyped
<1>2. Typed /\ [Next]_vars => Typed' /\ [Eager!Next]_<<Level, verdict, losses>>
  BY StepRefines DEF Refines
<1> QED BY <1>1, <1>2, PTL DEF Spec, Eager!Spec, LazyBucketIsEager

(***************************************************************************)
(* Turn                                                                    *)
(***************************************************************************)
\* What may be known by a list, or of a prompt.
Known(f, k) ==
    IF f = "prompts" THEN Chat!Evolution(k) /\ Chat!Fits(k) ELSE k \in SUBSET Turns

OnDisk(f, x) == x = Chat!Torn \/ \E k : Known(f, k) /\ x = Chat!Contents(f, k)

TurnTypes ==
    /\ at \in [Turns -> {"new"} \cup Chat!InFlight \cup Chat!Over]
    /\ copy = [t \in Turns |-> copy[t]]
    /\ \A t \in Turns : copy[t] = [f \in Chat!Files |-> copy[t][f]]
    /\ \A t \in Turns, f \in Chat!Files : Known(f, copy[t][f])
    /\ file = [f \in Chat!Files |-> file[f]]
    /\ \A f \in Chat!Files : OnDisk(f, file[f])
    /\ saving \in [Turns -> Chat!Files \cup {"none"}]
    /\ cache \in SUBSET Turns
    /\ \A t \in Turns : at[t] = "saving" => saving[t] \in Chat!Files /\ loop = t

\* The dataset has a turn from its grade on.
Logged(t) ==
    /\ at[t] = "saving" /\ saving[t] = "dataset" => t \in copy[t]["dataset"]
    /\ at[t] \in {"storing", "caching"} => t \in copy[t]["dataset"]
    /\ t \in cache => at[t] # "new" /\ t \in copy[t]["dataset"]

OneTurn == \A t, u \in Turns : at[t] \in Chat!InFlight /\ at[u] \in Chat!InFlight => t = u

\* A file is torn only while it is written.
TornInWriting ==
    \A f \in Chat!Files : file[f].whole \/ \E t \in Turns : at[t] = "saving" /\ saving[t] = f

\* A turn's copy of a file is the file, but while it is written.
Same(t) == at[t] \in Chat!InFlight =>
    /\ \A f \in Chat!Files : file[f].whole => Chat!Loaded(f) = copy[t][f]
    /\ at[t] = "saving" => ~file[saving[t]].whole

\* What turn t had learned, when it was over, is in each file, or about to be.
Kept(t) == at[t] \in Chat!Over => \A f \in Chat!Files :
    /\ file[f].whole => Chat!KnownIn(f, Chat!Learned(t, f), Chat!Loaded(f))
    /\ \A u \in Turns : at[u] = "saving" /\ saving[u] = f => Chat!KnownIn(f, Chat!Learned(t, f), copy[u][f])

Remembered == quiet => OneTurn /\ TornInWriting /\ \A t \in Turns : Same(t) /\ Kept(t)

TurnInv == TurnTypes /\ (\A t \in Turns : Logged(t)) /\ Remembered

----------------------------------------------------------------------------
(* What is known *)

LEMMA FreshKnown == Known("prompts", Chat!Fresh)
BY DEF Known, Chat!Evolution, Chat!Fits, Chat!Version, Chat!Fresh, Chat!NewVersion, Chat!NoVersion

LEMMA NothingKnown == \A f \in Chat!Files : Known(f, Chat!Nothing[f])
BY FreshKnown DEF Known, Chat!Nothing, Chat!Files, Chat!Lists

LEMMA ContentsWhole ==
    ASSUME NEW f, NEW k
    PROVE  Chat!Contents(f, k).whole /\ IF f = "prompts" THEN Chat!Contents(f, k).evo = k
                                                         ELSE Chat!Contents(f, k).turns = k
BY DEF Chat!Contents

LEMMA TornNotWhole == ~Chat!Torn.whole
BY DEF Chat!Torn

LEMMA LoadedOf ==
    ASSUME NEW f, NEW k, file[f] = Chat!Contents(f, k)
    PROVE  file[f].whole /\ Chat!Loaded(f) = k
BY ContentsWhole DEF Chat!Loaded

LEMMA LoadedKnown == ASSUME TurnTypes, NEW f \in Chat!Files PROVE Known(f, Chat!Loaded(f))
<1>1. CASE file[f] = Chat!Torn BY <1>1, TornNotWhole, NothingKnown DEF Chat!Loaded
<1>2. ASSUME NEW k, Known(f, k), file[f] = Chat!Contents(f, k) PROVE Known(f, Chat!Loaded(f))
  BY <1>2, LoadedOf
<1> QED BY <1>1, <1>2 DEF TurnTypes, OnDisk

\* A whole file is the contents of what is loaded from it.
LEMMA WholeContents ==
    ASSUME TurnTypes, NEW f \in Chat!Files, file[f].whole
    PROVE  file[f] = Chat!Contents(f, Chat!Loaded(f))
<1>1. PICK k : file[f] = Chat!Contents(f, k) BY TornNotWhole DEF TurnTypes, OnDisk
<1> QED BY <1>1, LoadedOf

LEMMA KnownInItself == ASSUME NEW f \in Chat!Files, NEW k, Known(f, k) PROVE Chat!KnownIn(f, k, k)
BY DEF Known, Chat!KnownIn, Chat!Evolution, Chat!Version

LEMMA KnownInTransitive ==
    ASSUME NEW f \in Chat!Files, NEW x, NEW y, NEW z, Known(f, x), Known(f, y), Known(f, z),
           Chat!KnownIn(f, x, y), Chat!KnownIn(f, y, z)
    PROVE  Chat!KnownIn(f, x, z)
<1>1. CASE f # "prompts" BY <1>1 DEF Chat!KnownIn
<1>2. CASE f = "prompts"
  <2> SUFFICES ASSUME NEW v \in DOMAIN x.versions
               PROVE  v \in DOMAIN z.versions /\ x.versions[v].hits <= z.versions[v].hits
    BY <1>2 DEF Chat!KnownIn
  <2>1. v \in DOMAIN y.versions /\ x.versions[v].hits <= y.versions[v].hits BY <1>2 DEF Chat!KnownIn
  <2>2. v \in DOMAIN z.versions /\ y.versions[v].hits <= z.versions[v].hits BY <1>2, <2>1 DEF Chat!KnownIn
  <2>3. x.versions[v].hits \in Nat /\ y.versions[v].hits \in Nat /\ z.versions[v].hits \in Nat
    BY <1>2, <2>1, <2>2 DEF Known, Chat!Evolution, Chat!Version
  <2> QED BY <2>1, <2>2, <2>3
<1> QED BY <1>1, <1>2

\* Of what a turn knows it has learned all, unless add_data raised.
LEMMA LearnedAll ==
    ASSUME NEW t \in Turns, NEW f, at[t] # "unsaved" PROVE Chat!Learned(t, f) = copy[t][f]
BY DEF Chat!Learned

LEMMA LearnedKnown ==
    ASSUME TurnTypes, NEW t \in Turns, NEW f \in Chat!Files PROVE Known(f, Chat!Learned(t, f))
BY DEF TurnTypes, Known, Chat!Learned

LEMMA LearnedSame ==
    ASSUME NEW t \in Turns, NEW f, at'[t] = at[t], copy'[t] = copy[t]
    PROVE  Chat!Learned(t, f)' = Chat!Learned(t, f)
BY DEF Chat!Learned

LEMMA VersionScored ==
    ASSUME NEW x \in Chat!Version, NEW score \in {0, 1}
    PROVE  LET new == [x EXCEPT !.sum = @ + score, !.hits = @ + 1]
           IN  new \in Chat!Version /\ new.parent = x.parent /\ new.hits = x.hits + 1
<1> DEFINE new == [x EXCEPT !.sum = @ + score, !.hits = @ + 1]
<1>1. x.sum \in Nat /\ x.hits \in Nat /\ x.parent \in Nat BY DEF Chat!Version
<1>2. x.sum + score \in Nat /\ x.hits + 1 \in Nat BY <1>1
<1>3. new.hits = x.hits + 1 BY DEF Chat!Version
<1>4. new.parent = x.parent /\ new.sum = x.sum + score BY DEF Chat!Version
<1>5. new \in Chat!Version BY <1>2 DEF Chat!Version
<1> QED BY <1>3, <1>4, <1>5

LEMMA FeedbackKnown ==
    ASSUME NEW evo, Known("prompts", evo), NEW v, NEW score \in {0, 1}
    PROVE  /\ Known("prompts", Chat!AfterFeedback(evo, v, score))
           /\ Chat!KnownIn("prompts", evo, Chat!AfterFeedback(evo, v, score))
<1> DEFINE ids == DOMAIN evo.versions
           old == evo.versions[v]
           new == [old EXCEPT !.sum = @ + score, !.hits = @ + 1]
           scored == Chat!Scored(evo, v, score)
<1>1. Chat!Evolution(evo) /\ Chat!Fits(evo) BY DEF Known
<1>2. CASE v \notin ids
  BY <1>2, KnownInItself DEF Chat!AfterFeedback, Chat!Files, Chat!Lists
<1>3. CASE v \in ids
  <2>1. old \in Chat!Version /\ new \in Chat!Version /\ new.parent = old.parent /\ old.hits <= new.hits
    <3>1. old \in Chat!Version BY <1>1, <1>3 DEF Chat!Evolution
    <3>2. old.hits \in Nat BY <3>1 DEF Chat!Version
    <3>3. new \in Chat!Version /\ new.parent = old.parent /\ new.hits = old.hits + 1 BY <3>1, VersionScored
    <3> HIDE DEF old, new
    <3> QED BY <3>1, <3>2, <3>3
  <2>2. /\ scored.versions = [evo.versions EXCEPT ![v] = new]
        /\ scored.active = evo.active /\ scored.baseline = evo.baseline /\ scored.candidate = evo.candidate
        /\ scored \in [versions : [ids -> Chat!Version], active : Nat, baseline : Nat, candidate : Nat]
    <3>1. scored = [evo EXCEPT !.versions = [evo.versions EXCEPT ![v] = new]]
      BY <1>1, <1>3 DEF Chat!Scored, Chat!Evolution, Chat!Version
    <3> HIDE DEF scored, new
    <3> QED BY <1>1, <1>3, <2>1, <3>1 DEF Chat!Evolution
  <2> HIDE DEF scored
  <2>3. /\ DOMAIN scored.versions = ids
        /\ \A w \in ids : /\ scored.versions[w].parent = evo.versions[w].parent
                          /\ evo.versions[w].hits <= scored.versions[w].hits
    BY <1>1, <1>3, <2>1, <2>2 DEF Chat!Evolution, Chat!Version
  <2>4. Chat!Evolution(scored) BY <1>1, <2>2, <2>3 DEF Chat!Evolution
  <2>5. Chat!Fits(scored) BY <1>1, <2>2, <2>3 DEF Chat!Fits
  <2> DEFINE judged == Chat!Judged(scored, v)
  <2>6. \/ judged = scored
        \/ v = scored.candidate /\ judged = [scored EXCEPT !.active = v, !.candidate = Chat!NoVersion]
        \/ judged = [scored EXCEPT !.candidate = Chat!NoVersion]
    BY DEF Chat!Judged
  <2>7. Chat!AfterFeedback(evo, v, score) = judged BY <1>3 DEF Chat!AfterFeedback, scored
  <2> HIDE DEF judged
  <2>8. Chat!Evolution(judged) /\ judged.versions = scored.versions
    <3>1. CASE judged = scored BY <2>4, <3>1
    <3>2. ASSUME NEW a \in Nat, judged = [scored EXCEPT !.active = a, !.candidate = Chat!NoVersion]
          PROVE  Chat!Evolution(judged) /\ judged.versions = scored.versions
      <4>1. judged.versions = scored.versions BY <2>2, <3>2
      <4>2. judged \in [versions : [ids -> Chat!Version], active : Nat, baseline : Nat, candidate : Nat]
        BY <2>2, <3>2 DEF Chat!NoVersion
      <4> QED BY <2>3, <2>4, <4>1, <4>2 DEF Chat!Evolution
    <3>3. CASE judged = [scored EXCEPT !.candidate = Chat!NoVersion]
      <4>1. judged.versions = scored.versions BY <2>2, <3>3
      <4>2. judged \in [versions : [ids -> Chat!Version], active : Nat, baseline : Nat, candidate : Nat]
        BY <2>2, <3>3 DEF Chat!NoVersion
      <4> QED BY <2>3, <2>4, <4>1, <4>2 DEF Chat!Evolution
    <3>4. v \in Nat BY <1>1, <1>3 DEF Chat!Evolution
    <3> QED BY <2>6, <3>1, <3>2, <3>3, <3>4
  <2>9. Chat!Fits(judged)
    <3>1. CASE judged = scored BY <2>5, <3>1
    <3>2. CASE v = scored.candidate /\ judged = [scored EXCEPT !.active = v, !.candidate = Chat!NoVersion]
      <4>1. judged.active = v /\ judged.candidate = Chat!NoVersion /\ judged.baseline = scored.baseline
        BY <2>2, <3>2
      <4>2. v # Chat!NoVersion /\ v \in DOMAIN scored.versions BY <1>3, <2>3, <2>4 DEF Chat!Evolution
      <4> QED BY <2>5, <2>8, <4>1, <4>2 DEF Chat!Fits
    <3>3. CASE judged = [scored EXCEPT !.candidate = Chat!NoVersion]
      <4>1. judged.active = scored.active /\ judged.candidate = Chat!NoVersion /\ judged.baseline = scored.baseline
        BY <2>2, <3>3
      <4>2. scored.active # Chat!NoVersion BY <2>4, <2>5 DEF Chat!Evolution, Chat!Fits
      <4> QED BY <2>5, <2>8, <4>1, <4>2 DEF Chat!Fits
    <3> QED BY <2>6, <3>1, <3>2, <3>3
  <2>10. Chat!KnownIn("prompts", evo, judged) BY <2>3, <2>8 DEF Chat!KnownIn
  <2> QED BY <2>7, <2>8, <2>9, <2>10 DEF Known
<1> QED BY <1>2, <1>3

LEMMA EvolvedKnown ==
    ASSUME NEW evo, Known("prompts", evo), NEW v \in Nat \ {0}, v \notin DOMAIN evo.versions
    PROVE  /\ Known("prompts", Chat!Evolved(evo, v))
           /\ Chat!KnownIn("prompts", evo, Chat!Evolved(evo, v))
<1> DEFINE ids == DOMAIN evo.versions
           new == Chat!Evolved(evo, v)
<1>1. Chat!Evolution(evo) /\ Chat!Fits(evo) BY DEF Known
<1>2. /\ new.versions = [x \in ids \cup {v} |-> IF x = v THEN Chat!NewVersion(evo.active) ELSE evo.versions[x]]
      /\ new.active = evo.active /\ new.baseline = evo.baseline /\ new.candidate = v
  BY <1>1 DEF Chat!Evolved, Chat!Evolution
<1>3. Chat!NewVersion(evo.active) \in Chat!Version /\ Chat!NewVersion(evo.active).parent = evo.active
  BY <1>1 DEF Chat!NewVersion, Chat!Version, Chat!Evolution
<1>4. new.versions \in [ids \cup {v} -> Chat!Version] BY <1>1, <1>2, <1>3 DEF Chat!Evolution
<1>5. new \in [versions : [ids \cup {v} -> Chat!Version], active : Nat, baseline : Nat, candidate : Nat]
  <2>1. new = [evo EXCEPT !.versions = new.versions, !.candidate = v] BY <1>1, <1>2 DEF Chat!Evolved, Chat!Evolution
  <2> HIDE DEF new
  <2> QED BY <1>1, <1>4, <2>1 DEF Chat!Evolution
<1> HIDE DEF new
<1>6. DOMAIN new.versions = ids \cup {v} BY <1>2
<1>7. Chat!Evolution(new) BY <1>1, <1>5, <1>6 DEF Chat!Evolution, Chat!NoVersion
<1>8. Chat!Fits(new)
  <2>1. {evo.active, evo.baseline} \subseteq ids /\ evo.active # v BY <1>1 DEF Chat!Fits
  <2>2. ASSUME NEW x \in (ids \cup {v}) \ {evo.baseline} PROVE new.versions[x].parent \in (ids \cup {v}) \ {x}
    <3>1. CASE x = v BY <1>2, <1>3, <2>1, <3>1
    <3>2. CASE x # v BY <1>1, <1>2, <3>2 DEF Chat!Fits
    <3> QED BY <3>1, <3>2
  <2> QED BY <1>2, <1>6, <2>1, <2>2 DEF Chat!Fits
<1>9. Chat!KnownIn("prompts", evo, new)
  BY <1>1, <1>2, <1>6 DEF Chat!KnownIn, Chat!Evolution, Chat!Version
<1> QED BY <1>7, <1>8, <1>9 DEF Known, new

----------------------------------------------------------------------------
(* Copies and files *)

LEMMA CopyPut ==
    ASSUME TurnTypes, NEW t \in Turns, NEW f \in Chat!Files, NEW k, Known(f, k),
           copy' = [copy EXCEPT ![t][f] = k]
    PROVE  /\ copy' = [u \in Turns |-> copy'[u]]
           /\ \A u \in Turns : copy'[u] = [g \in Chat!Files |-> copy'[u][g]]
           /\ \A u \in Turns, g \in Chat!Files : Known(g, copy'[u][g])
           /\ \A u \in Turns \ {t} : copy'[u] = copy[u]
           /\ copy'[t][f] = k /\ \A g \in Chat!Files \ {f} : copy'[t][g] = copy[t][g]
<1>1. /\ copy = [u \in Turns |-> copy[u]]
      /\ \A u \in Turns : copy[u] = [g \in Chat!Files |-> copy[u][g]]
      /\ \A u \in Turns, g \in Chat!Files : Known(g, copy[u][g])
  BY DEF TurnTypes
<1> DEFINE c == [copy[t] EXCEPT ![f] = k]
<1>2. c = [g \in Chat!Files |-> c[g]] /\ c[f] = k /\ \A g \in Chat!Files \ {f} : c[g] = copy[t][g]
  BY <1>1
<1>3. copy' = [copy EXCEPT ![t] = c] OBVIOUS
<1> HIDE DEF c
<1>4. copy' = [u \in Turns |-> copy'[u]] /\ copy'[t] = c /\ \A u \in Turns \ {t} : copy'[u] = copy[u]
  BY <1>1, <1>3
<1> QED BY <1>1, <1>2, <1>4

LEMMA FilePut ==
    ASSUME TurnTypes, NEW f \in Chat!Files, NEW x, OnDisk(f, x), file' = [file EXCEPT ![f] = x]
    PROVE  /\ file' = [g \in Chat!Files |-> file'[g]]
           /\ \A g \in Chat!Files : OnDisk(g, file'[g])
           /\ file'[f] = x
           /\ \A g \in Chat!Files \ {f} : file'[g] = file[g] /\ Chat!Loaded(g)' = Chat!Loaded(g)
<1>1. file = [g \in Chat!Files |-> file[g]] /\ \A g \in Chat!Files : OnDisk(g, file[g]) BY DEF TurnTypes
<1>2. /\ file' = [g \in Chat!Files |-> file'[g]] /\ file'[f] = x
      /\ \A g \in Chat!Files \ {f} : file'[g] = file[g]
  BY <1>1
<1>3. \A g \in Chat!Files \ {f} : Chat!Loaded(g)' = Chat!Loaded(g) BY <1>2 DEF Chat!Loaded
<1> QED BY <1>1, <1>2, <1>3

LEMMA FileKept ==
    ASSUME TurnTypes, file' = file
    PROVE  /\ file' = [g \in Chat!Files |-> file'[g]]
           /\ \A g \in Chat!Files : OnDisk(g, file'[g]) /\ file'[g] = file[g] /\ Chat!Loaded(g)' = Chat!Loaded(g)
BY DEF TurnTypes, Chat!Loaded

\* Nobody writes while the event loop is free; then, if all went well, every file is whole.
LEMMA FreeLoop ==
    ASSUME TurnInv, Chat!LoopFree
    PROVE  /\ \A t \in Turns : at[t] # "saving"
           /\ quiet => \A f \in Chat!Files : file[f].whole
<1>1. \A t \in Turns : at[t] # "saving" BY NoTurnAssumption DEF TurnInv, TurnTypes, Chat!LoopFree
<1> QED BY <1>1 DEF TurnInv, Remembered, TornInWriting

----------------------------------------------------------------------------
(* The steps *)

LEMMA TurnsStart == ASSUME Chat!Init PROVE TurnInv
<1> USE DEF Chat!Init
<1>1. PICK evo \in OldPrompts :
        file = [f \in Chat!Files |-> Chat!Contents(f, IF f = "prompts" THEN evo ELSE {})]
  OBVIOUS
<1>2. Known("prompts", evo) BY <1>1, PromptsAssumption DEF Known
<1>3. ASSUME NEW f \in Chat!Files PROVE OnDisk(f, file[f]) /\ file[f].whole
  <2> DEFINE k == IF f = "prompts" THEN evo ELSE {}
  <2>1. Known(f, k) BY <1>2 DEF Known
  <2>2. file[f] = Chat!Contents(f, k) BY <1>1
  <2> HIDE DEF k
  <2> QED BY <2>1, <2>2, ContentsWhole DEF OnDisk
<1>4. \A t \in Turns : at[t] = "new" OBVIOUS
<1>5. TurnTypes
  <2>1. Chat!Nothing = [f \in Chat!Files |-> Chat!Nothing[f]] BY DEF Chat!Nothing
  <2>2. copy = [t \in Turns |-> copy[t]] /\ \A t \in Turns : copy[t] = Chat!Nothing OBVIOUS
  <2>3. file = [f \in Chat!Files |-> file[f]] BY <1>1
  <2>4. \A t \in Turns : at[t] # "saving" BY <1>4
  <2>5. /\ at \in [Turns -> {"new"} \cup Chat!InFlight \cup Chat!Over]
        /\ saving \in [Turns -> Chat!Files \cup {"none"}] /\ cache = {}
    OBVIOUS
  <2> HIDE DEF Chat!Init
  <2> QED BY <1>3, <2>1, <2>2, <2>3, <2>4, <2>5, NothingKnown DEF TurnTypes
<1>6. \A t \in Turns : Logged(t) BY <1>4 DEF Logged
<1>7. Remembered
  <2>1. OneTurn BY <1>4 DEF OneTurn, Chat!InFlight
  <2>2. TornInWriting BY <1>3 DEF TornInWriting
  <2>3. \A t \in Turns : Same(t) /\ Kept(t) BY <1>4 DEF Same, Kept, Chat!InFlight, Chat!Over
  <2> QED BY <2>1, <2>2, <2>3 DEF Remembered
<1> QED BY <1>5, <1>6, <1>7 DEF TurnInv

\* A turn goes on, or is over, with the files as they are.
LEMMA MoveStep ==
    ASSUME TurnInv, Chat!LoopFree, NEW t \in Turns, at[t] \in Chat!InFlight,
           NEW p \in ((Chat!InFlight \ {"saving"}) \cup Chat!Over) \ {"unsaved"}, Chat!Move(t, p),
           UNCHANGED <<copy, file, saving, loop, quiet>>,
           p \in {"storing", "caching"} => t \in copy[t]["dataset"],
           \/ cache' = cache
           \/ at[t] = "caching" /\ cache' = cache \cup {t}
    PROVE  TurnInv'
<1>0. TurnTypes /\ at \in [Turns -> {"new"} \cup Chat!InFlight \cup Chat!Over] BY DEF TurnInv, TurnTypes
<1>1. at'[t] = p /\ \A u \in Turns \ {t} : at'[u] = at[u]
  BY <1>0 DEF Chat!Move
<1>2. /\ \A u \in Turns : at[u] # "saving" /\ at'[u] # "saving"
      /\ quiet => \A f \in Chat!Files : file[f].whole
  BY <1>1, FreeLoop DEF Chat!Over
<1>3. TurnTypes'
  <2>1. at' \in [Turns -> {"new"} \cup Chat!InFlight \cup Chat!Over] BY <1>0 DEF Chat!Move
  <2>2. cache' \in SUBSET Turns BY DEF TurnInv, TurnTypes
  <2> QED BY <1>2, <2>1, <2>2 DEF TurnInv, TurnTypes
<1>4. ASSUME NEW u \in Turns PROVE Logged(u)'
  BY <1>0, <1>1, <1>2 DEF TurnInv, Logged, Chat!InFlight, Chat!Over
<1>5. ASSUME quiet PROVE OneTurn' /\ TornInWriting' /\ \A u \in Turns : Same(u)' /\ Kept(u)'
  <2>1. OneTurn /\ \A u \in Turns : Same(u) /\ Kept(u) BY <1>5 DEF TurnInv, Remembered
  <2>2. OneTurn' BY <1>1, <2>1 DEF OneTurn
  <2>3. TornInWriting' BY <1>2, <1>5 DEF TornInWriting
  <2>4. \A f \in Chat!Files : Chat!Loaded(f)' = Chat!Loaded(f) /\ file'[f].whole BY <1>2, <1>5 DEF Chat!Loaded
  <2>5. \A f \in Chat!Files : Chat!Loaded(f) = copy[t][f] BY <1>2, <1>5, <2>1 DEF Same
  <2>6. \A f \in Chat!Files : Chat!KnownIn(f, copy[t][f], Chat!Loaded(f))
    BY <1>0, <2>5, KnownInItself DEF TurnTypes
  <2>7. ASSUME NEW u \in Turns PROVE Same(u)'
    <3>1. CASE u = t BY <1>2, <2>4, <2>5, <3>1 DEF Same
    <3>2. CASE u # t BY <1>1, <1>2, <2>1, <2>4, <3>2 DEF Same
    <3> QED BY <3>1, <3>2
  <2>8. ASSUME NEW u \in Turns PROVE Kept(u)'
    <3>1. CASE u = t
      <4>1. \A f \in Chat!Files : Chat!Learned(t, f)' = copy[t][f] BY <1>1 DEF Chat!Learned
      <4> QED BY <1>2, <2>4, <2>6, <3>1, <4>1 DEF Kept
    <3>2. CASE u # t
      <4>1. \A f \in Chat!Files : Chat!Learned(u, f)' = Chat!Learned(u, f) BY <1>1, <3>2, LearnedSame
      <4> QED BY <1>1, <1>2, <2>1, <2>4, <3>2, <4>1 DEF Kept
    <3> QED BY <3>1, <3>2
  <2> QED BY <2>2, <2>3, <2>7, <2>8
<1> QED BY <1>3, <1>4, <1>5 DEF TurnInv, Remembered

\* A turn starts to save what it knows, and perhaps more.
LEMMA StartStep ==
    ASSUME TurnInv, Chat!LoopFree, NEW t \in Turns, at[t] \in Chat!InFlight,
           NEW f \in Chat!Files, NEW k, Known(f, k), Chat!KnownIn(f, copy[t][f], k),
           f = "dataset" => t \in k,
           Chat!StartSave(t, f, k), UNCHANGED <<cache, quiet>>
    PROVE  TurnInv'
<1>0. TurnTypes /\ at \in [Turns -> {"new"} \cup Chat!InFlight \cup Chat!Over] BY DEF TurnInv, TurnTypes
<1>1. /\ at'[t] = "saving" /\ \A u \in Turns \ {t} : at'[u] = at[u]
      /\ saving'[t] = f /\ \A u \in Turns \ {t} : saving'[u] = saving[u]
      /\ at' \in [Turns -> {"new"} \cup Chat!InFlight \cup Chat!Over]
      /\ saving' \in [Turns -> Chat!Files \cup {"none"}]
      /\ loop' = t
  BY <1>0 DEF TurnTypes, Chat!StartSave, Chat!InFlight
<1>2. /\ copy' = [u \in Turns |-> copy'[u]]
      /\ \A u \in Turns : copy'[u] = [g \in Chat!Files |-> copy'[u][g]]
      /\ \A u \in Turns, g \in Chat!Files : Known(g, copy'[u][g])
      /\ \A u \in Turns \ {t} : copy'[u] = copy[u]
      /\ copy'[t][f] = k /\ \A g \in Chat!Files \ {f} : copy'[t][g] = copy[t][g]
  BY <1>0, CopyPut DEF Chat!StartSave
<1>3. /\ file' = [g \in Chat!Files |-> file'[g]]
      /\ \A g \in Chat!Files : OnDisk(g, file'[g])
      /\ ~file'[f].whole
      /\ \A g \in Chat!Files \ {f} : file'[g] = file[g] /\ Chat!Loaded(g)' = Chat!Loaded(g)
  <2>1. OnDisk(f, Chat!Torn) /\ file' = [file EXCEPT ![f] = Chat!Torn] BY DEF OnDisk, Chat!StartSave
  <2> QED BY <1>0, <2>1, FilePut, TornNotWhole
<1>4. /\ \A u \in Turns : at[u] # "saving"
      /\ \A u \in Turns \ {t} : at'[u] # "saving"
      /\ quiet => \A g \in Chat!Files : file[g].whole
  BY <1>1, FreeLoop
<1>5. TurnTypes'
  <2>1. \A u \in Turns : at'[u] = "saving" => saving'[u] \in Chat!Files /\ loop' = u BY <1>1, <1>4
  <2> QED BY <1>0, <1>1, <1>2, <1>3, <2>1 DEF TurnTypes
<1>6. ASSUME NEW u \in Turns PROVE Logged(u)'
  <2>1. CASE u = t
    <3>1. t \in cache => t \in copy'[t]["dataset"] BY <1>2 DEF TurnInv, Logged, Chat!Files, Chat!Lists
    <3> QED BY <1>1, <1>2, <2>1, <3>1 DEF Logged
  <2>2. CASE u # t BY <1>1, <1>2, <1>4, <2>2 DEF TurnInv, Logged
  <2> QED BY <2>1, <2>2
<1>7. ASSUME quiet PROVE OneTurn' /\ TornInWriting' /\ \A u \in Turns : Same(u)' /\ Kept(u)'
  <2>1. OneTurn /\ \A u \in Turns : Same(u) /\ Kept(u) BY <1>7 DEF TurnInv, Remembered
  <2>2. OneTurn' BY <1>1, <2>1 DEF OneTurn
  <2>3. TornInWriting' BY <1>1, <1>3, <1>4, <1>7 DEF TornInWriting
  <2>4. \A u \in Turns \ {t} : at'[u] \notin Chat!InFlight BY <1>1, <2>1 DEF OneTurn
  <2>5. \A g \in Chat!Files \ {f} : Chat!Loaded(g)' = copy'[t][g] BY <1>2, <1>3, <1>4, <1>7, <2>1 DEF Same
  <2>6. ASSUME NEW u \in Turns PROVE Same(u)'
    <3>1. CASE u = t BY <1>1, <1>3, <2>5, <3>1 DEF Same
    <3>2. CASE u # t BY <2>4, <3>2 DEF Same
    <3> QED BY <3>1, <3>2
  <2>7. ASSUME NEW u \in Turns, at'[u] \in Chat!Over, NEW g \in Chat!Files
        PROVE  /\ file'[g].whole => Chat!KnownIn(g, Chat!Learned(u, g)', Chat!Loaded(g)')
               /\ \A w \in Turns : at'[w] = "saving" /\ saving'[w] = g => Chat!KnownIn(g, Chat!Learned(u, g)', copy'[w][g])
    <3>1. u # t /\ at[u] \in Chat!Over BY <1>1, <2>7 DEF Chat!Over
    <3>5. Chat!Learned(u, g)' = Chat!Learned(u, g) /\ Known(g, Chat!Learned(u, g))
      BY <1>0, <1>1, <1>2, <3>1, LearnedSame, LearnedKnown
    <3>2. Chat!KnownIn(g, Chat!Learned(u, g), Chat!Loaded(g)) BY <1>4, <1>7, <2>1, <3>1 DEF Kept
    <3>3. CASE g = f
      <4>1. Chat!Loaded(f) = copy[t][f] BY <1>4, <1>7, <2>1 DEF Same
      <4>2. Known(f, copy[t][f]) BY <1>0 DEF TurnTypes
      <4>3. Chat!KnownIn(f, Chat!Learned(u, g), k) BY <3>2, <3>3, <3>5, <4>1, <4>2, KnownInTransitive
      <4> QED BY <1>1, <1>2, <1>3, <1>4, <3>1, <3>3, <3>5, <4>3
    <3>4. CASE g # f BY <1>1, <1>2, <1>3, <1>4, <3>1, <3>2, <3>4, <3>5
    <3> QED BY <3>3, <3>4
  <2>8. \A u \in Turns : Kept(u)' BY <2>7 DEF Kept
  <2> QED BY <2>2, <2>3, <2>6, <2>8
<1> QED BY <1>5, <1>6, <1>7 DEF TurnInv, Remembered

\* The save ends well or badly; the turn goes on to where it waits.
LEMMA GoOnStep ==
    ASSUME TurnInv, NEW t \in Turns, at[t] = "saving", NEW f \in Chat!Files, f = saving[t],
           NEW p \in Chat!InFlight \ {"saving"}, p \in {"storing", "caching"} => f = "dataset",
           Chat!GoOn(t, p), UNCHANGED cache,
           \/ file' = [file EXCEPT ![f] = Chat!Written(t, f)] /\ quiet' = quiet
           \/ file' = file /\ ~quiet'
    PROVE  TurnInv'
<1>0. TurnTypes /\ at \in [Turns -> {"new"} \cup Chat!InFlight \cup Chat!Over] BY DEF TurnInv, TurnTypes
<1>1. /\ at'[t] = p /\ \A u \in Turns \ {t} : at'[u] = at[u]
      /\ at' \in [Turns -> {"new"} \cup Chat!InFlight \cup Chat!Over]
      /\ saving' \in [Turns -> Chat!Files \cup {"none"}]
      /\ \A u \in Turns \ {t} : saving'[u] = saving[u]
      /\ copy' = copy
  BY <1>0 DEF TurnTypes, Chat!GoOn
<1>2. \A u \in Turns : at'[u] # "saving"
  <2>1. \A u \in Turns : at[u] = "saving" => loop = u BY <1>0 DEF TurnTypes
  <2>2. \A u \in Turns \ {t} : at[u] # "saving" BY <2>1
  <2> QED BY <1>1, <2>2
<1>3. Known(f, copy[t][f]) /\ Chat!Written(t, f) = Chat!Contents(f, copy[t][f])
  BY <1>0 DEF TurnTypes, Chat!Written
<1>4. file' = [g \in Chat!Files |-> file'[g]] /\ \A g \in Chat!Files : OnDisk(g, file'[g])
  <2>1. OnDisk(f, Chat!Written(t, f)) BY <1>3 DEF OnDisk
  <2>2. CASE file' = [file EXCEPT ![f] = Chat!Written(t, f)] BY <1>0, <2>1, <2>2, FilePut
  <2>3. CASE file' = file BY <1>0, <2>3, FileKept
  <2> QED BY <2>2, <2>3
<1>5. TurnTypes'
  <2>1. cache' \in SUBSET Turns BY <1>0 DEF TurnTypes
  <2> QED BY <1>0, <1>1, <1>2, <1>4, <2>1 DEF TurnTypes
<1>6. ASSUME NEW u \in Turns PROVE Logged(u)'
  <2>1. Logged(u) BY DEF TurnInv
  <2>2. CASE u = t BY <1>1, <1>2, <2>1, <2>2 DEF Logged, Chat!InFlight
  <2>3. CASE u # t BY <1>1, <1>2, <2>1, <2>3 DEF Logged
  <2> QED BY <2>2, <2>3
<1>7. ASSUME quiet' PROVE OneTurn' /\ TornInWriting' /\ \A u \in Turns : Same(u)' /\ Kept(u)'
  <2>1. /\ quiet /\ file' = [file EXCEPT ![f] = Chat!Written(t, f)]
        /\ OneTurn /\ TornInWriting /\ \A u \in Turns : Same(u) /\ Kept(u)
    BY <1>7 DEF TurnInv, Remembered
  <2>2. /\ file'[f] = Chat!Contents(f, copy[t][f])
        /\ \A g \in Chat!Files \ {f} : file'[g] = file[g] /\ Chat!Loaded(g)' = Chat!Loaded(g)
    <3>1. OnDisk(f, Chat!Written(t, f)) BY <1>3 DEF OnDisk
    <3> QED BY <1>0, <1>3, <2>1, <3>1, FilePut
  <2>3. file'[f].whole /\ Chat!Loaded(f)' = copy[t][f]
    BY <2>2, ContentsWhole DEF Chat!Loaded
  <2>4. \A u \in Turns \ {t} : at'[u] \notin Chat!InFlight /\ at[u] # "saving"
    BY <1>1, <2>1 DEF OneTurn, Chat!InFlight
  <2>5. OneTurn' BY <2>4 DEF OneTurn
  <2>6. \A g \in Chat!Files \ {f} : file[g].whole BY <2>1, <2>4 DEF TornInWriting
  <2>7. TornInWriting' BY <2>2, <2>3, <2>6 DEF TornInWriting
  <2>8. ASSUME NEW u \in Turns PROVE Same(u)'
    <3>1. CASE u = t
      <4>1. \A g \in Chat!Files \ {f} : Chat!Loaded(g) = copy[t][g] BY <2>1, <2>6 DEF Same, Chat!InFlight
      <4> QED BY <1>1, <1>2, <2>2, <2>3, <3>1, <4>1 DEF Same
    <3>2. CASE u # t BY <2>4, <3>2 DEF Same
    <3> QED BY <3>1, <3>2
  <2>9. ASSUME NEW u \in Turns, at'[u] \in Chat!Over, NEW g \in Chat!Files
        PROVE  file'[g].whole => Chat!KnownIn(g, Chat!Learned(u, g)', Chat!Loaded(g)')
    <3>1. u # t /\ at[u] \in Chat!Over BY <1>1, <2>9 DEF Chat!Over, Chat!InFlight
    <3>4. Chat!Learned(u, g)' = Chat!Learned(u, g) BY <1>1, <3>1, LearnedSame
    <3>2. CASE g = f
      <4>1. Chat!KnownIn(f, Chat!Learned(u, g), copy[t][f]) BY <2>1, <3>1, <3>2 DEF Kept
      <4> QED BY <1>1, <2>3, <3>2, <3>4, <4>1
    <3>3. CASE g # f
      <4>1. Chat!KnownIn(g, Chat!Learned(u, g), Chat!Loaded(g)) BY <2>1, <2>6, <3>1, <3>3 DEF Kept
      <4> QED BY <1>1, <2>2, <3>3, <3>4, <4>1
    <3> QED BY <3>2, <3>3
  <2>10. \A u \in Turns : Kept(u)' BY <1>2, <2>9 DEF Kept
  <2> QED BY <2>5, <2>7, <2>8, <2>10
<1> QED BY <1>5, <1>6, <1>7 DEF TurnInv, Remembered

\* The prompts are saved, or that failed, and the dataset follows at once.
LEMMA DatasetStep ==
    ASSUME TurnInv, NEW t \in Turns, at[t] = "saving", saving[t] = "prompts", UNCHANGED <<at, loop, cache>>,
           copy' = [copy EXCEPT ![t]["dataset"] = @ \cup {t}],
           saving' = [saving EXCEPT ![t] = "dataset"],
           \/ /\ file' = [[file EXCEPT !["prompts"] = Chat!Written(t, "prompts")] EXCEPT !["dataset"] = Chat!Torn]
              /\ quiet' = quiet
           \/ file' = [file EXCEPT !["dataset"] = Chat!Torn] /\ ~quiet'
    PROVE  TurnInv'
<1> DEFINE k == copy[t]["dataset"] \cup {t}
<1>0. TurnTypes /\ "prompts" \in Chat!Files /\ "dataset" \in Chat!Files /\ Chat!Files = {"kg", "dataset", "prompts"}
  BY DEF TurnInv, Chat!Files, Chat!Lists
<1>1. Known("dataset", k) /\ Chat!KnownIn("dataset", copy[t]["dataset"], k)
  BY <1>0 DEF TurnTypes, Known, Chat!KnownIn
<1> HIDE DEF k
<1>2. /\ copy' = [u \in Turns |-> copy'[u]]
      /\ \A u \in Turns : copy'[u] = [g \in Chat!Files |-> copy'[u][g]]
      /\ \A u \in Turns, g \in Chat!Files : Known(g, copy'[u][g])
      /\ \A u \in Turns \ {t} : copy'[u] = copy[u]
      /\ copy'[t]["dataset"] = k /\ \A g \in Chat!Files \ {"dataset"} : copy'[t][g] = copy[t][g]
  <2>1. copy' = [copy EXCEPT ![t]["dataset"] = k] BY DEF k
  <2> QED BY <1>0, <1>1, <2>1, CopyPut
<1>3. /\ saving'[t] = "dataset" /\ \A u \in Turns \ {t} : saving'[u] = saving[u]
      /\ saving' \in [Turns -> Chat!Files \cup {"none"}]
  BY <1>0 DEF TurnTypes
<1>4. \A u \in Turns \ {t} : at[u] # "saving" BY <1>0 DEF TurnTypes
<1>5. Known("prompts", copy[t]["prompts"]) /\ Chat!Written(t, "prompts") = Chat!Contents("prompts", copy[t]["prompts"])
  BY <1>0 DEF TurnTypes, Chat!Written
<1>6. /\ file' = [g \in Chat!Files |-> file'[g]]
      /\ file'["kg"] = file["kg"] /\ file'["dataset"] = Chat!Torn
      /\ \/ file'["prompts"] = Chat!Contents("prompts", copy[t]["prompts"]) /\ quiet' = quiet
         \/ file'["prompts"] = file["prompts"] /\ ~quiet'
  <2>1. file = [g \in Chat!Files |-> file[g]] BY <1>0 DEF TurnTypes
  <2> QED BY <1>0, <1>5, <2>1
<1>7. \A g \in Chat!Files : OnDisk(g, file'[g])
  BY <1>0, <1>5, <1>6 DEF OnDisk, TurnTypes
<1>8. TurnTypes'
  <2>1. cache' \in SUBSET Turns /\ at' \in [Turns -> {"new"} \cup Chat!InFlight \cup Chat!Over]
    BY <1>0 DEF TurnTypes
  <2>2. \A u \in Turns : at'[u] = "saving" => saving'[u] \in Chat!Files /\ loop' = u
    BY <1>0, <1>3 DEF TurnTypes
  <2> QED BY <1>2, <1>3, <1>6, <1>7, <2>1, <2>2 DEF TurnTypes
<1>9. ASSUME NEW u \in Turns PROVE Logged(u)'
  <2>1. Logged(u) BY DEF TurnInv
  <2>2. CASE u = t BY <1>2, <1>3, <2>1, <2>2 DEF Logged, k
  <2>3. CASE u # t BY <1>2, <1>3, <2>1, <2>3 DEF Logged
  <2> QED BY <2>2, <2>3
<1>10. ASSUME quiet' PROVE OneTurn' /\ TornInWriting' /\ \A u \in Turns : Same(u)' /\ Kept(u)'
  <2>1. /\ quiet /\ file'["prompts"] = Chat!Contents("prompts", copy[t]["prompts"])
        /\ OneTurn /\ TornInWriting /\ \A u \in Turns : Same(u) /\ Kept(u)
    BY <1>6, <1>10 DEF TurnInv, Remembered
  <2>2. \A g \in Chat!Files \ {"prompts"} : file[g].whole BY <1>4, <2>1 DEF TornInWriting
  <2>3. \A u \in Turns \ {t} : at[u] \notin Chat!InFlight BY <2>1 DEF OneTurn, Chat!InFlight
  <2>4. OneTurn' BY <2>1 DEF OneTurn
  <2>5. file'["prompts"].whole /\ Chat!Loaded("prompts")' = copy[t]["prompts"]
    BY <2>1, ContentsWhole DEF Chat!Loaded
  <2>6. file'["kg"].whole /\ Chat!Loaded("kg")' = Chat!Loaded("kg") BY <1>0, <1>6, <2>2 DEF Chat!Loaded
  <2>7. ~file'["dataset"].whole BY <1>6, TornNotWhole
  <2>8. TornInWriting' BY <1>0, <1>3, <2>5, <2>6 DEF TornInWriting
  <2>9. ASSUME NEW u \in Turns PROVE Same(u)'
    <3>1. CASE u = t
      <4>1. Chat!Loaded("kg") = copy[t]["kg"] BY <1>0, <2>1, <2>2 DEF Same, Chat!InFlight
      <4> QED BY <1>0, <1>2, <1>3, <2>5, <2>6, <2>7, <3>1, <4>1 DEF Same
    <3>2. CASE u # t BY <2>3, <3>2 DEF Same
    <3> QED BY <3>1, <3>2
  <2>10. ASSUME NEW u \in Turns, at'[u] \in Chat!Over, NEW g \in Chat!Files
         PROVE  /\ file'[g].whole => Chat!KnownIn(g, Chat!Learned(u, g)', Chat!Loaded(g)')
                /\ \A w \in Turns : at'[w] = "saving" /\ saving'[w] = g => Chat!KnownIn(g, Chat!Learned(u, g)', copy'[w][g])
    <3>1. u # t /\ at[u] \in Chat!Over BY <2>10 DEF Chat!Over
    <3>5. Chat!Learned(u, g)' = Chat!Learned(u, g) /\ Known(g, Chat!Learned(u, g))
      BY <1>0, <1>2, <3>1, LearnedSame, LearnedKnown
    <3>2. CASE g = "prompts"
      <4>1. Chat!KnownIn(g, Chat!Learned(u, g), copy[t][g]) BY <1>0, <2>1, <3>1, <3>2 DEF Kept
      <4> QED BY <1>2, <1>3, <1>4, <2>5, <3>1, <3>2, <3>5, <4>1
    <3>3. CASE g = "kg"
      <4>1. Chat!KnownIn(g, Chat!Learned(u, g), Chat!Loaded(g)) BY <1>0, <2>1, <2>2, <3>1, <3>3 DEF Kept
      <4> QED BY <1>2, <1>3, <1>4, <2>6, <3>1, <3>3, <3>5, <4>1
    <3>4. CASE g = "dataset"
      <4>1. Chat!KnownIn(g, Chat!Learned(u, g), Chat!Loaded(g)) BY <1>0, <2>1, <2>2, <3>1, <3>4 DEF Kept
      <4>2. Chat!Loaded(g) = copy[t][g] BY <1>0, <2>1, <2>2, <3>4 DEF Same, Chat!InFlight
      <4>3. Known(g, copy[t][g]) /\ Known(g, k) BY <1>0, <1>1, <3>4 DEF TurnTypes
      <4>4. Chat!KnownIn(g, Chat!Learned(u, g), k) BY <1>1, <3>4, <3>5, <4>1, <4>2, <4>3, KnownInTransitive
      <4> QED BY <1>2, <1>3, <1>4, <2>7, <3>1, <3>4, <3>5, <4>4
    <3> QED BY <1>0, <3>2, <3>3, <3>4
  <2>11. \A u \in Turns : Kept(u)' BY <2>10 DEF Kept
  <2> QED BY <2>4, <2>8, <2>9, <2>11
<1> QED BY <1>8, <1>9, <1>10 DEF TurnInv, Remembered

\* A request comes and loads the files.  If it is the only one, they are whole.
LEMMA BeginStep == ASSUME TurnInv, NEW t \in Turns, Chat!Begin(t) PROVE TurnInv'
<1>0. TurnTypes /\ at \in [Turns -> {"new"} \cup Chat!InFlight \cup Chat!Over] BY DEF TurnInv, TurnTypes
<1>1. /\ at[t] = "new" /\ at'[t] \in {"lookup", "blocked"}
      /\ \A u \in Turns \ {t} : at'[u] = at[u]
      /\ at' \in [Turns -> {"new"} \cup Chat!InFlight \cup Chat!Over]
      /\ UNCHANGED <<saving, loop, cache>>
  BY <1>0 DEF Chat!Begin, Chat!Move, Chat!InFlight, Chat!Over
<1> DEFINE c == [f \in Chat!Files |-> Chat!Loaded(f)]
<1>2. /\ copy' = [u \in Turns |-> copy'[u]]
      /\ \A u \in Turns : copy'[u] = [g \in Chat!Files |-> copy'[u][g]]
      /\ \A u \in Turns, g \in Chat!Files : Known(g, copy'[u][g])
      /\ \A u \in Turns \ {t} : copy'[u] = copy[u]
      /\ \A g \in Chat!Files : copy'[t][g] = Chat!Loaded(g)
  <2>1. c = [g \in Chat!Files |-> c[g]] /\ \A g \in Chat!Files : c[g] = Chat!Loaded(g) /\ Known(g, c[g])
    BY <1>0, LoadedKnown
  <2>2. copy' = [copy EXCEPT ![t] = c] BY DEF Chat!Begin
  <2> HIDE DEF c
  <2>3. copy = [u \in Turns |-> copy[u]] BY <1>0 DEF TurnTypes
  <2>4. copy' = [u \in Turns |-> copy'[u]] /\ copy'[t] = c /\ \A u \in Turns \ {t} : copy'[u] = copy[u]
    BY <2>2, <2>3
  <2> QED BY <1>0, <2>1, <2>4 DEF TurnTypes
<1>3. file' = [g \in Chat!Files |-> file'[g]] /\ \A g \in Chat!Files : OnDisk(g, file'[g])
  <2>1. CASE file' = file BY <1>0, <2>1, FileKept
  <2>2. CASE file' = [file EXCEPT !["prompts"] = Chat!Contents("prompts", Chat!Fresh)]
    <3>1. "prompts" \in Chat!Files BY DEF Chat!Files
    <3>2. OnDisk("prompts", Chat!Contents("prompts", Chat!Fresh)) BY FreshKnown DEF OnDisk
    <3> QED BY <1>0, <2>2, <3>1, <3>2, FilePut
  <2> QED BY <2>1, <2>2 DEF Chat!Begin
<1>4. TurnTypes'
  <2>1. /\ cache' \in SUBSET Turns /\ saving' \in [Turns -> Chat!Files \cup {"none"}]
        /\ \A u \in Turns : at'[u] = "saving" => saving'[u] \in Chat!Files /\ loop' = u
    BY <1>0, <1>1 DEF TurnTypes
  <2> QED BY <1>1, <1>2, <1>3, <2>1 DEF TurnTypes
<1>5. ASSUME NEW u \in Turns PROVE Logged(u)'
  <2>1. Logged(u) BY DEF TurnInv
  <2>2. CASE u = t BY <1>1, <2>1, <2>2 DEF Logged
  <2>3. CASE u # t BY <1>1, <1>2, <2>1, <2>3 DEF Logged
  <2> QED BY <2>2, <2>3
<1>6. ASSUME quiet' PROVE OneTurn' /\ TornInWriting' /\ \A u \in Turns : Same(u)' /\ Kept(u)'
  <2>1. /\ \A u \in Turns : at[u] \notin Chat!InFlight
        /\ OneTurn /\ TornInWriting /\ \A u \in Turns : Same(u) /\ Kept(u)
    BY <1>6 DEF Chat!Begin, TurnInv, Remembered
  <2>2. \A g \in Chat!Files : file[g].whole BY <2>1 DEF TornInWriting, Chat!InFlight
  <2>3. file' = file
    <3>1. "prompts" \in Chat!Files BY DEF Chat!Files
    <3> QED BY <2>2, <3>1 DEF Chat!Begin
  <2>4. \A g \in Chat!Files : Chat!Loaded(g)' = Chat!Loaded(g) BY <1>0, <2>3, FileKept
  <2>5. \A u \in Turns : at'[u] # "saving" /\ (u # t => at'[u] \notin Chat!InFlight)
    BY <1>1, <2>1 DEF Chat!InFlight
  <2>6. OneTurn' BY <2>5 DEF OneTurn
  <2>7. TornInWriting' BY <2>2, <2>3 DEF TornInWriting
  <2>8. ASSUME NEW u \in Turns PROVE Same(u)'
    <3>1. CASE u = t BY <1>2, <2>4, <2>5, <3>1 DEF Same
    <3>2. CASE u # t BY <2>5, <3>2 DEF Same
    <3> QED BY <3>1, <3>2
  <2>9. ASSUME NEW u \in Turns, at'[u] \in Chat!Over, NEW g \in Chat!Files
        PROVE  Chat!KnownIn(g, Chat!Learned(u, g)', Chat!Loaded(g)')
    <3>1. CASE u = t
      <4>1. Known(g, copy'[t][g]) /\ copy'[t][g] = Chat!Loaded(g) BY <1>2
      <4>2. Chat!KnownIn(g, copy'[t][g], copy'[t][g]) BY <4>1, KnownInItself
      <4>3. Chat!Learned(t, g)' = copy'[t][g] BY <1>1 DEF Chat!Learned
      <4> QED BY <2>4, <3>1, <4>1, <4>2, <4>3
    <3>2. CASE u # t
      <4>1. Chat!Learned(u, g)' = Chat!Learned(u, g) BY <1>1, <1>2, <3>2, LearnedSame
      <4> QED BY <1>1, <2>1, <2>2, <2>4, <2>9, <3>2, <4>1 DEF Kept
    <3> QED BY <3>1, <3>2
  <2>10. \A u \in Turns : Kept(u)' BY <2>5, <2>9 DEF Kept
  <2> QED BY <2>6, <2>7, <2>8, <2>10
<1> QED BY <1>4, <1>5, <1>6 DEF TurnInv, Remembered

\* add_data raises: what the turn had added to its copy goes with it.
LEMMA UnsavedStep ==
    ASSUME TurnInv, Chat!LoopFree, NEW t \in Turns, at[t] = "extracting", Chat!Move(t, "unsaved"),
           copy' = [copy EXCEPT ![t]["kg"] = @ \cup {t}], UNCHANGED <<file, saving, loop, cache, quiet>>
    PROVE  TurnInv'
<1> DEFINE k == copy[t]["kg"] \cup {t}
<1>0. TurnTypes /\ "kg" \in Chat!Files /\ Chat!Files = {"kg", "dataset", "prompts"}
  BY DEF TurnInv, Chat!Files, Chat!Lists
<1>1. Known("kg", k) BY <1>0 DEF TurnTypes, Known
<1>2. /\ at'[t] = "unsaved" /\ \A u \in Turns \ {t} : at'[u] = at[u]
      /\ at' \in [Turns -> {"new"} \cup Chat!InFlight \cup Chat!Over]
  BY <1>0 DEF TurnTypes, Chat!Move, Chat!Over
<1>3. /\ copy' = [u \in Turns |-> copy'[u]]
      /\ \A u \in Turns : copy'[u] = [g \in Chat!Files |-> copy'[u][g]]
      /\ \A u \in Turns, g \in Chat!Files : Known(g, copy'[u][g])
      /\ \A u \in Turns \ {t} : copy'[u] = copy[u]
      /\ copy'[t]["kg"] = k /\ \A g \in Chat!Files \ {"kg"} : copy'[t][g] = copy[t][g]
  <2>1. copy' = [copy EXCEPT ![t]["kg"] = k] OBVIOUS
  <2> HIDE DEF k
  <2> QED BY <1>0, <1>1, <2>1, CopyPut
<1>4. /\ \A u \in Turns : at'[u] # "saving"
      /\ quiet => \A g \in Chat!Files : file[g].whole
  BY <1>2, FreeLoop
<1>5. TurnTypes' BY <1>0, <1>2, <1>3, <1>4 DEF TurnTypes
<1>6. ASSUME NEW u \in Turns PROVE Logged(u)'
  <2>1. Logged(u) BY DEF TurnInv
  <2>2. CASE u = t BY <1>0, <1>2, <1>3, <2>1, <2>2 DEF Logged
  <2>3. CASE u # t BY <1>2, <1>3, <2>1, <2>3 DEF Logged
  <2> QED BY <2>2, <2>3
<1>7. ASSUME quiet PROVE OneTurn' /\ TornInWriting' /\ \A u \in Turns : Same(u)' /\ Kept(u)'
  <2>1. OneTurn /\ \A u \in Turns : Same(u) /\ Kept(u) BY <1>7 DEF TurnInv, Remembered
  <2>2. \A u \in Turns : at'[u] \notin Chat!InFlight BY <1>2, <2>1 DEF OneTurn, Chat!InFlight
  <2>3. OneTurn' /\ TornInWriting' BY <1>4, <1>7, <2>2 DEF OneTurn, TornInWriting
  <2>4. \A u \in Turns : Same(u)' BY <2>2 DEF Same
  <2>5. \A g \in Chat!Files : Chat!Loaded(g)' = Chat!Loaded(g) BY DEF Chat!Loaded
  <2>6. ASSUME NEW u \in Turns, at'[u] \in Chat!Over, NEW g \in Chat!Files
        PROVE  Chat!KnownIn(g, Chat!Learned(u, g)', Chat!Loaded(g)')
    <3>1. CASE u = t
      <4>1. Chat!Loaded(g) = copy[t][g] /\ Known(g, copy[t][g])
        BY <1>0, <1>4, <1>7, <2>1 DEF Same, TurnTypes, Chat!InFlight
      <4>2. CASE g = "kg"
        <5>1. Chat!Learned(t, g)' = k \ {t} BY <1>2, <1>3, <4>2 DEF Chat!Learned
        <5> QED BY <2>5, <3>1, <4>1, <4>2, <5>1 DEF Chat!KnownIn
      <4>3. CASE g # "kg"
        <5>1. Chat!Learned(t, g)' = copy[t][g] BY <1>3, <4>3 DEF Chat!Learned
        <5> QED BY <2>5, <3>1, <4>1, <5>1, KnownInItself
      <4> QED BY <4>2, <4>3
    <3>2. CASE u # t
      <4>1. Chat!Learned(u, g)' = Chat!Learned(u, g) BY <1>2, <1>3, <3>2, LearnedSame
      <4> QED BY <1>2, <1>4, <1>7, <2>1, <2>5, <2>6, <3>2, <4>1 DEF Kept
    <3> QED BY <3>1, <3>2
  <2>7. \A u \in Turns : Kept(u)' BY <1>4, <2>6 DEF Kept
  <2> QED BY <2>3, <2>4, <2>7
<1> QED BY <1>5, <1>6, <1>7 DEF TurnInv, Remembered

LEMMA CrashStep == ASSUME TurnInv, Chat!Crash PROVE TurnInv'
<1>0. TurnTypes /\ at \in [Turns -> {"new"} \cup Chat!InFlight \cup Chat!Over] BY DEF TurnInv, TurnTypes
<1>1. /\ at' = [u \in Turns |-> IF at[u] \in Chat!InFlight THEN "crashed" ELSE at[u]]
      /\ ~quiet' /\ UNCHANGED <<copy, file, cache>>
      /\ saving' \in [Turns -> Chat!Files \cup {"none"}]
  BY DEF Chat!Crash
<1>2. /\ \A u \in Turns : at'[u] = IF at[u] \in Chat!InFlight THEN "crashed" ELSE at[u]
      /\ \A u \in Turns : at'[u] \notin Chat!InFlight
      /\ at' \in [Turns -> {"new"} \cup Chat!InFlight \cup Chat!Over]
  BY <1>0, <1>1 DEF Chat!InFlight, Chat!Over
<1>3. TurnTypes'
  <2>1. \A u \in Turns : at'[u] # "saving" BY <1>2 DEF Chat!InFlight
  <2> QED BY <1>0, <1>1, <1>2, <2>1 DEF TurnTypes
<1>4. ASSUME NEW u \in Turns PROVE Logged(u)'
  <2>1. Logged(u) BY DEF TurnInv
  <2>2. at'[u] \notin {"saving", "storing", "caching"} BY <1>2 DEF Chat!InFlight
  <2>3. at[u] # "new" => at'[u] # "new" BY <1>2
  <2> QED BY <1>1, <2>1, <2>2, <2>3 DEF Logged
<1> QED BY <1>1, <1>3, <1>4 DEF TurnInv, Remembered

LEMMA EndSaveStep == ASSUME TurnInv, NEW t \in Turns, Chat!EndSave(t) PROVE TurnInv'
<1>1. /\ at[t] = "saving" /\ saving[t] \in Chat!Files /\ UNCHANGED cache
  BY DEF Chat!EndSave, TurnInv, TurnTypes
<1> DEFINE f == saving[t]
           written == [file EXCEPT ![f] = Chat!Written(t, f)]
<1>2. PICK onDisk \in {file, written} :
        Chat!AfterSave(t, f, onDisk) /\ ((onDisk = written /\ quiet' = quiet) \/ (onDisk = file /\ ~quiet'))
  BY DEF Chat!EndSave
<1>3. ASSUME NEW p \in Chat!InFlight \ {"saving"}, p \in {"storing", "caching"} => f = "dataset",
             Chat!GoOn(t, p), file' = onDisk
      PROVE  TurnInv'
  BY <1>1, <1>2, <1>3, GoOnStep
<1>4. CASE f = "kg" /\ Chat!GoOn(t, "grading") /\ file' = onDisk BY <1>3, <1>4 DEF Chat!InFlight
<1>5. CASE f = "dataset" /\ Chat!GoOn(t, "storing") /\ file' = onDisk BY <1>3, <1>5 DEF Chat!InFlight
<1>6. CASE Chat!GoOn(t, "evolving") /\ file' = onDisk BY <1>3, <1>6 DEF Chat!InFlight
<1>7. CASE /\ f = "prompts"
           /\ copy' = [copy EXCEPT ![t]["dataset"] = @ \cup {t}]
           /\ file' = [onDisk EXCEPT !["dataset"] = Chat!Torn]
           /\ saving' = [saving EXCEPT ![t] = "dataset"]
           /\ UNCHANGED <<at, loop>>
  <2>1. CASE onDisk = file /\ ~quiet' BY <1>1, <1>7, <2>1, DatasetStep
  <2>2. CASE onDisk = written /\ quiet' = quiet BY <1>1, <1>7, <2>2, DatasetStep
  <2> QED BY <1>2, <2>1, <2>2
<1> HIDE DEF f, written
<1> QED BY <1>2, <1>4, <1>5, <1>6, <1>7 DEF Chat!AfterSave

LEMMA TurnStep == ASSUME TurnInv, [Chat!Next]_turn PROVE TurnInv'
<1>0. TurnTypes /\ Chat!Files = {"kg", "dataset", "prompts"}
  BY DEF TurnInv, Chat!Files, Chat!Lists
<1> DEFINE Stay == UNCHANGED <<copy, file, saving, loop, quiet>>
<1>1. ASSUME NEW t \in Turns, Chat!Begin(t) PROVE TurnInv' BY <1>1, BeginStep
<1>2. ASSUME NEW t \in Turns, Chat!LoopFree, at[t] \in Chat!InFlight, Stay,
             NEW p \in ((Chat!InFlight \ {"saving"}) \cup Chat!Over) \ {"storing", "caching", "unsaved"},
             Chat!Move(t, p), cache' = cache
      PROVE  TurnInv'
  BY <1>2, MoveStep
<1> HIDE DEF Stay
<1>3. ASSUME NEW t \in Turns, Chat!Lookup(t) PROVE TurnInv'
  <2>1. /\ Chat!LoopFree /\ at[t] \in Chat!InFlight /\ Stay /\ cache' = cache
        /\ Chat!Move(t, "cached") \/ Chat!Move(t, "retrieving")
    BY <1>3 DEF Chat!Lookup, Chat!At, Chat!InFlight, Chat!files, Stay
  <2> QED BY <1>2, <2>1 DEF Chat!InFlight, Chat!Over
<1>4. ASSUME NEW t \in Turns, Chat!Retrieve(t) PROVE TurnInv'
  <2>1. /\ Chat!LoopFree /\ at[t] \in Chat!InFlight /\ Stay /\ cache' = cache
        /\ Chat!Move(t, "gathering")
    BY <1>4 DEF Chat!Retrieve, Chat!At, Chat!InFlight, Chat!files, Stay
  <2> QED BY <1>2, <2>1 DEF Chat!InFlight
<1>5. ASSUME NEW t \in Turns, Chat!Gather(t) PROVE TurnInv'
  <2>1. /\ Chat!LoopFree /\ at[t] \in Chat!InFlight /\ Stay /\ cache' = cache
        /\ \/ Chat!Move(t, "broken") \/ Chat!Move(t, "refused")
           \/ Chat!Move(t, "streamed") \/ Chat!Move(t, "agents")
    BY <1>5 DEF Chat!Gather, Chat!At, Chat!InFlight, Chat!files, Stay
  <2> QED BY <1>2, <2>1 DEF Chat!InFlight, Chat!Over
<1>6. ASSUME NEW t \in Turns, Chat!Answer(t) PROVE TurnInv'
  <2>1. /\ Chat!LoopFree /\ at[t] \in Chat!InFlight /\ Stay /\ cache' = cache
        /\ Chat!Move(t, "extracting")
    BY <1>6 DEF Chat!Answer, Chat!At, Chat!InFlight, Chat!files, Stay
  <2> QED BY <1>2, <2>1 DEF Chat!InFlight
<1>7. ASSUME NEW t \in Turns, NEW l \in Chat!Lists, Chat!LoopFree, at[t] \in Chat!InFlight,
             Chat!StartSave(t, l, copy[t][l] \cup {t}), UNCHANGED <<cache, quiet>>
      PROVE  TurnInv'
  <2> DEFINE k == copy[t][l] \cup {t}
  <2>1. l \in Chat!Files /\ l # "prompts" BY DEF Chat!Files, Chat!Lists
  <2>2. Known(l, k) /\ Chat!KnownIn(l, copy[t][l], k) /\ t \in k
    BY <1>0, <2>1 DEF TurnTypes, Known, Chat!KnownIn
  <2>3. Chat!StartSave(t, l, k) BY <1>7
  <2> HIDE DEF k
  <2> QED BY <1>7, <2>1, <2>2, <2>3, StartStep
<1>8. ASSUME NEW t \in Turns, Chat!Extract(t) PROVE TurnInv'
  <2>1. Chat!LoopFree /\ at[t] \in Chat!InFlight /\ UNCHANGED <<cache, quiet>>
    BY <1>8 DEF Chat!Extract, Chat!At, Chat!InFlight
  <2>2. CASE Chat!StartSave(t, "kg", copy[t]["kg"] \cup {t}) BY <1>7, <2>1, <2>2 DEF Chat!Lists
  <2>3. CASE Chat!Move(t, "grading") /\ UNCHANGED Chat!files
    BY <1>2, <2>1, <2>3 DEF Chat!InFlight, Chat!files, Stay
  <2>4. CASE /\ Chat!Move(t, "unsaved")
             /\ copy' = [copy EXCEPT ![t]["kg"] = @ \cup {t}]
             /\ UNCHANGED <<file, saving, loop>>
    BY <1>8, <2>1, <2>4, UnsavedStep DEF Chat!Extract, Chat!At
  <2> QED BY <1>8, <2>2, <2>3, <2>4 DEF Chat!Extract
<1>9. ASSUME NEW t \in Turns, Chat!LoopFree, at[t] \in Chat!InFlight, NEW k, Known("prompts", k),
             Chat!KnownIn("prompts", copy[t]["prompts"], k), Chat!StartSave(t, "prompts", k), UNCHANGED <<cache, quiet>>
      PROVE  TurnInv'
  BY <1>0, <1>9, StartStep
<1>10. ASSUME NEW t \in Turns, Chat!Grade(t) PROVE TurnInv'
  <2>1. Chat!LoopFree /\ at[t] \in Chat!InFlight /\ UNCHANGED <<cache, quiet>>
    BY <1>10 DEF Chat!Grade, Chat!At, Chat!InFlight
  <2>2. CASE Chat!StartSave(t, "dataset", copy[t]["dataset"] \cup {t}) BY <1>7, <2>1, <2>2 DEF Chat!Lists
  <2>3. ASSUME NEW score \in {0, 1},
               Chat!StartSave(t, "prompts", Chat!AfterFeedback(copy[t]["prompts"], used[t], score))
        PROVE  TurnInv'
    <3>1. Known("prompts", copy[t]["prompts"]) BY <1>0 DEF TurnTypes
    <3> QED BY <1>9, <2>1, <2>3, <3>1, FeedbackKnown
  <2> QED BY <1>10, <2>2, <2>3 DEF Chat!Grade
<1>11. ASSUME NEW t \in Turns, Chat!Evolve(t) PROVE TurnInv'
  <2>1. Chat!LoopFree /\ at[t] \in Chat!InFlight /\ UNCHANGED <<cache, quiet>>
    BY <1>11 DEF Chat!Evolve, Chat!At, Chat!InFlight
  <2>2. CASE Chat!StartSave(t, "dataset", copy[t]["dataset"] \cup {t}) BY <1>7, <2>1, <2>2 DEF Chat!Lists
  <2>3. ASSUME NEW v \in Chat!NewIds, Chat!StartSave(t, "prompts", Chat!Evolved(copy[t]["prompts"], v))
        PROVE  TurnInv'
    <3>1. Known("prompts", copy[t]["prompts"]) BY <1>0 DEF TurnTypes
    <3>2. v \in Nat \ {0} /\ v \notin DOMAIN copy[t]["prompts"].versions
      BY VersionsAssumption DEF Chat!NewIds, Chat!VersionIds
    <3> QED BY <1>9, <2>1, <2>3, <3>1, <3>2, EvolvedKnown
  <2> QED BY <1>11, <2>2, <2>3 DEF Chat!Evolve
<1>12. ASSUME NEW t \in Turns, Chat!Store(t) PROVE TurnInv'
  <2>1. /\ Chat!LoopFree /\ at[t] \in Chat!InFlight /\ UNCHANGED <<copy, file, saving, loop, quiet>> /\ cache' = cache
        /\ Chat!Move(t, "caching") /\ at[t] = "storing"
    BY <1>12 DEF Chat!Store, Chat!At, Chat!InFlight, Chat!files
  <2>2. t \in copy[t]["dataset"] BY <2>1 DEF TurnInv, Logged
  <2> QED BY <2>1, <2>2, MoveStep DEF Chat!InFlight
<1>13. ASSUME NEW t \in Turns, Chat!CacheAnswer(t) PROVE TurnInv'
  <2>1. /\ Chat!LoopFree /\ at[t] \in Chat!InFlight /\ UNCHANGED <<copy, file, saving, loop, quiet>>
        /\ Chat!Move(t, "evicting") /\ at[t] = "caching" /\ cache' = cache \cup {t}
    BY <1>13 DEF Chat!CacheAnswer, Chat!At, Chat!InFlight, Chat!files
  <2> QED BY <2>1, MoveStep DEF Chat!InFlight
<1>19. ASSUME NEW t \in Turns, Chat!Respond(t) PROVE TurnInv'
  <2>1. /\ Chat!LoopFree /\ at[t] \in Chat!InFlight /\ Stay /\ cache' = cache
        /\ Chat!Move(t, "answered")
    BY <1>19 DEF Chat!Respond, Chat!At, Chat!InFlight, Chat!files, Stay
  <2> QED BY <1>2, <2>1 DEF Chat!Over
<1>14. ASSUME NEW t \in Turns, Chat!EndSave(t) PROVE TurnInv' BY <1>14, EndSaveStep
<1>15. ASSUME NEW t \in Turns, Chat!Fail(t) PROVE TurnInv'
  <2>1. /\ Chat!LoopFree /\ at[t] \in Chat!InFlight /\ Stay /\ cache' = cache
        /\ Chat!Move(t, "failed")
    BY <1>15 DEF Chat!Fail, Chat!InFlight, Chat!files, Stay
  <2> QED BY <1>2, <2>1 DEF Chat!Over
<1>16. ASSUME NEW t \in Turns, Chat!Cancel(t) PROVE TurnInv'
  <2>1. /\ Chat!LoopFree /\ at[t] \in Chat!InFlight /\ Stay /\ cache' = cache
        /\ Chat!Move(t, "cancelled")
    BY <1>16 DEF Chat!Cancel, Chat!files, Stay
  <2> QED BY <1>2, <2>1 DEF Chat!Over
<1>17. CASE Chat!Crash BY <1>17, CrashStep
<1>18. CASE UNCHANGED turn
  <2>1. TurnTypes' BY <1>0, <1>18 DEF turn, TurnTypes
  <2>2. ASSUME NEW t \in Turns PROVE Logged(t)'
    BY <1>18, <2>2 DEF turn, TurnInv, Logged
  <2>3. ASSUME quiet' PROVE OneTurn' /\ TornInWriting' /\ \A t \in Turns : Same(t)' /\ Kept(t)'
    <3>1. OneTurn /\ TornInWriting /\ \A t \in Turns : Same(t) /\ Kept(t)
      BY <1>18, <2>3 DEF turn, TurnInv, Remembered
    <3>2. OneTurn' /\ TornInWriting' BY <1>18, <3>1 DEF turn, OneTurn, TornInWriting
    <3>3. \A t \in Turns : Same(t)' BY <1>18, <3>1 DEF turn, Same, Chat!Loaded
    <3>4. \A t \in Turns : Kept(t)' BY <1>18, <3>1 DEF turn, Kept, Chat!Loaded, Chat!Learned
    <3> QED BY <3>2, <3>3, <3>4
  <2> QED BY <2>1, <2>2, <2>3 DEF TurnInv, Remembered
<1> QED
  BY <1>1, <1>3, <1>4, <1>5, <1>6, <1>8, <1>10, <1>11, <1>12, <1>13, <1>14, <1>15, <1>16, <1>17, <1>18, <1>19
  DEF Chat!Next

THEOREM TurnInductive == Chat!Spec => []TurnInv
<1>1. Chat!Init => TurnInv BY TurnsStart
<1>2. TurnInv /\ [Chat!Next]_turn => TurnInv' BY TurnStep
<1> QED BY <1>1, <1>2, PTL DEF Chat!Spec, Chat!vars, turn

\* What can be served from the cache was graded and logged, for any turns, whatever
\* was cancelled, failed or crashed (chat_orchestrator.py:433-455,
\* semantic_cache.py:163-173).
THEOREM CachedWasGradedAlways == Chat!Spec => []CachedWasGraded
<1>1. TurnInv => CachedWasGraded
  <2> SUFFICES ASSUME TurnInv, NEW t \in cache
               PROVE  /\ t \in copy[t]["dataset"]
                      /\ quiet /\ file["dataset"].whole => t \in Chat!Loaded("dataset")
    BY DEF CachedWasGraded, Chat!CachedWasGraded
  <2>1. /\ t \in Turns /\ at[t] \in Chat!InFlight \cup Chat!Over /\ t \in copy[t]["dataset"]
        /\ "dataset" \in Chat!Files
    BY DEF TurnInv, TurnTypes, Logged, Chat!Files, Chat!Lists
  <2>2. ASSUME quiet, file["dataset"].whole PROVE t \in Chat!Loaded("dataset")
    <3>1. Same(t) /\ Kept(t) BY <2>1, <2>2 DEF TurnInv, Remembered
    <3>2. CASE at[t] \in Chat!InFlight BY <2>1, <2>2, <3>1, <3>2 DEF Same
    <3>3. CASE at[t] \in Chat!Over
      <4>1. Chat!Learned(t, "dataset") \subseteq Chat!Loaded("dataset")
        BY <2>1, <2>2, <3>1, <3>3 DEF Kept, Chat!KnownIn
      <4> QED BY <2>1, <4>1 DEF Chat!Learned
    <3> QED BY <2>1, <3>2, <3>3
  <2> QED BY <2>1, <2>2
<1> QED BY <1>1, TurnInductive, PTL

\* Turns that follow one another forget nothing, for any turns and any prompts file
\* (graph_store.py:25-41, manager.py:27-44, dataset_builder.py:26-39).
THEOREM SequentialForgetsNothingAlways == Chat!Spec => []SequentialForgetsNothing
<1>1. TurnInv => SequentialForgetsNothing
  BY DEF TurnInv, Remembered, Kept, SequentialForgetsNothing, Chat!SequentialForgetsNothing
<1> QED BY <1>1, TurnInductive, PTL

\* Versions of a prompt fit together, for any turns, thresholds and prompts file that
\* does at first (manager.py:56-89, 122-140).
THEOREM EvolutionsFitAlways == Chat!Spec => []EvolutionsFit
<1>1. TurnInv => EvolutionsFit
  <2> SUFFICES ASSUME TurnTypes
               PROVE  /\ \A t \in Turns : Chat!Fits(copy[t]["prompts"])
                      /\ file["prompts"].whole => Chat!Fits(file["prompts"].evo)
    BY DEF TurnInv, EvolutionsFit, Chat!EvolutionsFit
  <2>1. "prompts" \in Chat!Files BY DEF Chat!Files
  <2>2. \A t \in Turns : Chat!Fits(copy[t]["prompts"]) BY <2>1 DEF TurnTypes, Known
  <2>3. ASSUME file["prompts"].whole PROVE Chat!Fits(file["prompts"].evo)
    <3>1. Chat!Loaded("prompts") = file["prompts"].evo BY <2>3 DEF Chat!Loaded
    <3> QED BY <2>1, <3>1, LoadedKnown DEF Known
  <2> QED BY <2>2, <2>3
<1> QED BY <1>1, TurnInductive, PTL
=============================================================================
