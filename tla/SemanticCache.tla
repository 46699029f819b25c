--------------------------- MODULE SemanticCache ---------------------------
(***************************************************************************)
(* app/cache/semantic_cache.py: the response cache that all requests of    *)
(* all API processes share in Redis.  Redis executes one command, or one   *)
(* MULTI, at a time: each is a step, and tasks interleave between them.    *)
(* A task may be cancelled, or its process die, at any await.              *)
(*                                                                         *)
(* The keys of one entry are named after a hash of its query, so the query *)
(* stands for the entry.  emb and resp of an entry are written and deleted *)
(* together and expire together.  The ts keys are left out: nothing reads  *)
(* them.                                                                   *)
(***************************************************************************)
EXTENDS Naturals, FiniteSets

CONSTANTS
    Tasks,       \* what uses the cache: requests of any process
    Query,
    Score,       \* cosine similarity of any two queries
    Threshold,   \* threshold
    MaxEntries,  \* max_entries
    TTL,         \* ttl, in ticks
    MaxTime,     \* bound on the clock
    NoEntry      \* best_key before an embedding was found

ASSUME TasksAssumption == IsFiniteSet(Tasks) /\ IsFiniteSet(Query) /\ NoEntry \notin Query
ASSUME ScoreAssumption == Score \in [Query \X Query -> Nat] /\ Threshold \in Nat \ {0}
ASSUME LimitAssumption == MaxEntries \in Nat /\ TTL \in Nat \ {0} /\ MaxTime \in Nat \ {0}

VARIABLES
    now,      \* the clock
    expires,  \* when emb and resp of each entry expire; 0: they do not exist
    index,    \* semcache:index, the score of each member; 0: no member
    job,      \* what each task does, and its local variables
    steady,   \* history: entries that were there since a task's look-up began
    alone     \* history: no other task has changed the index since a task's zcard

vars == <<now, expires, index, job, steady, alone>>

keys == <<expires, index>>

\* get: "scanning" reads embeddings, "touching" has its response.  set: "writing",
\* "counting", "choosing", "evicting" (clear, too, is "evicting").
TaskState == {"idle", "scanning", "touching", "writing", "counting", "choosing", "evicting"}

Job == [at    : TaskState,
        query : Query \cup {NoEntry},  \* what it looks up or caches
        todo  : SUBSET Query,          \* the entries it has yet to read, or to remove
        best  : Query \cup {NoEntry},  \* best_key
        stamp : 0..MaxTime,            \* the time it took for its zadd
        excess: 0..Cardinality(Query)] \* to_evict

NoJob == [at |-> "idle", query |-> NoEntry, todo |-> {}, best |-> NoEntry, stamp |-> 0, excess |-> 0]

Members == {k \in Query : index[k] # 0}
Live(k) == expires[k] > now

Init ==
    /\ now = 1
    /\ expires = [k \in Query |-> 0]
    /\ index = [k \in Query |-> 0]
    /\ job = [t \in Tasks |-> NoJob]
    /\ steady = [t \in Tasks |-> {}]
    /\ alone = [t \in Tasks |-> FALSE]

At(t, state) == job[t].at = state
Finish(t) == job' = [job EXCEPT ![t] = NoJob]

\* best_score
Points(t, k) == IF k = NoEntry THEN 0 ELSE Score[job[t].query, k]

\* Every step keeps the history.
Recall ==
    /\ steady' = [t \in Tasks |->
          IF job'[t].at \notin {"scanning", "touching"} THEN {}
          ELSE {k \in IF At(t, "idle") THEN Members ELSE steady[t] : expires'[k] > now'}]
    /\ alone' = [t \in Tasks |->
          /\ job'[t].at \in {"choosing", "evicting"}
          /\ At(t, "counting") \/ (alone[t] /\ (index' = index \/ job'[t] # job[t]))]

----------------------------------------------------------------------------
(* get() *)

\* zrangebyscore: the members are to be compared, or there is none.
LookUp(t, q) ==
    /\ At(t, "idle")
    /\ Members # {}
    /\ job' = [job EXCEPT ![t] = [NoJob EXCEPT !.at = "scanning", !.query = q, !.todo = Members]]
    /\ UNCHANGED <<now, keys>>
    /\ Recall

\* Mutant: the last embedding that reaches the threshold wins.
ScanLast(t, k) ==
    /\ At(t, "scanning")
    /\ k \in job[t].todo
    /\ job' = [job EXCEPT ![t].todo = @ \ {k},
                          ![t].best = IF Live(k) /\ Points(t, k) >= Threshold THEN k ELSE @]
    /\ UNCHANGED <<now, keys>>
    /\ Recall

\* One GET of the pipeline, which is no transaction: the embedding of a member is
\* read and compared, unless it has gone.
Scan(t, k) ==
    /\ At(t, "scanning")
    /\ k \in job[t].todo
    /\ job' = [job EXCEPT ![t].todo = @ \ {k},
                          ![t].best = IF Live(k) /\ Points(t, k) > Points(t, @) THEN k ELSE @]
    /\ UNCHANGED <<now, keys>>
    /\ Recall

\* All are compared: a miss, or the response of the best is read, which makes a
\* hit unless it has gone.
Answer(t) ==
    /\ At(t, "scanning")
    /\ job[t].todo = {}
    /\ IF Points(t, job[t].best) >= Threshold /\ Live(job[t].best)
       THEN job' = [job EXCEPT ![t].at = "touching", ![t].stamp = now]
       ELSE Finish(t)
    /\ UNCHANGED <<now, keys>>
    /\ Recall

\* The zadd of a hit, with a time taken after the response was read.  Another
\* task may have removed the entry: the member is put back all the same.
Touch(t) ==
    /\ At(t, "touching")
    /\ \E s \in job[t].stamp..now : index' = [index EXCEPT ![job[t].best] = s]
    /\ Finish(t)
    /\ UNCHANGED <<now, expires>>
    /\ Recall

----------------------------------------------------------------------------
(* set() *)

Cache(t, q) ==
    /\ At(t, "idle")
    /\ job' = [job EXCEPT ![t] = [NoJob EXCEPT !.at = "writing", !.query = q, !.stamp = now]]
    /\ UNCHANGED <<now, keys>>
    /\ Recall

\* The MULTI that writes the entry and its member.
Write(t) ==
    /\ At(t, "writing")
    /\ expires' = [expires EXCEPT ![job[t].query] = now + TTL]
    /\ index' = [index EXCEPT ![job[t].query] = job[t].stamp]
    /\ job' = [job EXCEPT ![t] = [NoJob EXCEPT !.at = "counting"]]
    /\ UNCHANGED now
    /\ Recall

\* Mutant: one entry is evicted for the one that was written.
CountOne(t) ==
    /\ At(t, "counting")
    /\ IF Cardinality(Members) > MaxEntries
       THEN job' = [job EXCEPT ![t].at = "choosing", ![t].excess = 1]
       ELSE Finish(t)
    /\ UNCHANGED <<now, keys>>
    /\ Recall

\* _evict_if_needed, zcard
Count(t) ==
    /\ At(t, "counting")
    /\ IF Cardinality(Members) > MaxEntries
       THEN job' = [job EXCEPT ![t].at = "choosing", ![t].excess = Cardinality(Members) - MaxEntries]
       ELSE Finish(t)
    /\ UNCHANGED <<now, keys>>
    /\ Recall

\* The sets that `zrange 0 n-1` may return: the n members of lowest score.
Oldest(n) ==
    {V \in SUBSET Members :
        /\ Cardinality(V) = IF n < Cardinality(Members) THEN n ELSE Cardinality(Members)
        /\ \A v \in V, m \in Members \ V : index[v] <= index[m]}

\* _evict_if_needed, zrange: the victims are as many as were too many at the zcard.
Choose(t) ==
    /\ At(t, "choosing")
    /\ \E V \in Oldest(job[t].excess) :
          IF V = {} THEN Finish(t)
                    ELSE job' = [job EXCEPT ![t] = [NoJob EXCEPT !.at = "evicting", !.todo = V]]
    /\ UNCHANGED <<now, keys>>
    /\ Recall

----------------------------------------------------------------------------
(* Removal *)

\* Mutant: the member is removed and the embedding and response are not.
RemoveMember(k) ==
    /\ index' = [index EXCEPT ![k] = 0]
    /\ UNCHANGED expires

\* The MULTI of _remove_key
Remove(k) ==
    /\ expires' = [expires EXCEPT ![k] = 0]
    /\ index' = [index EXCEPT ![k] = 0]

Evict(t, k) ==
    /\ At(t, "evicting")
    /\ k \in job[t].todo
    /\ Remove(k)
    /\ IF job[t].todo = {k} THEN Finish(t) ELSE job' = [job EXCEPT ![t].todo = @ \ {k}]
    /\ UNCHANGED now
    /\ Recall

\* invalidate()
Invalidate(t, k) ==
    /\ At(t, "idle")
    /\ Remove(k)
    /\ UNCHANGED <<now, job>>
    /\ Recall

\* clear(), zrangebyscore
Clear(t) ==
    /\ At(t, "idle")
    /\ Members # {}
    /\ job' = [job EXCEPT ![t] = [NoJob EXCEPT !.at = "evicting", !.todo = Members]]
    /\ UNCHANGED <<now, keys>>
    /\ Recall

----------------------------------------------------------------------------

Cancel(t) ==
    /\ ~At(t, "idle")
    /\ Finish(t)
    /\ UNCHANGED <<now, keys>>
    /\ Recall

Tick ==
    /\ now < MaxTime
    /\ now' = now + 1
    /\ UNCHANGED <<keys, job>>
    /\ Recall

Next ==
    \/ Tick
    \/ \E t \in Tasks :
          \/ Answer(t) \/ Touch(t) \/ Write(t) \/ Count(t) \/ Choose(t) \/ Clear(t) \/ Cancel(t)
          \/ \E k \in Query : LookUp(t, k) \/ Scan(t, k) \/ Cache(t, k) \/ Evict(t, k) \/ Invalidate(t, k)

Spec == Init /\ [][Next]_vars

----------------------------------------------------------------------------
(* Properties *)

\* The variables keep their ranges.
TypeOK ==
    /\ now \in 1..MaxTime
    /\ expires \in [Query -> 0..(MaxTime + TTL)]
    /\ index \in [Query -> 0..MaxTime]
    /\ job \in [Tasks -> Job]
    /\ steady \in [Tasks -> SUBSET Query]
    /\ alone \in [Tasks -> BOOLEAN]

\* Whatever tasks overlap and wherever they are cancelled, a response that has not
\* expired can be found, and evicted (semantic_cache.py:163-168, 217-225).
LiveIndexed == \A k \in Query : Live(k) => k \in Members

\* A hit answers with an entry that reaches the threshold and is at least as near
\* as any that was there during the whole look-up, although entries come, go and
\* expire while they are compared (semantic_cache.py:103-133).
NearestAnswers ==
    \A t \in Tasks : At(t, "touching") =>
        /\ Points(t, job[t].best) >= Threshold
        /\ \A k \in steady[t] : Points(t, k) <= Points(t, job[t].best)

\* An eviction nobody interferes with makes up for all cancelled ones and all
\* members that were put back: it ends with exactly max_entries members, and those
\* it removes are the least recently used (semantic_cache.py:198-215).
EvictionExact ==
    [][\A t \in Tasks :
          At(t, "evicting") /\ alone[t] /\ index' # index /\ job'[t] # job[t] =>
             /\ \A k \in Members \ Members', m \in Members' \ job'[t].todo : index[k] <= index[m]
             /\ job'[t].at = "idle" => Cardinality(Members') = MaxEntries]_vars

=============================================================================
