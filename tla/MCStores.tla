------------------------------ MODULE MCStores ------------------------------
(* Small instances of SemanticCache and of FaissStore, one of them at work in *)
(* each run.                                                                  *)
EXTENDS Stores, TLC

CONSTANTS t1, t2, a, b, c, r1, r2, m1

None == {}
NoBatches == [s \in None |-> <<>>]

----------------------------------------------------------------------------
(* SemanticCache: two tasks and three queries, each near the next one. *)
TwoTasks == {t1, t2}
ThreeQueries == {a, b, c}
Likeness == [p \in ThreeQueries \X ThreeQueries |->
               IF p[1] = p[2] THEN 3 ELSE IF p \in {<<a, b>>, <<b, a>>, <<b, c>>, <<c, b>>} THEN 2 ELSE 0]

TaskSymmetry == Permutations(TwoTasks)

CacheInit == Init /\ Faiss!Init

CacheSpec == CacheInit /\ [][Next /\ UNCHANGED store]_<<vars, store>>

----------------------------------------------------------------------------
(* FaissStore: near-duplicates in a chain, a like b and b like c, but a not like c. *)
TwoRequests   == {r1, r2}
OneIndexer    == {t1}
OneMaintainer == {m1}

Texts   == {a, b, c}
Chain   == {<<a, b>>, <<b, a>>, <<b, c>>, <<c, b>>}
Batches == [s \in TwoRequests \cup OneIndexer |-> IF s = r1 THEN <<c>> ELSE IF s = r2 THEN <<b>> ELSE <<a, b>>]

\* A session that is not at work has no store, and no part in what others do.
StoreView ==
    <<indexFile, metaFile, pc, attempts, faults, spoiled, saved,
      {<<s, vecs[s], recs[s], overlap[s], s \in suspect>> : s \in {x \in Faiss!Sessions : Faiss!Active(x)}},
      {<<s, goal[s], s \in clash>> : s \in {x \in Faiss!Sessions : Faiss!InSave(x)}}>>

\* Maintenance beside a request, and beside another one or the indexing task.
StoreInit == Init /\ \E s \in {r2, t1} : Faiss!Start({s})

StoreSpec == StoreInit /\ [][Faiss!Next /\ UNCHANGED vars]_<<store, vars>>
=============================================================================
