--------------------------- MODULE VectorMigration ---------------------------
(***************************************************************************)
(* The Celery task that copies vector memory from FAISS files to Qdrant:   *)
(* run_migration_task (workers/indexing_worker.py), run_migration          *)
(* (app/vector_memory/migration.py) and the retried calls of               *)
(* QdrantVectorStore (app/vector_memory/qdrant_store.py).                  *)
(*                                                                         *)
(* Qdrant may fail a call before it is applied, or after: then the answer  *)
(* is lost.  A point is known by the run that made its id (uuid4), its     *)
(* memory type and its record.                                             *)
(***************************************************************************)
EXTENDS Naturals, Sequences, FiniteSets

CONSTANTS
    Types,      \* memory types, in order
    Memories,   \* records in each type's memory_meta.json
    Vectors,    \* vectors in its memory.index
    BatchSize,
    Attempts,   \* _MAX_RETRIES: calls in all
    MaxRuns     \* bound: the task's first run, its retry, and runs after a crash

VARIABLES
    pc,          \* where the run is
    run,         \* which run it is
    type,        \* the memory type at work, by its place
    next,        \* the first record of the batch at work
    attempt,     \* of the present call
    collection,  \* Qdrant has the collection
    points,      \* its points
    summary      \* of each type: [migrated, error]

vars == <<pc, run, type, next, attempt, collection, points, summary>>

NoSummary == [t \in 1..Len(Types) |-> [migrated |-> 0, error |-> FALSE]]

Init ==
    /\ pc = "listing"
    /\ run = 1 /\ type = 1 /\ next = 1 /\ attempt = 1
    /\ collection \in BOOLEAN
    /\ points = {}
    /\ summary = NoSummary

----------------------------------------------------------------------------
(* One call of Qdrant *)

\* _retry_async after a failed call: again, or the exception goes on.
Retry(giveUp) ==
    IF attempt < Attempts
    THEN attempt' = attempt + 1 /\ UNCHANGED <<pc, run, type, next, summary>>
    ELSE giveUp

\* The task asks for another run, once the exception reached it.
TaskFails ==
    /\ pc' = IF run < MaxRuns THEN "again" ELSE "failed"
    /\ UNCHANGED <<run, type, next, attempt, summary>>

----------------------------------------------------------------------------
(* initialize *)

GetCollections ==
    /\ pc = "listing"
    /\ \/ /\ pc' = IF collection THEN "loading" ELSE "creating"
          /\ attempt' = 1
          /\ UNCHANGED <<run, type, next, summary>>
       \/ Retry(TaskFails)
    /\ UNCHANGED <<collection, points>>

\* The collection is created; if it exists already, by a call whose answer was lost,
\* that is an error like any other.
CreateCollection ==
    /\ pc = "creating"
    /\ \/ /\ ~collection
          /\ collection' = TRUE
          /\ pc' = "loading" /\ attempt' = 1
          /\ UNCHANGED <<run, type, next, summary>>
       \/ /\ collection' \in {collection, TRUE}
          /\ Retry(TaskFails)
    /\ UNCHANGED points

----------------------------------------------------------------------------
(* migrate_memory_type *)

\* Records that have a vector; the others are skipped.
Records(t) == IF Memories[Types[t]] < Vectors[Types[t]] THEN Memories[Types[t]] ELSE Vectors[Types[t]]

Batch == {i \in next..next + BatchSize - 1 : i <= Records(type)}

\* On to the next type with this summary, or to the end.
TypeDone(s) ==
    /\ summary' = [summary EXCEPT ![type] = s]
    /\ IF type < Len(Types)
       THEN pc' = "loading" /\ type' = type + 1
       ELSE pc' = "done" /\ UNCHANGED type
    /\ UNCHANGED run

\* The two files are read and the records made, or there are none, or they cannot
\* be read.
Load ==
    /\ pc = "loading"
    /\ next' = 1 /\ attempt' = 1
    /\ \/ Records(type) > 0 /\ pc' = "inserting" /\ UNCHANGED <<run, type, summary>>
       \/ Records(type) = 0 /\ TypeDone([migrated |-> 0, error |-> FALSE])
       \/ TypeDone([migrated |-> 0, error |-> TRUE])
    /\ UNCHANGED <<collection, points>>

\* Mutant: the points are made in the factory that is retried.
PointOfAttempt(i) == <<run, type, i, attempt>>

\* The id of record i is made once in a run.
Point(i) == <<run, type, i, 1>>

\* batch_insert: the points are there, and so is the answer.
Upsert ==
    /\ pc = "inserting"
    /\ points' = points \cup {Point(i) : i \in Batch}
    /\ attempt' = 1
    /\ IF next + BatchSize <= Records(type)
       THEN next' = next + BatchSize /\ UNCHANGED <<pc, run, type, summary>>
       ELSE TypeDone([migrated |-> Records(type), error |-> FALSE]) /\ UNCHANGED next
    /\ UNCHANGED collection

\* No answer, though the points may be there.  After the last attempt the whole type
\* counts for nothing.
UpsertFails ==
    /\ pc = "inserting"
    /\ points' \in {points, points \cup {Point(i) : i \in Batch}}
    /\ Retry(TypeDone([migrated |-> 0, error |-> TRUE]) /\ UNCHANGED <<next, attempt>>)
    /\ UNCHANGED collection

----------------------------------------------------------------------------
(* The task *)

\* The worker dies; as the task is acknowledged late, another takes it up.
Crash ==
    /\ pc \notin {"done", "failed", "again"} /\ run < MaxRuns
    /\ pc' = "again"
    /\ UNCHANGED <<run, type, next, attempt, collection, points, summary>>

Again ==
    /\ pc = "again"
    /\ pc' = "listing"
    /\ run' = run + 1
    /\ type' = 1 /\ next' = 1 /\ attempt' = 1
    /\ summary' = NoSummary
    /\ UNCHANGED <<collection, points>>

Next ==
    \/ GetCollections \/ CreateCollection \/ Load \/ Upsert \/ UpsertFails
    \/ Crash \/ Again

Spec == Init /\ [][Next]_vars

----------------------------------------------------------------------------
(* Properties *)

Of(r, t) == {p \in points : p[1] = r /\ p[2] = t}

\* However many answers are lost and calls retried, what a run's summary counts as
\* migrated is in Qdrant, each record once; and what it does not count may be there
\* all the same, but only if it names an error for the type
\* (qdrant_store.py:33-51, 207-232, migration.py:124-138).
SummaryExact ==
    \A t \in 1..Len(Types) :
        /\ summary[t].migrated > 0 => Cardinality(Of(run, t)) = summary[t].migrated
        /\ pc = "done" /\ ~summary[t].error => Cardinality(Of(run, t)) = Records(t)

=============================================================================
