----------------------------- MODULE FaissStore -----------------------------
(***************************************************************************)
(* The default long-term memory: FAISSVectorStore                          *)
(* (app/vector_memory/faiss_store.py) behind VectorMemory, as its three    *)
(* users drive it on the two files of one memory type:                     *)
(*   - a chat request, whose own store loads the files when the request    *)
(*     searches for context and saves them when its turn is stored;        *)
(*   - the Celery task index_vectors (workers/indexing_worker.py);         *)
(*   - the maintenance task (app/vector_memory/maintenance.py).            *)
(*                                                                         *)
(* A record and its vector are both represented by the text they are made  *)
(* from, so a store, or a pair of files, is consistent when its vectors    *)
(* and its records are the same sequence.                                  *)
(***************************************************************************)
EXTENDS Naturals, Sequences, FiniteSets, SequencesExt

CONSTANTS
    Requests,     \* chat requests, all in the API process
    Indexers,     \* index_vectors tasks, each in a process of its own
    Maintainers,  \* maintenance tasks, each in a process of its own
    Text,         \* what is stored
    Batch,        \* the texts each request or indexing task stores
    Similar,      \* pairs of texts whose vectors reach dedup_threshold
    MaxAttempts,  \* max_retries + 1 of index_vectors
    MaxFaults,    \* bound on crashes and failed saves
    Missing,      \* a file that does not exist; an index that is None
    Torn          \* a file that was truncated and not written to its end, or
                  \* that holds a mixture of what two sessions wrote

Writers  == Requests \cup Indexers
Sessions == Writers \cup Maintainers

VARIABLES
    indexFile,  \* memory.index
    metaFile,   \* memory_meta.json
    vecs,       \* each session's _index
    recs,       \* each session's _records
    pc,         \* where each session is
    goal,       \* where it goes when its save is over
    attempts,   \* attempts each indexing task has begun
    faults,     \* crashes and failed saves so far
    clash,      \* the sessions that have open a file another one opened to write, too
    spoiled,    \* history: the files may be of different saves
    suspect,    \* history: the sessions whose load or save met another one's save
    overlap,    \* history: texts a session's store may lack although they were saved
    saved       \* history: texts saved, and not since overwritten by such a store

vars == <<indexFile, metaFile, vecs, recs, pc, goal, attempts, faults, clash,
          spoiled, suspect, overlap, saved>>

files   == <<indexFile, metaFile>>
history == <<spoiled, suspect, overlap, saved>>

\* "reading": the index is read, the metadata is not.  "ready": initialized.
\* "writing": write_index is at work.  "written": it is over.  "dumping":
\* json.dump is at work.  "inserted": batch_insert has returned, close has not run.
SessionState == {"idle", "reading", "ready", "writing", "written", "dumping", "inserted", "done"}

Readable(f) == f \notin {Missing, Torn}

\* The sessions of "away" never take place.
Start(away) ==
    /\ indexFile = Missing
    /\ metaFile = Missing
    /\ vecs = [s \in Sessions |-> Missing]
    /\ recs = [s \in Sessions |-> <<>>]
    /\ pc = [s \in Sessions |-> IF s \in away THEN "done" ELSE "idle"]
    /\ goal = [s \in Sessions |-> "done"]
    /\ attempts = [t \in Indexers |-> 0]
    /\ faults = 0
    /\ clash = {}
    /\ spoiled = FALSE
    /\ suspect = {}
    /\ overlap = [s \in Sessions |-> {}]
    /\ saved = {}

Init == Start({})

----------------------------------------------------------------------------
(* Processes *)

SameProcess(s, x) == s = x \/ (s \in Requests /\ x \in Requests)
Active(s)  == pc[s] \notin {"idle", "done"}
InSave(s)  == pc[s] \in {"writing", "written", "dumping"}

\* A load or a save awaits nothing: no other coroutine of the process runs.
MayRun(s) == \A x \in Sessions \ {s} :
                SameProcess(s, x) => ~InSave(x) /\ pc[x] # "reading"

----------------------------------------------------------------------------
(* _load *)

\* Mutant: a store starts empty, whatever the files hold.
StartEmpty(s) ==
    /\ pc[s] = "idle"
    /\ MayRun(s)
    /\ vecs' = [vecs EXCEPT ![s] = Missing]
    /\ recs' = [recs EXCEPT ![s] = <<>>]
    /\ overlap' = [overlap EXCEPT ![s] = {}]
    /\ suspect' = suspect \ {s}
    /\ attempts' = IF s \in Indexers THEN [attempts EXCEPT ![s] = @ + 1] ELSE attempts
    /\ pc' = [pc EXCEPT ![s] = "ready"]
    /\ UNCHANGED <<files, goal, faults, clash, spoiled, saved>>

\* A new store reads the index if both files exist; if it cannot, it is left
\* empty.  Maintenance reads each file as far as it can.
LoadIndex(s) ==
    LET usable == Readable(indexFile) /\ (s \in Writers => metaFile # Missing)
        reads  == usable \/ s \in Maintainers
    IN  /\ pc[s] = "idle"
        /\ MayRun(s)
        /\ vecs' = [vecs EXCEPT ![s] = IF usable THEN indexFile ELSE Missing]
        /\ recs' = [recs EXCEPT ![s] = <<>>]
        /\ overlap' = [overlap EXCEPT ![s] = IF usable \/ metaFile = Missing THEN {} ELSE Text]
        /\ suspect' = IF reads /\ spoiled THEN suspect \cup {s} ELSE suspect \ {s}
        /\ attempts' = IF s \in Indexers THEN [attempts EXCEPT ![s] = @ + 1] ELSE attempts
        /\ pc' = [pc EXCEPT ![s] = IF reads THEN "reading" ELSE "ready"]
        /\ UNCHANGED <<files, goal, faults, clash, spoiled, saved>>

\* Metadata that cannot be read leaves the records empty, beside the index read.
LoadRecords(s) ==
    LET whole == metaFile # Torn /\ (s \in Maintainers => vecs[s] = metaFile)
    IN  /\ pc[s] = "reading"
        /\ recs' = [recs EXCEPT ![s] = IF Readable(metaFile) THEN metaFile ELSE <<>>]
        /\ overlap' = [overlap EXCEPT ![s] = IF whole THEN {} ELSE Text]
        /\ pc' = [pc EXCEPT ![s] = "ready"]
        /\ UNCHANGED <<files, vecs, goal, attempts, faults, clash, spoiled, suspect, saved>>

----------------------------------------------------------------------------
(* _save *)

\* s opens a file to write it; those in state p have it open, too.
Opens(s, p) ==
    LET others == {x \in Sessions \ {s} : pc[x] = p}
    IN  clash' = IF others = {} THEN clash \ {s} ELSE clash \cup others \cup {s}

\* What a file holds when s has written f to it.
Result(s, f) == {f} \cup (IF s \in clash THEN {Torn} ELSE {})

\* s begins to save these vectors and records, and then goes on to g.
Save(s, v, r, g) ==
    LET saving  == {x \in Sessions \ {s} : InSave(x)}
        reading == {x \in Sessions \ {s} : pc[x] = "reading"}
    IN  /\ vecs' = [vecs EXCEPT ![s] = v]
        /\ recs' = [recs EXCEPT ![s] = r]
        /\ goal' = [goal EXCEPT ![s] = g]
        /\ indexFile' = Torn
        /\ Opens(s, "writing")
        /\ spoiled' = TRUE
        /\ suspect' = suspect \cup saving \cup reading \cup (IF saving = {} THEN {} ELSE {s})
        /\ pc' = [pc EXCEPT ![s] = "writing"]
        /\ UNCHANGED <<metaFile, attempts, faults, overlap, saved>>

IndexWritten(s) ==
    /\ pc[s] = "writing"
    /\ indexFile' \in Result(s, vecs[s])
    /\ pc' = [pc EXCEPT ![s] = "written"]
    /\ UNCHANGED <<metaFile, vecs, recs, goal, attempts, faults, clash, history>>

OpenMetadata(s) ==
    /\ pc[s] = "written"
    /\ metaFile' = Torn
    /\ Opens(s, "dumping")
    /\ pc' = [pc EXCEPT ![s] = "dumping"]
    /\ UNCHANGED <<indexFile, vecs, recs, goal, attempts, faults, history>>

\* Maintenance drops what is similar to something it keeps.
Dropped(s) == IF s \in Maintainers
              THEN {x \in Text : \E y \in ToSet(recs[s]) : <<x, y>> \in Similar}
              ELSE {}

MetadataWritten(s) ==
    /\ pc[s] = "dumping"
    /\ metaFile' \in Result(s, recs[s])
    /\ pc' = [pc EXCEPT ![s] = goal[s]]
    /\ IF metaFile' = Torn
       THEN UNCHANGED history
       ELSE /\ spoiled' = (s \in suspect)
            /\ overlap' = [x \in Sessions |->
                  IF x # s /\ Active(x) THEN overlap[x] \cup ToSet(recs[s]) ELSE overlap[x]]
            /\ saved' = (saved \ (overlap[s] \cup Dropped(s))) \cup ToSet(recs[s])
            /\ UNCHANGED suspect
    /\ UNCHANGED <<indexFile, vecs, recs, goal, attempts, faults, clash>>

\* An exception in _save (a full disk, say) is logged, and the caller goes on.
SaveFails(s) ==
    /\ InSave(s)
    /\ faults < MaxFaults
    /\ faults' = faults + 1
    /\ pc' = [pc EXCEPT ![s] = goal[s]]
    /\ UNCHANGED <<files, vecs, recs, goal, attempts, clash, history>>

\* The process of s ends, with all it was doing.
Crash(s) ==
    /\ Active(s)
    /\ faults < MaxFaults
    /\ faults' = faults + 1
    /\ pc' = [x \in Sessions |-> IF SameProcess(s, x) /\ Active(x) THEN "done" ELSE pc[x]]
    /\ UNCHANGED <<files, vecs, recs, goal, attempts, clash, history>>

----------------------------------------------------------------------------
(* What the sessions do with their store *)

Vectors(s) == IF vecs[s] = Missing THEN <<>> ELSE vecs[s]

\* add_embedding of a request's turn; batch_insert of an indexing task.
Insert(s) ==
    /\ pc[s] = "ready"
    /\ s \in Writers
    /\ MayRun(s)
    /\ Save(s, Vectors(s) \o Batch[s], recs[s] \o Batch[s],
            IF s \in Indexers THEN "inserted" ELSE "done")

\* The request ends without storing a turn: a refusal, an error, its client gone.
Leave(s) ==
    /\ pc[s] = "ready"
    /\ s \in Requests
    /\ pc' = [pc EXCEPT ![s] = "done"]
    /\ UNCHANGED <<files, vecs, recs, goal, attempts, faults, clash, history>>

\* Mutant: the task also hands its batch over when it closes a store it must leave.
CloseFlushesAgain(t) ==
    LET next(failed) == IF failed /\ attempts[t] < MaxAttempts THEN "idle" ELSE "done"
    IN  /\ t \in Indexers
        /\ pc[t] = "inserted"
        /\ \E failed \in BOOLEAN :
              Save(t, vecs[t] \o Batch[t], recs[t] \o Batch[t], next(failed))

\* The task ends and its `finally` closes the store, which saves it once more;
\* a task that failed before it could return is then tried again.
CloseStore(t) ==
    LET next(failed) == IF failed /\ attempts[t] < MaxAttempts THEN "idle" ELSE "done"
    IN  /\ t \in Indexers
        /\ \E failed \in BOOLEAN :
              /\ pc[t] = "inserted" \/ (pc[t] = "ready" /\ failed)
              /\ IF vecs[t] = Missing
                 THEN /\ pc' = [pc EXCEPT ![t] = next(failed)]
                      /\ UNCHANGED <<files, vecs, recs, goal, attempts, faults, clash, history>>
                 ELSE Save(t, vecs[t], recs[t], next(failed))

Similarly(v, i, j) == <<v[i], v[j]>> \in Similar \/ v[i] = v[j]

\* Mutant: a vector already found to be a duplicate still makes others duplicates.
DuplicatesOfDuplicates(v) ==
    {j \in DOMAIN v : \E i \in 1..(j - 1) : Similarly(v, i, j)}

\* The positions _deduplicate removes: of those similar to an earlier one it keeps.
Duplicates(v) ==
    CHOOSE D \in SUBSET (DOMAIN v) :
        \A j \in DOMAIN v : j \in D <=> \E i \in (1..(j - 1)) \ D : Similarly(v, i, j)

KeptPositions(v, r) == IF Len(v) = Len(r) THEN DOMAIN r \ Duplicates(v) ELSE DOMAIN r

\* The records at these positions, in their order.
Rank(i, positions) == Cardinality({j \in positions : j <= i})
At(r, positions) ==
    [n \in 1..Cardinality(positions) |-> r[CHOOSE i \in positions : Rank(i, positions) = n]]

\* Mutant: the metadata is not saved with the new index's texts.
MaintainIndexOnly(m) ==
    LET kept == At(recs[m], KeptPositions(Vectors(m), recs[m]))
    IN  /\ pc[m] = "ready"
        /\ m \in Maintainers
        /\ IF vecs[m] # Missing /\ Len(kept) < Len(recs[m])
           THEN Save(m, kept, recs[m], "done")
           ELSE /\ pc' = [pc EXCEPT ![m] = "done"]
                /\ UNCHANGED <<files, vecs, recs, goal, attempts, faults, clash, history>>

\* run_full_maintenance.  No record is ever stale or old enough to be compressed:
\* both look for the timestamp beside the metadata, and it is in it.  What is kept
\* is embedded anew.
Maintain(m) ==
    LET kept == At(recs[m], KeptPositions(Vectors(m), recs[m]))
    IN  /\ pc[m] = "ready"
        /\ m \in Maintainers
        /\ IF vecs[m] # Missing /\ Len(kept) < Len(recs[m])
           THEN Save(m, kept, kept, "done")
           ELSE /\ pc' = [pc EXCEPT ![m] = "done"]
                /\ UNCHANGED <<files, vecs, recs, goal, attempts, faults, clash, history>>

\* All is over.
Finished == (\A s \in Sessions : pc[s] = "done") /\ UNCHANGED vars

Next ==
    \/ \E s \in Sessions :
          \/ LoadIndex(s) \/ LoadRecords(s)
          \/ IndexWritten(s) \/ OpenMetadata(s) \/ MetadataWritten(s)
          \/ SaveFails(s) \/ Crash(s)
          \/ Insert(s) \/ Leave(s) \/ CloseStore(s) \/ Maintain(s)
    \/ Finished

Spec == Init /\ [][Next]_vars

----------------------------------------------------------------------------
(* Properties *)

\* A search finds the record whose vector matched: what a store has loaded, unless a
\* save was begun and not ended when it loaded, or began before it had, and what the
\* files hold after a save that met no other one, pairs each vector with its own
\* record.  So does the first save after a crash that left an index nobody can read
\* (faiss_store.py:58-102, 173-191, maintenance.py:152-172, 241-259).
Aligned ==
    /\ \A s \in Sessions \ suspect : pc[s] \in {"ready", "inserted"} => Vectors(s) = recs[s]
    /\ ~spoiled => indexFile = metaFile

\* A text that was saved is lost to the save of a store that was loaded before, or
\* that could not read the files whole, and to no other: not to a retry or a failed
\* attempt, not to a crash that left both files readable, and not to maintenance but
\* for a similar one it keeps (faiss_store.py:58-80, vector_store.py:61-82,
\* maintenance.py:207-239).
LostOnlyToOverlap == Readable(metaFile) => saved \subseteq ToSet(metaFile)

\* Of vectors and records that are paired, maintenance leaves no two similar ones, and
\* removes none without one that is similar to it and stays (maintenance.py:207-239).
DuplicatesOnlyRemoved ==
    [][\A m \in Maintainers :
          Vectors(m) = recs[m] /\ pc[m] = "ready" /\ pc'[m] = "writing" =>
             /\ \A i, j \in DOMAIN recs'[m] : i < j => ~Similarly(recs'[m], i, j)
             /\ \A x \in ToSet(recs[m]) \ ToSet(recs'[m]) :
                   \E y \in ToSet(recs'[m]) : <<x, y>> \in Similar]_vars

\* A text is in the files at most once for every attempt to index it and every
\* request that stored it, however often attempts fail and stores are closed
\* (indexing_worker.py:77-87).
CopiesBounded ==
    \A x \in Text :
        LET begun(s) == IF s \in Indexers THEN attempts[s] ELSE 1
            sources  == {sk \in Writers \X (1..MaxAttempts) :
                           x \in ToSet(Batch[sk[1]]) /\ sk[2] <= begun(sk[1])}
        IN  Readable(metaFile) =>
                Cardinality({i \in DOMAIN metaFile : metaFile[i] = x}) <= Cardinality(sources)

\* Documented, and not so: long-term memory is "Durable (file/gRPC)"
\* (docs/MEMORY_SYSTEM.md:375).  Of two requests at the same time, the one that
\* stores its turn first loses it to the other, which loaded the files before.
NoTurnLost ==
    \A r \in Requests :
        faults = 0 /\ pc[r] = "done" /\ ToSet(Batch[r]) \subseteq ToSet(recs[r])
            => (Readable(metaFile) => ToSet(Batch[r]) \subseteq ToSet(metaFile))
=============================================================================
