------------------------------ MODULE RagIndex ------------------------------
(***************************************************************************)
(* The index of uploaded documents: RAGRetriever (app/rag/retriever.py),   *)
(* its content gate (app/security/content_safety.py), and the Celery task  *)
(* that rebuilds it (workers/ingestion_worker.py).                         *)
(*                                                                         *)
(* The index and the chunks are two files, written under two temporary     *)
(* names that all processes share.  A document is a sequence of sentences, *)
(* each with its number of words and the injection score it adds to the    *)
(* chunk it is in.  A chunk is named by its document and its sentences; an *)
(* index by the set of its chunks, which it holds in a fixed order.        *)
(***************************************************************************)
EXTENDS Integers, Sequences, SequencesExt, FiniteSetsExt

CONSTANTS
    Procs,       \* processes with a retriever
    Docs,        \* documents that may be uploaded
    Text,        \* the sentences of each: [words, score]
    MaxWords,    \* RAG_CHUNK_MAX_WORDS
    Overlap,     \* RAG_CHUNK_OVERLAP_SENTENCES
    Quarantine,  \* quarantine_threshold of a chunk's score
    Reject       \* injection_threshold

ASSUME TextAssumption == Text \in [Docs -> Seq([words : Nat, score : Nat])]
ASSUME ChunkAssumption == MaxWords \in Nat /\ Overlap \in Nat
\* What is rejected is no less suspect than what is put in quarantine.
ASSUME GateAssumption == Quarantine \in Nat /\ Reject \in Nat /\ Quarantine <= Reject

VARIABLES
    docs,    \* documents in UPLOADED_DOCS_DIR
    disk,    \* the four files
    pc,      \* where each process is
    own,     \* what each is building: its chunks
    loaded,  \* each retriever's index and chunks
    clash,   \* two saves have overlapped
    raced    \* the process's present load has overlapped a save

vars == <<docs, disk, pc, own, loaded, clash, raced>>

\* A file's content is a set of chunks, or one of these.
Missing == {<<"missing">>}
Torn    == {<<"torn">>}

Writing == {"writingIndex", "writingChunks"}
Saving  == Writing \cup {"unlinkIndex", "unlinkChunks", "renameIndex", "renameChunks", "cleanup"}
Reading == {"readIndex", "readChunks"}

NotLoaded == [index |-> {}, chunks |-> {}]

Init ==
    /\ docs \in {{}, Docs}
    /\ disk = [f \in {"index", "chunks", "tmpIndex", "tmpChunks"} |-> Missing]
    /\ pc = [p \in Procs |-> "idle"]
    /\ own = [p \in Procs |-> {}]
    /\ loaded = [p \in Procs |-> NotLoaded]
    /\ clash = FALSE
    /\ raced = [p \in Procs |-> FALSE]

----------------------------------------------------------------------------
(* Chunks *)

Total(d, s, e, field) == FoldFunctionOnSet(LAMBDA x, y : x[field] + y, 0, Text[d], s..e)

\* The last sentence of the chunk that starts with s: as many as fit, one at least.
LastOf(d, s) == CHOOSE e \in s..Len(Text[d]) :
    /\ e = s \/ Total(d, s, e, "words") <= MaxWords
    /\ e = Len(Text[d]) \/ Total(d, s, e + 1, "words") > MaxWords

\* Mutant: the sentence after the chunk is skipped.
NextStartSkips(s, e) == (IF e - Overlap > s THEN e - Overlap ELSE s) + 2

\* Chunks overlap, but each starts later than the one before.
NextStart(s, e) == (IF e - Overlap > s THEN e - Overlap ELSE s) + 1

\* chunk_text
Chunks(d) ==
    LET from[s \in 1..Len(Text[d])] ==
            LET e == LastOf(d, s)
            IN  <<s..e>> \o (IF e < Len(Text[d]) /\ NextStart(s, e) <= Len(Text[d])
                             THEN from[NextStart(s, e)] ELSE <<>>)
    IN  IF Text[d] = <<>> THEN <<>> ELSE from[1]

\* _score_injection: what the chunk's sentences add up to.
Score(d, chunk) == FoldFunctionOnSet(LAMBDA x, y : x.score + y, 0, Text[d], chunk)

\* scan: a chunk is not rejected.  The document's file name stands for its domain, and
\* one all of whose chunks so far were rejected has trust 0.0, which rejects the next.
Passes(d) ==
    LET chunks == Chunks(d)
        ok[i \in 1..Len(chunks)] ==
            Score(d, chunks[i]) < Reject /\ (i = 1 \/ \E j \in 1..i - 1 : ok[j])
    IN  ok

\* The chunks of each document that the gate lets into the index.
Safe ==
    [d \in Docs |->
        {<<d, Chunks(d)[i]>> : i \in {j \in 1..Len(Chunks(d)) :
                                        Passes(d)[j] /\ Score(d, Chunks(d)[j]) < Quarantine}}]

Accepted(ds) == UNION {Safe[d] : d \in ds}

----------------------------------------------------------------------------
(* embed_documents *)

Others(p, S) == {q \in Procs \ {p} : pc[q] \in S}

\* Extraction, chunks and gate; with nothing left it returns and what there was stays.
Extract(p) ==
    /\ own' = [own EXCEPT ![p] = Accepted(docs)]
    /\ pc' = [pc EXCEPT ![p] = IF Accepted(docs) = {} THEN "idle" ELSE "encoding"]

\* The Celery task, with a retriever of its own.
Ingest(p) ==
    /\ pc[p] = "idle"
    /\ Extract(p)
    /\ loaded' = [loaded EXCEPT ![p] = NotLoaded]
    /\ raced' = [raced EXCEPT ![p] = FALSE]
    /\ UNCHANGED <<docs, disk, clash>>

\* The vectors are there, and the retriever uses them: the temporary index is opened.
StartSave(p) ==
    /\ pc[p] = "encoding"
    /\ loaded' = [loaded EXCEPT ![p] = [index |-> own[p], chunks |-> own[p]]]
    /\ pc' = [pc EXCEPT ![p] = "writingIndex"]
    /\ disk' = [disk EXCEPT !.tmpIndex = Torn]
    /\ clash' = (clash \/ Others(p, Saving) # {})
    /\ raced' = [q \in Procs |-> raced[q] \/ pc[q] \in Reading]
    /\ UNCHANGED <<docs, own>>

\* A file that was renamed while it was written is written where it is now.
Write(f, content) == IF disk[f] = Missing THEN disk ELSE [disk EXCEPT ![f] = content]

EndWriteIndex(p) ==
    /\ pc[p] = "writingIndex"
    /\ pc' = [pc EXCEPT ![p] = "writingChunks"]
    /\ disk' = [Write("tmpIndex", own[p]) EXCEPT !.tmpChunks = Torn]
    /\ UNCHANGED <<docs, own, loaded, clash, raced>>

\* Mutant: the old files are left for rename to replace.
EndWriteChunksKeepsOld(p) ==
    /\ pc[p] = "writingChunks"
    /\ pc' = [pc EXCEPT ![p] = "renameIndex"]
    /\ disk' = Write("tmpChunks", own[p])
    /\ UNCHANGED <<docs, own, loaded, clash, raced>>

EndWriteChunks(p) ==
    /\ pc[p] = "writingChunks"
    /\ pc' = [pc EXCEPT ![p] = "unlinkIndex"]
    /\ disk' = Write("tmpChunks", own[p])
    /\ UNCHANGED <<docs, own, loaded, clash, raced>>

Unlink(p) ==
    /\ \/ /\ pc[p] = "unlinkIndex"
          /\ pc' = [pc EXCEPT ![p] = "unlinkChunks"]
          /\ disk' = [disk EXCEPT !.index = Missing]
       \/ /\ pc[p] = "unlinkChunks"
          /\ pc' = [pc EXCEPT ![p] = "renameIndex"]
          /\ disk' = [disk EXCEPT !.chunks = Missing]
    /\ UNCHANGED <<docs, own, loaded, clash, raced>>

\* A temporary file another process is still writing is torn under its new name too.
RenameIndex(p) ==
    /\ pc[p] = "renameIndex" /\ disk.tmpIndex # Missing
    /\ pc' = [pc EXCEPT ![p] = "renameChunks"]
    /\ disk' = [disk EXCEPT !.index = disk.tmpIndex, !.tmpIndex = Missing]
    /\ UNCHANGED <<docs, own, loaded, clash, raced>>

RenameChunks(p) ==
    /\ pc[p] = "renameChunks" /\ disk.tmpChunks # Missing
    /\ pc' = [pc EXCEPT ![p] = "idle"]
    /\ disk' = [disk EXCEPT !.chunks = disk.tmpChunks, !.tmpChunks = Missing]
    /\ own' = [own EXCEPT ![p] = {}]
    /\ UNCHANGED <<docs, loaded, clash, raced>>

\* A write, an unlink or a rename fails; a rename does if another process has moved
\* or removed the file.
SaveFails(p) ==
    /\ pc[p] \in Saving \ {"cleanup"}
    /\ pc' = [pc EXCEPT ![p] = "cleanup"]
    /\ UNCHANGED <<docs, disk, own, loaded, clash, raced>>

\* The temporary files are removed, whoever wrote them, and the exception goes on.
Cleanup(p) ==
    /\ pc[p] = "cleanup"
    /\ pc' = [pc EXCEPT ![p] = "failed"]
    /\ disk' = [disk EXCEPT !.tmpIndex = Missing, !.tmpChunks = Missing]
    /\ own' = [own EXCEPT ![p] = {}]
    /\ UNCHANGED <<docs, loaded, clash, raced>>

----------------------------------------------------------------------------
(* ensure_loaded, at the beginning of search *)

\* Mutant: the index is missing when both files are.
MissingBoth == disk.index = Missing /\ disk.chunks = Missing

IndexMissing == disk.index = Missing \/ disk.chunks = Missing

\* FileNotFoundError: the index is built here if there are documents.
Rebuild(p) ==
    IF docs = {} THEN pc' = [pc EXCEPT ![p] = "idle"] /\ UNCHANGED own ELSE Extract(p)

\* A search with a new retriever, as each request has one.
Search(p) ==
    /\ pc[p] = "idle"
    /\ IF IndexMissing THEN Rebuild(p) ELSE pc' = [pc EXCEPT ![p] = "readIndex"] /\ UNCHANGED own
    /\ loaded' = [loaded EXCEPT ![p] = NotLoaded]
    /\ raced' = [raced EXCEPT ![p] = Others(p, Saving) # {}]
    /\ UNCHANGED <<docs, disk, clash>>

\* read_index raises RuntimeError for a file that is torn or gone: nothing is found.
ReadIndex(p) ==
    /\ pc[p] = "readIndex"
    /\ IF disk.index \in {Missing, Torn}
       THEN pc' = [pc EXCEPT ![p] = "failed"] /\ UNCHANGED loaded
       ELSE /\ pc' = [pc EXCEPT ![p] = "readChunks"]
            /\ loaded' = [loaded EXCEPT ![p].index = disk.index]
    /\ UNCHANGED <<docs, disk, own, clash, raced>>

\* open raises FileNotFoundError if the file is gone by now: the index is rebuilt.
ReadChunks(p) ==
    /\ pc[p] = "readChunks"
    /\ CASE disk.chunks = Missing -> Rebuild(p) /\ UNCHANGED loaded
         [] disk.chunks = Torn -> pc' = [pc EXCEPT ![p] = "failed"] /\ UNCHANGED <<own, loaded>>
         [] OTHER -> /\ pc' = [pc EXCEPT ![p] = "idle"]
                     /\ loaded' = [loaded EXCEPT ![p].chunks = disk.chunks]
                     /\ UNCHANGED own
    /\ UNCHANGED <<docs, disk, clash, raced>>

----------------------------------------------------------------------------
(* Around it *)

\* The exception has been logged; the next search or task begins.
Recover(p) ==
    /\ pc[p] = "failed"
    /\ pc' = [pc EXCEPT ![p] = "idle"]
    /\ loaded' = [loaded EXCEPT ![p] = NotLoaded]
    /\ UNCHANGED <<docs, disk, own, clash, raced>>

Upload(d) ==
    /\ d \notin docs
    /\ docs' = docs \cup {d}
    /\ UNCHANGED <<disk, pc, own, loaded, clash, raced>>

Crash(p) ==
    /\ pc[p] # "idle"
    /\ pc' = [pc EXCEPT ![p] = "idle"]
    /\ loaded' = [loaded EXCEPT ![p] = NotLoaded]
    /\ own' = [own EXCEPT ![p] = {}]
    /\ UNCHANGED <<docs, disk, clash, raced>>

Next ==
    \/ \E p \in Procs :
          \/ Ingest(p) \/ StartSave(p) \/ EndWriteIndex(p) \/ EndWriteChunks(p) \/ Unlink(p)
          \/ RenameIndex(p) \/ RenameChunks(p) \/ SaveFails(p) \/ Cleanup(p)
          \/ Search(p) \/ ReadIndex(p) \/ ReadChunks(p) \/ Recover(p) \/ Crash(p)
    \/ \E d \in Docs : Upload(d)

Spec == Init /\ [][Next]_vars

----------------------------------------------------------------------------
(* Properties *)

ProcState == {"idle", "encoding", "failed"} \cup Saving \cup Reading

\* What a build may be.
Builds == {Accepted(ds) : ds \in SUBSET Docs}

\* The variables keep their ranges; in particular nobody indexes what no build made.
TypeOK ==
    /\ docs \subseteq Docs
    /\ disk \in [{"index", "chunks", "tmpIndex", "tmpChunks"} -> Builds \cup {Missing, Torn}]
    /\ pc \in [Procs -> ProcState]
    /\ own \in [Procs -> Builds]
    /\ loaded \in [Procs -> [index : Builds, chunks : Builds]]
    /\ clash \in BOOLEAN
    /\ raced \in [Procs -> BOOLEAN]

\* Whatever crashes or fails in the middle of a save, the two files on disk are
\* whole, and of one and the same build if both are there, unless two processes saved
\* at once; and then a retriever, too, never ranks the vectors of one build and
\* answers with the chunks of another, unless a save overlapped its load
\* (retriever.py:253-293).
PairedUnlessOverlap ==
    ~clash =>
        /\ Torn \notin {disk.index, disk.chunks}
        /\ Missing \in {disk.index, disk.chunks} \/ disk.index = disk.chunks
        /\ \A p \in Procs : pc[p] = "idle" /\ ~raced[p] => loaded[p].index = loaded[p].chunks

\* No crash or failed save leaves the retriever without an index for good: as long
\* as saves do not overlap, a search either reads both files or builds the index
\* anew, and is never turned away by what it finds on disk (retriever.py:278-313).
SearchRecovers ==
    \A p \in Procs : pc[p] \in Reading /\ ~clash /\ ~raced[p] =>
        {disk.index, disk.chunks} \cap {Missing, Torn} = {}

\* Sentences of d that are in no unsuspect chunk.
Suspect ==
    [d \in Docs |->
        {s \in 1..Len(Text[d]) :
            LET with == {i \in 1..Len(Chunks(d)) : s \in Chunks(d)[i]}
            IN  with # {} /\ \A i \in with : Score(d, Chunks(d)[i]) >= Quarantine}]

\* Files whose first chunk is rejected.
BadStart == {d \in Docs : Text[d] # <<>> /\ Score(d, Chunks(d)[1]) >= Reject}

\* Cutting and gating lose no innocent text but in one way: a sentence of an uploaded
\* document is let into the index unless every chunk it is in is suspect, or the
\* document's first chunk was rejected, which makes the file name an untrusted domain
\* for the whole of the build (retriever.py:137-161, content_safety.py:96-115,
\* 204-251).
OnlySuspectLeftOut ==
    \A d \in docs \ BadStart : \A s \in 1..Len(Text[d]) \ Suspect[d] :
        \E c \in Accepted({d}) : s \in c[2]

=============================================================================
