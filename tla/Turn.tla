-------------------------------- MODULE Turn --------------------------------
(***************************************************************************)
(* A chat turn from the route to the cache:                                *)
(* ChatOrchestrator.generate_answer (app/orchestrator/                     *)
(* chat_orchestrator.py) and ChatPipeline.gather_context, with what the    *)
(* turn leaves behind: the knowledge graph, the prompts' scores, the       *)
(* evaluation dataset and the semantic cache.  Vector memory is module     *)
(* FaissStore.                                                             *)
(*                                                                         *)
(* Graph, prompts and dataset are JSON files.  Each request loads its own  *)
(* copy of them in the thread that builds its orchestrator                 *)
(* (providers.get_chat_orchestrator is a plain `def`), and saves a whole   *)
(* copy over the file from the event loop.                                 *)
(*                                                                         *)
(* The agent loop itself is AgentLimiter, Watchdog and SwarmEngine; how a  *)
(* question reaches the model is LLMCall; a streamed answer is ToolStream. *)
(***************************************************************************)
EXTENDS PromptEvolution

CONSTANTS
    Turns,        \* requests, one turn each
    Question,     \* what each asks
    OldPrompts,   \* what the prompts file may hold at first
    MemoryWired,  \* the pipeline has a MemoryService, as providers.py wires it
    NoTurn,
    MaxCrashes    \* bound: crashes of the process

VARIABLES
    pc,      \* where each turn is
    copy,    \* each turn's copy of the files
    file,    \* the files
    used,    \* the version of the prompt each turn used
    saving,  \* the file each turn is writing
    loop,    \* the turn that holds the event loop while it writes
    cache,   \* turns whose answer is cached
    crashes,
    quiet    \* no turn has overlapped another, no write failed, nothing crashed

vars == <<pc, copy, file, used, saving, loop, cache, crashes, quiet>>

Lists == {"kg", "dataset"}
Files == Lists \cup {"prompts"}

\* Where a turn may be.  Except in "saving" it waits there for a coroutine.
InFlight == {"lookup", "retrieving", "gathering", "agents", "extracting", "grading",
             "evolving", "saving", "storing", "caching", "evicting"}
Over == {"answered", "cached", "blocked", "refused", "streamed", "failed", "unsaved", "broken",
         "cancelled", "crashed"}

LoopFree == loop = NoTurn

\* A list of turns, or an evolution.
Contents(f, known) == IF f = "prompts" THEN [whole |-> TRUE, evo |-> known]
                                       ELSE [whole |-> TRUE, turns |-> known]
\* Emptied, and not, or not all, written.
Torn == [whole |-> FALSE]

Nothing == [f \in Files |-> IF f = "prompts" THEN Fresh ELSE {}]

Init ==
    /\ pc = [t \in Turns |-> "new"]
    /\ copy = [t \in Turns |-> Nothing]
    /\ \E evo \in OldPrompts :
          file = [f \in Files |-> Contents(f, IF f = "prompts" THEN evo ELSE {})]
    /\ used = [t \in Turns |-> NoVersion]
    /\ saving = [t \in Turns |-> "none"]
    /\ loop = NoTurn
    /\ cache = {}
    /\ crashes = 0
    /\ quiet = TRUE

----------------------------------------------------------------------------
(* The files *)

\* _load: what cannot be parsed counts for empty.
Loaded(f) ==
    IF ~file[f].whole THEN Nothing[f]
    ELSE IF f = "prompts" THEN file[f].evo ELSE file[f].turns

\* _save of one file: opening it for writing empties it.
StartSave(t, f, known) ==
    /\ copy' = [copy EXCEPT ![t][f] = known]
    /\ file' = [file EXCEPT ![f] = Torn]
    /\ saving' = [saving EXCEPT ![t] = f]
    /\ pc' = [pc EXCEPT ![t] = "saving"]
    /\ loop' = t

\* Mutant: only what is new is written.
WrittenNew(t, f) == Contents(f, IF f = "prompts" THEN copy[t][f] ELSE {t})

\* The whole copy is written.
Written(t, f) == Contents(f, copy[t][f])

\* The turn goes on to p, where it waits.
GoOn(t, p) ==
    /\ pc' = [pc EXCEPT ![t] = p]
    /\ saving' = [saving EXCEPT ![t] = "none"]
    /\ loop' = NoTurn
    /\ UNCHANGED copy

\* What follows the save of f.  Between the prompts and the dataset the turn does
\* not give way, unless the feedback calls for a new candidate.  (record_feedback
\* saves the score and then, if it judged a candidate, once more: one save here.)
AfterSave(t, f, onDisk) ==
    \/ f = "kg" /\ GoOn(t, "grading") /\ file' = onDisk
    \/ f = "dataset" /\ GoOn(t, "storing") /\ file' = onDisk
    \/ f = "prompts" /\ NeedsMutation(copy[t][f]) /\ GoOn(t, "evolving") /\ file' = onDisk
    \/ /\ f = "prompts" /\ ~NeedsMutation(copy[t][f])
       /\ copy' = [copy EXCEPT ![t]["dataset"] = @ \cup {t}]
       /\ file' = [onDisk EXCEPT !["dataset"] = Torn]
       /\ saving' = [saving EXCEPT ![t] = "dataset"]
       /\ UNCHANGED <<pc, loop>>

EndSave(t) ==
    /\ pc[t] = "saving"
    /\ \/ AfterSave(t, saving[t], [file EXCEPT ![saving[t]] = Written(t, saving[t])]) /\ UNCHANGED quiet
       \* The write fails; that is logged and no more.
       \/ AfterSave(t, saving[t], file) /\ quiet' = FALSE
    /\ UNCHANGED <<used, cache, crashes>>

----------------------------------------------------------------------------
(* generate_answer *)

At(t, p) == LoopFree /\ pc[t] = p

Move(t, p) == pc' = [pc EXCEPT ![t] = p]

files == <<copy, file, saving, loop>>

\* The orchestrator is built, in a thread beside the event loop, and the question
\* scanned.  A prompts file that is torn is written afresh: the constructors of the
\* planner, the critic and the other agents call initialize_prompt.
Begin(t) ==
    /\ pc[t] = "new"
    /\ copy' = [copy EXCEPT ![t] = [f \in Files |-> Loaded(f)]]
    /\ file' = IF file["prompts"].whole THEN file
               ELSE [file EXCEPT !["prompts"] = Contents("prompts", Fresh)]
    /\ Move(t, "lookup") \/ Move(t, "blocked")
    /\ quiet' = (quiet /\ \A x \in Turns : pc[x] \notin InFlight)
    /\ UNCHANGED <<used, saving, loop, cache, crashes>>

\* SemanticCache.get: a hit, if the entry has neither expired nor been evicted.
Lookup(t) ==
    /\ At(t, "lookup")
    /\ \/ Move(t, "cached") /\ \E x \in cache : Question[x] = Question[t]
       \/ Move(t, "retrieving")
    /\ UNCHANGED <<files, used, cache, crashes, quiet>>

Retrieve(t) ==
    /\ At(t, "retrieving")
    /\ Move(t, "gathering")
    /\ UNCHANGED <<files, used, cache, crashes, quiet>>

\* gather_context, once RAG and the web have been asked: with a MemoryService it
\* takes the coroutine of get_messages() for the messages, and raises TypeError.
\* Then decide_refusal, and the answer as a stream, of which nothing is kept.
Gather(t) ==
    /\ At(t, "gathering")
    /\ IF MemoryWired THEN Move(t, "broken")
       ELSE Move(t, "refused") \/ Move(t, "streamed") \/ Move(t, "agents")
    /\ UNCHANGED <<files, used, cache, crashes, quiet>>

\* _run_agent_graph ends, with the version of the prompt it used.
LoopEnds(t) ==
    \E v \in Choices(copy[t]["prompts"]) : used' = [used EXCEPT ![t] = v]

\* The watchdog cut the loop short: partial results, and no version is named.
LoopCutShort(t) == used' = [used EXCEPT ![t] = NoVersion]

\* The agent loop has an answer, or the limiter rejected it and the model was asked
\* directly, of which no version is named either; validation follows at once.
Answer(t) ==
    /\ At(t, "agents")
    /\ Move(t, "extracting")
    /\ LoopEnds(t) \/ LoopCutShort(t) \/ UNCHANGED used
    /\ UNCHANGED <<files, cache, crashes, quiet>>

\* The extractor's answer: kg.add_data saves if anything in it is new.  At a
\* relationship without one of its fields it raises, and the turn with it; what came
\* before that has been added to the copy and is not saved.
Extract(t) ==
    /\ At(t, "extracting")
    /\ \/ StartSave(t, "kg", copy[t]["kg"] \cup {t})
       \/ Move(t, "grading") /\ UNCHANGED files
       \/ /\ Move(t, "unsaved")
          /\ copy' = [copy EXCEPT ![t]["kg"] = @ \cup {t}]
          /\ UNCHANGED <<file, saving, loop>>
    /\ UNCHANGED <<used, cache, crashes, quiet>>

\* The grade is there: record_feedback for the prompt, then log_interaction.
Grade(t) ==
    /\ At(t, "grading")
    /\ IF used[t] = NoVersion
       THEN StartSave(t, "dataset", copy[t]["dataset"] \cup {t})
       ELSE \E score \in {0, 1} :
               StartSave(t, "prompts", AfterFeedback(copy[t]["prompts"], used[t], score))
    /\ UNCHANGED <<used, cache, crashes, quiet>>

\* A version number no copy knows: a fresh uuid4.
NewIds == {v \in VersionIds :
    /\ file["prompts"].whole => v \notin DOMAIN file["prompts"].evo.versions
    /\ \A t \in Turns : v \notin DOMAIN copy[t]["prompts"].versions}

\* evolve_prompt: the LLM has written a candidate, or nothing to be used.
Evolve(t) ==
    /\ At(t, "evolving")
    /\ \/ \E v \in NewIds :
             /\ \A w \in NewIds : v <= w
             /\ StartSave(t, "prompts", Evolved(copy[t]["prompts"], v))
       \/ StartSave(t, "dataset", copy[t]["dataset"] \cup {t})
    /\ UNCHANGED <<used, cache, crashes, quiet>>

\* store_interaction, of which every failure is swallowed: the turn goes to vector
\* memory.  The facts it then adds to the graph are there already.
Store(t) ==
    /\ At(t, "storing")
    /\ Move(t, "caching")
    /\ UNCHANGED <<files, used, cache, crashes, quiet>>

\* Mutant: the answer is cached while it is being graded.
CacheAnswerEarly(t) ==
    /\ At(t, "caching") \/ At(t, "grading")
    /\ IF pc[t] = "caching" THEN Move(t, "evicting") ELSE UNCHANGED pc
    /\ cache' = cache \cup {t}
    /\ UNCHANGED <<files, used, crashes, quiet>>

\* SemanticCache.set up to its MULTI.  (MemoryService.add_message, before it, is called
\* and not awaited: nothing is stored.)
CacheAnswer(t) ==
    /\ At(t, "caching")
    /\ cache' = cache \cup {t}
    /\ Move(t, "evicting")
    /\ UNCHANGED <<files, used, crashes, quiet>>

\* The awaits of set behind that, which evict and count, are over: the answer.
Respond(t) ==
    /\ At(t, "evicting")
    /\ Move(t, "answered")
    /\ UNCHANGED <<files, used, cache, crashes, quiet>>

\* A collaborator that nobody guards raises: Redis, the model, the embedder, the
\* retriever.
Fail(t) ==
    /\ LoopFree
    /\ pc[t] \in InFlight \ {"saving", "storing"}
    /\ Move(t, "failed")
    /\ UNCHANGED <<files, used, cache, crashes, quiet>>

\* TimeoutMiddleware, or the client, cancels the turn at the await it is at.
Cancel(t) ==
    /\ LoopFree /\ pc[t] \in InFlight
    /\ Move(t, "cancelled")
    /\ UNCHANGED <<files, used, cache, crashes, quiet>>

\* The process dies; a file that was being written stays torn.
Crash ==
    /\ crashes < MaxCrashes
    /\ crashes' = crashes + 1
    /\ pc' = [t \in Turns |-> IF pc[t] \in InFlight THEN "crashed" ELSE pc[t]]
    /\ saving' = [t \in Turns |-> "none"]
    /\ loop' = NoTurn
    /\ quiet' = FALSE
    /\ UNCHANGED <<copy, file, used, cache>>

Next ==
    \/ \E t \in Turns :
          \/ Begin(t) \/ Lookup(t) \/ Retrieve(t) \/ Gather(t) \/ Answer(t) \/ Extract(t)
          \/ Grade(t) \/ Evolve(t) \/ Store(t) \/ CacheAnswer(t) \/ Respond(t)
          \/ EndSave(t) \/ Fail(t) \/ Cancel(t)
    \/ Crash

Spec == Init /\ [][Next]_vars

----------------------------------------------------------------------------
(* Properties *)

\* An answer can be served from the cache only once its own turn has been graded and
\* logged, whatever was cancelled, failed or crashed before or after that; and while
\* turns follow one another, the dataset's file has the turn (chat_orchestrator.py:
\* 433-455, semantic_cache.py:163-173).  It need not have been answered itself.
CachedWasGraded ==
    \A t \in cache :
        /\ t \in copy[t]["dataset"]
        /\ quiet /\ file["dataset"].whole => t \in Loaded("dataset")

\* All that is known in x is known in y.
KnownIn(f, x, y) ==
    IF f = "prompts" THEN \A v \in DOMAIN x.versions : /\ v \in DOMAIN y.versions
                                                      /\ x.versions[v].hits <= y.versions[v].hits
                     ELSE x \subseteq y

\* What turn t has learned, but for what add_data had added when it raised.
Learned(t, f) == IF f = "kg" /\ pc[t] = "unsaved" THEN copy[t][f] \ {t} ELSE copy[t][f]

\* While turns follow one another, nothing that one has learned is forgotten, however
\* it ended: no fact of the graph, no score or version of a prompt, no entry of the
\* dataset (graph_store.py:25-41, manager.py:27-44, dataset_builder.py:26-39).  Only
\* the facts of a turn that failed while they were added may be lost.
SequentialForgetsNothing ==
    quiet => \A f \in Files : file[f].whole =>
                 \A t \in Turns : pc[t] \in Over => KnownIn(f, Learned(t, f), Loaded(f))

\* However overlapping turns overwrite each other's file, it always holds versions
\* that fit together: the active and the baseline version exist, the candidate is
\* another one, and every version was made from one that is there
\* (manager.py:56-89, 122-140, models.py:29-42).
EvolutionsFit ==
    /\ \A t \in Turns : Fits(copy[t]["prompts"])
    /\ file["prompts"].whole => Fits(file["prompts"].evo)

\* Documented, and not so: "Sessions persist conversation context across requests"
\* (docs/API_REFERENCE.md:699).  With the MemoryService that providers.py:33-34
\* gives the pipeline, a turn that is neither cached nor blocked ends in TypeError
\* when it reads the conversation (pipeline.py:47-49).
NoTurnBreaks == \A t \in Turns : pc[t] # "broken"

=============================================================================
