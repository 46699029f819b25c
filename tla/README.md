# Verification of the AI chatbot platform

TLA+ models, TLC configurations and TLAPS proofs for the server in this
repository (`src/`): a Python/asyncio chat backend that answers a question
through a retrieval pipeline and a multi-agent reasoning loop, with caches,
long-term memory and background workers around it. All paths below are relative
to `src/`.

1. [The system](#1-the-system) – components, state, interactions, hard behaviour
2. [What is modelled](#2-what-is-modelled) – module by module
3. [What the runs show](#3-what-the-runs-show) – properties, bounds, fairness
4. [What is proved](#4-what-is-proved) – theorems and their arguments
5. [Where the code and its documentation disagree](#5-where-the-code-and-its-documentation-disagree)
6. [What is not modelled](#6-what-is-not-modelled)
7. [Plan](#7-plan)

To run them: `tlc -config SwarmEngine.cfg MCSwarmEngine.tla` and
`tlapm CircuitBreaker_proofs.tla`. The configuration `X.cfg` belongs to the module
`MCX`, except those of components that have an MC module together: Gateway, Turn
and Turn_wired belong to MCRequests, LLMCall and ToolStream to MCAnswering,
SemanticCache and FaissStore to MCStores. Deadlock checking is on wherever a run
does not say that its executions terminate.

## 1. The system

### 1.1 One turn of a conversation

`ChatOrchestrator.generate_answer` (`app/orchestrator/chat_orchestrator.py:343-474`)
is the spine. It runs, in this order and with an `await` between most steps:

1. prompt guard; a block ends the turn;
2. `SemanticCache.get`; a hit ends the turn;
3. router, `MemoryRetriever.retrieve_context` (loads the FAISS files),
   `ContextPipeline.gather_context`;
4. a refusal may end the turn; a streamed turn ends here too;
5. `AgentExecutionLimiter.execute(_execute_agent_loop)`: the watchdog guards a
   task that plans a graph and lets the reasoning graph engine execute it. If the
   limiter rejects, one direct model call replaces the loop;
6. validation, knowledge-graph extraction, grading, prompt feedback;
7. `UnifiedMemoryController.store_interaction`, the conversation store,
   `SemanticCache.set`.

`app/api/dependencies/providers.py:30-35` builds an orchestrator for every
request, so everything an orchestrator owns (limiter, watchdog, engine, breaker,
vector memory, locks) belongs to one request. What requests really share is the
event loop of the process, the files under the storage directory, Redis and the
database.

### 1.2 Components

| Component (source) | State | Operations | Interacts with |
|---|---|---|---|
| CircuitBreaker, FailureTracker (`app/reliability/circuit_breaker.py`, `failure_tracker.py`) | `_state`, `_opened_at`, `_half_open_calls`, failure deque | `call`, `state`, `force_open`, `force_close` | wraps the model call of the orchestrator |
| AgentExecutionLimiter (`app/reliability/load_guard.py:109-151`) | semaphore, `_active` | `execute` | wraps the agent loop |
| AgentWatchdog, AgentExecutionContext (`app/orchestrator/watchdog.py`) | `_executions`, monitor task; counters, flag and reason of each context | `guarded_execute`, `register`, `unregister`, the monitor, `shutdown`; `check`, `increment_*` | wraps the graph execution in a task |
| ReasoningGraph, engine, strategies (`app/reasoning_graph/`, `app/swarm/execution.py`) | node statuses, `_exec_ctx`, `_active_agents` | `get_ready_nodes`, `execute`, `_execute_node` | calls agents, tools, model, memory |
| Vector memory (`app/vector_memory/`) | FAISS index and metadata, in memory and in two files | `_load`, `add`, `batch_insert`, `_save`, `close`; maintenance | request, `workers/indexing_worker.py`, `workers/maintenance_worker.py` |
| Semantic cache (`app/cache/semantic_cache.py`) | Redis: embedding, response and index entry of each query | `get`, `set`, `invalidate`, `clear`, eviction | every request of every process |
| Retry, timeout (`app/reliability/retry_policy.py`, `timeout_controller.py`) | the attempt | `execute` | between breaker and providers |
| FallbackProvider and clients (`app/llm/providers/`) | a small breaker per provider | `ask`, `ask_stream` | every question to a model |
| Gateway (`app/api/main.py`, `app/api/middleware/`) | token buckets in Redis, the script's hash | rate limit, JWT, size, timeout, API key | every request |
| Orchestrator, pipeline (`app/orchestrator/chat_orchestrator.py`, `pipeline.py`) | none that outlives the request | `generate_answer`, `gather_context` | everything below |
| Knowledge graph (`app/knowledge_graph/`) | a graph and its file | `add_data`, `save`, `query` | orchestrator, retriever |
| Prompt evolution (`app/prompts/evolution/`) | versions with scores, and their file | `record_feedback`, promotion, `evolve_prompt` | orchestrator |
| Evaluation (`app/evaluation/`) | the dataset file | `log_interaction` | orchestrator |
| Tool runner, registry, plugins (`app/orchestrator/tool_runner.py`, `app/tools/`, `app/plugins/`) | a buffer per stream, a subprocess per plugin call | `wrap_stream`, `run_tool`, `run_plugin` | streamed answers |
| Memory controller, authority (`app/memory/memory_controller.py`, `authority.py`) | per-session locks | `store_interaction`, `get_unified_context`, `resolve_all` | conversation, vector and graph memory |
| Conversation memory (`app/memory/memory_service.py`, `session_cache.py`, `conversation_store.py`) | Redis list, database rows | `add_message`, `get_messages` | pipeline, orchestrator |
| RAG retriever, content gate (`app/rag/`, `app/security/content_safety.py`) | FAISS index and chunk files | `embed_documents`, `_save_atomic`, `ensure_loaded`, `scan` | pipeline, `workers/ingestion_worker.py` |
| Qdrant store, migration (`app/vector_memory/qdrant_store.py`, `migration.py`) | remote collection | `initialize`, `batch_insert`, `run_migration` | `workers/indexing_worker.py` |

### 1.3 What is hard, and what makes each component correct

`PROJECT.json` lists the hazards at their lines; in short:

- **Breaker** – calls outlive the state they were admitted in: late successes and
  failures, probes of an earlier HALF_OPEN period, cancelled probes. Correct:
  an outage is shielded and ends, probes stay within their slots.
- **Limiter** – a slot is handed over in one step and taken in a later one, and a
  timeout or a cancellation fits in between. Correct: slots are neither lost nor
  invented, no waiter sleeps beside a free slot for good.
- **Watchdog** – the monitor task comes and goes with the executions. Correct:
  nothing runs unsupervised, nothing runs too long, the reported reason fits.
- **Engine** – batches cut by limits, parallel failures and budget exceptions,
  graphs that are no DAGs, one engine under several executions. Correct:
  dependencies first, budgets kept, what was completed is reported, termination.
- **Vector memory** – two files, several processes, no lock, no atomic rename.
  Correct: vectors and records stay paired as long as saves do not meet, what is
  lost is lost to an older or unreadable copy only, nothing is multiplied.
- **Semantic cache** – many Redis commands per operation and none of them
  grouped with another operation's. Correct: what is cached can be found and
  evicted, answers are the nearest, the size comes back to its limit.
- **Model calls** – three layers that repeat a question, each inside the next, and
  a timeout that cuts them anywhere; late answers move a breaker that others have
  moved since. Correct: the repetitions multiply to no more than their limits, a
  breaker's state is what its count says.
- **Gateway** – a bucket that is only brought up to date when it is asked, in a
  store that expires and loses it. Correct: it answers as a bucket that fills all
  the time would; every request is answered.
- **Streams and tools** – a call comes in pieces, and its subprocess outlives the
  task that started it. Correct: no text is lost or doubled, no call and no child
  stays for ever.
- **Turn** – JSON files loaded whole and saved whole by overlapping requests, each
  of which may fail or be cancelled at every `await`. Correct: turns that follow
  one another forget nothing, only what was graded and logged is cached, versions
  of a prompt fit together.
- **Knowledge** – two files replaced in four renames and unlinks, layers stored
  one by one, batches whose answers are lost. Correct: the files are of one build,
  what a snapshot is told of was said, a summary counts what is there.

## 2. What is modelled

An asyncio task runs undisturbed from one `await` to the next, so an action is
such a stretch of a handler with everything it does to the state; what may happen
at an `await` (other tasks, a timeout, `CancelledError`) is other actions. Data
is reduced to what the properties tell apart. In every module the definitions
headed `Mutant:` are not part of the model: each is a plausible bug in the
definition that follows it, and shows that a property is able to fail.

### CircuitBreaker

`call` is split at its `await` of the protected coroutine: `CallClosed`,
`CallProbe`, `CallOpen`, `CallSaturated` are its four ways in, `Succeed`, `Fail`,
`Cancelled`, `FallbackEnds` its ways out. Reading `state` starts a HALF_OPEN
period as a side effect; `SeenState`, `SeenCalls`, `SeenPc` are what the reader
finds, and `InspectState` is a reader other than `call`. `failureAge` is the
tracker's deque as ages, so the window needs no bounded clock. `loopStuck` is the
event loop's thread blocked in `with self._lock` while a suspended task owns the
lock: only a fallback that suspends (`FallbackSuspends`) can lead there.

Breaker is the abstract breaker: a clock counts an outage down and starts the
probing itself, an answer may end the probing or start an outage but never end one
or start it anew, and no period admits more than its slots. CircuitBreaker, which
has no timer and looks at the time when somebody asks, implements it with
`state <- SeenState`: what the next reader will find, not what `_state` holds.
Breaker leaves open when an answer decides: in the code one that comes between the
end of an outage and the first reading of `state` decides nothing.

### AgentLimiter

`execute` over `asyncio.Semaphore` as CPython 3.12 implements it: `release` hands
the slot to the first pending future (`Release`), the woken task runs later
(`StartGranted`) and may be interrupted in between (`Interrupt`, `Reject`).
`PassOn` is the `while self._value > 0` loop of `acquire`. `LimiterOf` is the
wiring: one shared limiter, or one of its own for every request.

### SwarmEngine

`ReasoningGraph`, `ReasoningGraphEngine`, both strategies and the context's
counters, as `_run_agent_graph` drives them. `Start` is the planner's return and
the entry into the strategy, `StartNode`/`EndNode` are `_execute_node` before and
after its `await`, `EndBatch` the end of a gather (or of the `for`) with the next
turn of the loop, `Round`. `Init` allows every graph `add_node` lets through,
with cycles (an id planned twice replaces its node) and dependencies that name no
node. The sequential `for` and the swarm's gather differ in `NextBatch`,
`MayStart` and `BudgetRaised`. `engineCtx` is the engine's `_exec_ctx`, shared by
all executions on the engine.

### Watchdog

`guarded_execute` (`Register` … `Return`), the guarded coroutine as the
environment (`Check`, `End`, or nothing for ever), cancellation of its caller
(`CallerCancels`), the monitor (`Poll`, `MonitorExits`) and `shutdown`
(`ShutdownStarts`, `ShutdownEnds`; only the tests call it, so it is in
`ShutdownSpec` alone). Time passes in ticks; the loop may be late for any task
but runs the monitor within the tick it is due.

### FaissStore

The store behind `VectorMemory`, for its three users: requests (one process),
`index_vectors` (a Celery process, with retries) and maintenance. `_load` reads
one file after the other (`LoadIndex`, `LoadRecords`), `_save` truncates and
writes one after the other (`Save`, `IndexWritten`, `OpenMetadata`,
`MetadataWritten`), and a crash or a failed save may come between any two. A
record and its vector are both the text they were made from, so "consistent"
is "the same sequence". `Maintain` is `run_full_maintenance` with its greedy
deduplication; nothing is ever found stale or compressible, since both look for
a timestamp beside the metadata and it is inside it. Only the sessions of one
process keep out of each other's loads and saves (`MayRun`); between processes
nothing does. What two of them write into one file at once is taken for a mixture
nobody can read (`Result`, or the whole of one of the two), and four history
variables say who was concerned: `spoiled` (the files may be of different saves),
`suspect` (sessions whose load or save met another one's save), `overlap` (texts a
session's store may lack), `saved` (texts saved and not since overwritten by a store
that may lack them).

### SemanticCache

Every Redis command, or `MULTI`, of `get`, `set`, `invalidate`, `clear` and
`_evict_if_needed` is a step, and tasks (requests of any process) interleave
between them, are cancelled, or die. An entry's embedding and response are set
and deleted together and expire together (`expires`); its member of the sorted
set never expires (`index`). The pipeline of `get` is no transaction, so every
embedding is read in a step of its own (`Scan`).

### LLMCall

Questions of several callers to one `FallbackProvider`: guarded ones
(`_safe_llm_ask`: `RetryPolicy` around `TimeoutController`), direct ones and
streams. `CallFrom` is the loop over the providers from some provider on;
`Success`, `Failure` and `Admitted` are what a provider's breaker makes of an
outcome, and of being asked whether it is available. `Fail`/`Again` are
tenacity's tries, `TimeOut`/`Wake` those of the retry policy. A breaker's
failure count stops at the threshold and its clock one tick beyond the recovery
time, which is all they are compared with. The `CircuitBreaker` around the
guarded call sees one outcome per question and is the module of that name.

### RateLimit and Gateway

Gateway is the chain of middlewares in front of a route, in the order in which
Starlette runs them. `Script` is the Lua script, `Check`, `CheckLost` and
`FailOpen` what the limiter makes of it, `Proceed` the middlewares that keep no
state. A bucket is its `tokens` and the `age` of its `last`; a tick is the time
in which it regains one unit. Redis may be unreachable, and come back with
everything, without its scripts, or without its data; and a call to it may hang
(`Hang`), as the client is given no time-out. RateLimit is the abstract
bucket, a level that rises by itself; Gateway implements it with
`level <- Refilled`, and that is checked and proved. Reading `time.time()` and
running the script are taken for one moment (see section 5).

### ToolStream and PluginRun

An answer is a sequence of tokens, the opening tag in two of them, so that a
chunk may end within it. `Chunk` is one turn of `wrap_stream`'s loop: search,
execute, flush, or hold back. `Match` is the regular expression, whose `.*` is
greedy. PluginRun is `run_plugin` and its child process: Popen in an executor
(`Spawn`), then `communicate()` on the event loop (`Talk` to `Finish` or
`Expire`), during which `loop` is taken and no other action of the process is
enabled. ToolStream instantiates it for the calls that go to plugins. A child whose
caller is cancelled while it is started is "abandoned": CPython keeps a dropped
`Popen` that has not exited in `subprocess._active`, with its stdin open, so the child
waits for a request that nobody sends.

### Turn and PromptEvolution

`generate_answer` from `get_chat_orchestrator` to the cache, with the early
returns, an exception (`Fail`), a cancellation (`Cancel`) and the death of the
process (`Crash`) wherever it may come. Each request has a `copy` of the
knowledge graph, of the prompts and of the dataset, loaded in a thread, hence
also while the event loop is in the middle of a save (`Torn`). `StartSave` empties
the file, `EndSave` writes the whole copy; between them `loop` is taken.
`AfterSave` is what comes after each save without an `await`. `CacheAnswer` is
`SemanticCache.set` up to its `MULTI`, `Respond` what is awaited behind it; "unsaved"
is a turn in which `add_data` raised after it had added to the copy. PromptEvolution
has the operators on one prompt's versions: `AfterFeedback` with its promotion
and rejection, `NeedsMutation`, `Evolved`, `Choices`. `quiet` is history: no turn
has yet overlapped another, nothing crashed, no write failed.

`MemoryWired` says what `gather_context` meets. With the application's wiring
(`TRUE`) it takes a coroutine for a list and every turn that gets there ends in
`TypeError`; what comes after is reached only in deployments, and tests, that
give the pipeline no `MemoryService`, or once the `await` is there. The run `Turn`
checks this later part with `FALSE`, the run `Turn_wired` shows the other.

### RagIndex

The index over uploaded documents, in several processes. `Chunks` cuts a
document, `Passes` and `Safe` are the content gate's decisions, `Extract` the
beginning of `embed_documents`. A save opens, fills, unlinks and renames
(`StartSave` … `RenameChunks`) and may fail (`SaveFails`, `Cleanup`) or be cut off
by a crash at every step; the temporary names are common to all processes, and a
file that is renamed while it is written goes on being written (`Write`).
`Search`, `ReadIndex` and `ReadChunks` are `ensure_loaded`. `clash` and `raced`
are history: two saves have overlapped; a load has overlapped a save.

### UnifiedMemory

`store_interaction` and `get_unified_context` of one controller under the
per-session lock, one action per `await` that reaches a store. A message goes to the
Redis list (`recent`) and then to the table (`history`), each of which swallows its
failures (`AddMessage`); the list may expire at any time (`Expire`). `store_turn`
writes the episodic memory and, for some questions, the profile (`StoreEpisodic`,
`StoreProfile`); the graph follows without an `await` (`EndStore`). A reader takes the
latest messages of the list or else of the table (`FetchRecent`, `FetchHistory`), and
then searches each vector memory for its `TopK` (`SearchEpisodic`, `SearchProfile`):
any choice of so many, as similarity is not modelled; the memory "semantic", to
which nothing is ever added, is left out. `earlier` and `spoilt` are history: the
stores of a session that were over when a store began, and the calls one of whose
layers failed or that were cancelled.

The second half is the resolver as operators on the facts of a snapshot about one
key: `Facts`, `Above` (the sort key, with the place in the list, as the sort is
stable), `Winner`, `Trusted`, `Resolved`, `ConflictWinner`. Which facts a text states
is data: one value per question, one per relationship. Facts that are stamped one
after the other are taken to have rising stamps.

### VectorMigration

`run_migration` in its Celery task. Each call of Qdrant succeeds, fails unseen, or
is applied and its answer lost (`CreateCollection`, `UpsertFails`); `Retry` is
`_retry_async`. A worker that dies, or a task that raises, starts over with new
ids (`Again`).

### Requests, Answering, Stores and Knowledge

Components that share no state are put together in pairs, and once in three, so
that their theorems have one module to be stated in: Requests is Gateway and Turn,
Answering is LLMCall and ToolStream, Stores is SemanticCache and FaissStore,
Knowledge is RagIndex, UnifiedMemory and VectorMigration. The first of each is
extended, the others are instances (`Chat`, `Stream`, `Faiss`, `Memory`,
`Migration`), whose properties have a name there and whose assumptions on constants
stand there too. MCRequests, MCAnswering and MCStores let one component work in
each run and the other rest in its initial state (`GatewaySpec` and `ChatSpec`,
`LLMSpec` and `StreamSpec`, `CacheSpec` and `StoreSpec`); one run of MCKnowledge
checks its three, as a behaviour of `MCSpec` is a behaviour of one of them.

## 3. What the runs show

### 3.1 Passing runs

| Run | Instance | States | Properties |
|---|---|---|---|
| `CircuitBreaker` | 3 callers, threshold 2, recovery 2, 2 probe slots, window 3, 3 records, suspending fallback | 60,471 | ProbesAccounted, LazyBreakerIsEager, OutageEnds |
| `AgentLimiter` | 5 requests on one limiter of 2 | 5,211 | SlotsConserved, NoLostWakeup, EveryWaitEnds |
| `SwarmEngine` | 2 executions on one engine: one of 3 nodes, any graph of two of them and the third ready at once, beside one of a single node; both strategies, tools on all nodes or none, 2 agents, 2 parallel, 4 iterations, 2 tool calls | 495,712 | DependenciesFirst, WithinBudget, PartialsExact, WithinSwarmLimits, NoAgentLeftBehind, ActiveCoversBatches, EveryExecutionEnds |
| `Watchdog` | 2 executions, ids reused, runtime 3, poll 2 | 48,157 | Supervised, Punctual, ReasonMatchesResult, EveryCallReturns |
| `FaissStore` | a request and maintenance, beside another request or an indexing task of 2 attempts; 1 fault, 3 texts; a view without the stores of sessions that are not at work | 502,921 | Aligned, LostOnlyToOverlap, CopiesBounded, DuplicatesOnlyRemoved |
| `SemanticCache` | 2 tasks, 3 queries, 1 entry allowed, TTL 1, 2 ticks, symmetric tasks | 897,646 | LiveIndexed, NearestAnswers, EvictionExact |
| `LLMCall` | a guarded, a direct and a streaming caller; 2 providers, threshold 2, recovery 1, 2 tries, 1 retry | 430,076 | TrippedIffThreshold, CallsBounded |
| `Gateway` | 2 connections of one client, 3 kinds of request, 2 tiers, buckets of 3, TTL 4, 1 loss of data | 234,252 | LazyBucketIsEager, EveryRequestAnswered |
| `ToolStream` | 2 streams of up to 8 tokens, chunks of up to 3, buffer of 4 | 60,279 | TextConserved, EveryToolCallEnds, NoChildStays |
| `Turn` | 2 turns with the same question, promotion after 2 scores, mutation after 1, 4 versions, 1 crash, 2 old prompt files, symmetric turns | 1,462,145 | CachedWasGraded, SequentialForgetsNothing, EvolutionsFit |
| `Knowledge` | RagIndex: 2 processes, documents of 4, 1 and 2 sentences; UnifiedMemory: 2 stores and a reader of one session, 3 messages, trust below and at the threshold, 1 call spoilt; VectorMigration: 2 types, batches of 2, 2 attempts, 2 runs | 1,560,606 | PairedUnlessOverlap, SearchRecovers, OnlySuspectLeftOut, FoundWasSaid, AuthorityKept, SummaryExact |

`Turn_wired` is the one run in which TLC finds a violation; see section 5.

What each property says, beyond its name:

- *ProbesAccounted*: whatever mix of answers and cancellations ends the probes,
  one HALF_OPEN period never has more probes than slots it handed out.
- *LazyBreakerIsEager*: a refinement, with Breaker as the abstract specification:
  until `recovery_timeout` has passed nobody is let in and no answer to a call from
  before the trip ends or prolongs the outage; from then on the circuit is HALF_OPEN
  with all its slots, whoever notices it and however late.
- *OutageEnds*: although no timer ends an outage, calls coming in do.
- *SlotsConserved*, *NoLostWakeup*, *EveryWaitEnds*: see section 1.3; the last
  one holds without any assumption that `queue_timeout` fires.
- *DependenciesFirst*, *EveryExecutionEnds*: the loop neither runs a node early nor
  spins, for cyclic graphs and unknown ids as well.
- *NoAgentLeftBehind*: an execution that is over, however it ended, has no node at
  work behind its back, and unless one was cancelled the shared count of agents is
  exactly what is dispatched.
- *WithinBudget*: `check` fails *at* the limit and the planner's own iteration
  counts, so an execution does fewer than `MAX_AGENT_ITERATIONS - 1` nodes.
- *PartialsExact*: what an interrupted execution can still return is what its
  nodes completed.
- *WithinSwarmLimits*: at most `MAX_PARALLEL_TASKS` at once per execution; each
  execution may exceed the limit of agents by one, because a batch is never
  empty (`max(1, …)`).
- *ActiveCoversBatches*: cancelled gathers leave `_active_agents` too large,
  never too small.
- *Supervised*: the monitor ends with each burst of executions and is there again
  for the next, however close the two are.
- *Punctual*: nobody runs longer than the limit and one poll interval.
- *ReasonMatchesResult*: COMPLETED is reported exactly with a result, even if the
  deadline, or a `check` that was swallowed, came first.
- *Aligned*: a store that met no save when it loaded or saved pairs each vector with
  its own record, and so do the files after a save that met no other: whatever was
  interrupted before.
- *LostOnlyToOverlap*: a saved text is lost only to the save of a store that was
  loaded before, or that could not read the files whole; not to a retry, a failed
  attempt or a crash that left both files readable, and to maintenance only for a
  similar one.
- *CopiesBounded*: retries multiply a text by the attempts at most.
- *DuplicatesOnlyRemoved*: similarity is not transitive; still, each removed
  record has a similar one among those that stay, and no two similar stay.
- *LiveIndexed*: a response that has not expired has a member in the index,
  wherever writers, evictions and cancelled tasks were.
- *NearestAnswers*: a hit is at least as near as anything that was there for the
  whole look-up.
- *EvictionExact*: an eviction that nobody interferes with makes up for cancelled
  ones and for members that `get` put back: exactly `max_entries` are left, and
  it removed the least recently used.
- *TrippedIffThreshold*: late successes, failures and probes of several callers
  never part a provider's state from its count: none is left closed one failure
  before the threshold's worth, nor opened early.
- *CallsBounded*: tenacity, the chain and the retry policy make no more than
  `(retries + 1) · providers · tries` calls for a guarded question, and
  `providers · tries` for any other.
- *LazyBucketIsEager*: a refinement, with RateLimit as the abstract specification:
  refills on use, refusals that write the hash back, expired keys and lost
  verdicts are invisible to the client.
- *EveryRequestAnswered*: whatever the route does and wherever Redis breaks off,
  except while a call to Redis hangs, which the code gives no time-out (section 5).
- *TextConserved*: the client gets each token once and in order, less the calls
  that were executed, however the provider cuts its chunks.
- *EveryToolCallEnds*, *NoChildStays*: with plugins that never end, while calls
  block the event loop for each other. The one child that does stay is that of a
  client that went away while it was being started (section 5).
- *CachedWasGraded*: what the cache serves comes from a turn that was graded and
  logged, also in the file while turns follow one another. It need not have been
  answered: behind the cache's `MULTI` it may still fail or be cancelled.
- *SequentialForgetsNothing*: as long as turns do not overlap, whatever a turn
  learned is in the files after it, even if it failed or was cancelled, but for the
  facts of a turn that failed while `add_data` was adding them. Overlapping turns do
  overwrite each other's (section 5).
- *EvolutionsFit*: even then, active, baseline, candidate and parents are versions
  that exist.
- *PairedUnlessOverlap*, *SearchRecovers*: a crash or a failure at any step of a
  save leaves files of one build, or files a search rebuilds; both up to the
  first moment two processes save at once, after which the code promises nothing.
- *OnlySuspectLeftOut*: neither the overlap of chunks nor the gate loses a sentence
  that is not in suspect chunks only, except behind a rejected first chunk.
- *FoundWasSaid*: an interaction of its session that a snapshot finds in vector
  memory or the graph is in its conversation, question and answer, or is older than
  all of that: never is the end of the conversation missing, or half of it. Excepted
  are interactions and reads that lost a layer. The converse does not hold: a search
  for the nearest two need not find what was said.
- *AuthorityKept*: the resolved fact is one that is fit (no graph fact below the
  threshold), of the highest source among those, and there is one whenever a fact is
  fit; the winner a conflict names may only be another if it is unfit.
- *SummaryExact*: what a migration's summary counts is there, once, whatever was
  retried.

### 3.2 Why these bounds are enough

- Breaker: two slots and three callers give probes of two periods and a caller
  that finds the slots taken; a window longer than the recovery time and a deque
  longer than the threshold let failures of one outage reach the next or fall out.
  Ages saturate one beyond what they are compared with, which bounds nothing.
- Limiter: five requests on two slots leave three in the queue, enough for a
  hand-over to a waiter that is interrupted with others behind it.
- Engine: two nodes make a chain, a cycle, a node that waits for itself or for an
  id that is none, and a batch of two; the third, which is always ready, lets a batch
  be cut by the limits. The second execution competes for agents and takes the
  engine's context over in the middle of the first. With three nodes and four
  iterations, of which planning is one, the last node meets the limit of iterations;
  with tools on all nodes, the limit of tool calls is met before it.
- Watchdog: two executions suffice for one burst ending as the other begins; the
  runtime is not a multiple of the poll interval, the worst case for being late.
- FaissStore: the texts are similar in a chain (a–b–c, a and c not), the shortest
  list on which greedy and "any earlier duplicate" deduplication differ. Two sessions
  write and maintenance meets each of them, at every step of a load or save; two
  attempts repeat a batch; one fault interrupts one save.
- SemanticCache: three members over a limit of one make an eviction of two; two
  ticks make a member older than another and let an entry of TTL 1 expire.
- LLMCall: three callers of three kinds share two breakers, so that a success and
  two failures of different callers meet at one; two tries and one retry make
  each of the three layers repeat.
- Gateway: the agent tier's token costs two of three units, so a bucket may hold
  some and still refuse; a TTL beyond the time of refill lets a key expire on the
  way to being full.
- ToolStream: answers with one call between texts, with two calls in a row and
  with a tag never closed; with chunks of three, tags are cut in two and two
  calls meet in a buffer. Two streams, so that one's `communicate()` stops the
  other.
- Turn: two turns overlap or follow one another; thresholds so low that two turns
  promote, reject and mutate; the old prompts are a fresh file and one with a
  candidate about to be judged.
- UnifiedMemory: two interactions are four messages, of which a reader takes three,
  so that the first is cut in half; the second is in the profile as well, and its
  relationship is the one that is trusted. Every layer is lost in some behaviour.
- Knowledge: the four sentences make overlapping chunks of which one is suspect; a
  document of two whose first chunk is rejected. One of two processes saves, crashes or
  fails while the other builds or reads. A type with more vectors than records
  and one with fewer, each of more than one batch or just one.

Bounds that cut behaviours off: `MaxFaults`, `MaxAttempts` (the code's own retry
limit) in FaissStore, `MaxTime` in SemanticCache, `MaxLosses` in Gateway,
`MaxChunk` in ToolStream, `MaxVersions` and `MaxCrashes` in Turn, `MaxRuns` in
VectorMigration; and for UnifiedMemory, in MCKnowledge, `MaxSpoilt` (one call at most
fails or is cancelled; FoundWasSaid is about a reader and an interaction that are not)
and `ReadOver` (nothing new is said of a snapshot after the read). All other state
spaces are finite by themselves.

### 3.3 Fairness, and other assumptions

- The event loop eventually runs a task that stays ready: weak fairness of the
  continuations (`StartGranted`, `Reject`, `Unwind`, `Return`, `Poll`,
  `MonitorExits`).
- *CircuitBreaker*: what runs under the breaker ends, as `TimeoutController` is
  inside it; the clock runs; there is always a next call. `OutageEnds` exempts an
  operator who forces the circuit open for ever, and a blocked loop.
- *AgentLimiter*: an execution ends, because the watchdog ends it; this is the
  `EveryCallReturns` of the module Watchdog.
- *SwarmEngine*: `WF(Step(e))`: what a node awaits ends, and so do batches.
- *Watchdog*: nothing is assumed of the guarded coroutine except that it does not
  suppress the cancellation it is sent.
- *Gateway*: a call to Redis that does not hang ends, by an answer or an error
  (`WF(Limit(r))`), and a `wait_for` fires (`WF(TimeOut(r))`). That a route ends is not
  assumed, nor that Redis comes back, nor that a call which hangs (`Hang`) ever wakes.
- *ToolStream*: the executor starts a child, `communicate()` times out, the loop goes
  on with what is ready, and a tool of the registry ends. That a plugin ends is not
  assumed, nor that the provider goes on.
- *FaissStore*: nothing is assumed of the deployment: Celery tasks and the API process
  load and save whenever they like. Two that write into one file at once leave what
  one of them wrote, or something that cannot be read; that a mixture could be parsed
  is not modelled.
- *Turn*: one process. Several would overwrite each other's files as two
  overlapping requests do.
- *UnifiedMemory*: the calls go through one controller. In the application every
  request builds its own, with no conversation layer, and nothing calls
  `get_unified_context` (section 5): the module is about the class as its tests use it.
- *Time*: reading `time.time()` and the limiter's script are one moment (Gateway); the
  stamps of facts rise from one to the next (UnifiedMemory).
- *LLMCall*: `CallsBounded` counts the repetitions of this repository. The client of
  `app/llm/providers/openai_provider.py:26` repeats a request by itself
  (`max_retries`, left at its default) inside each of the calls counted.

## 4. What is proved

All proofs are checked by TLAPS for every value of the constants that satisfies
the `ASSUME`s of the modules. Every invariant and every action property that a
passing run checks is also proved; what remains with TLC is liveness.

`CircuitBreaker_proofs` – assumptions `CallersAssumption` (finitely many callers)
and `LimitsAssumption` (limits are natural numbers, the deque holds one record at
least):

| Theorem | Says |
|---|---|
| `TypeCorrect` | `Spec => []TypeOK` |
| `ProbesAccountedAlways` | `Spec => []ProbesAccounted` |
| `OutageShieldsUpstream` | `Spec => OpenShields`: until `recovery_timeout` has passed no coroutine is started, and only the operator ends or prolongs the outage |
| `Refinement` | `Spec => LazyBreakerIsEager`: CircuitBreaker implements Breaker |

`TypeOK` is inductive as it stands. `ProbesAccounted` is inductive relative to it,
because `pc` tells probes of the present period from stale ones: when a period
starts, `SeenPc` makes all probes stale as `SeenCalls` becomes 0, so both sides of
the inequality are reset in one step (`SeenAccounted`), a new probe adds one to
both, and all other steps only take probes away (`FewerProbes`). `OpenShields` is
an action property: each disjunct of `Next` is shown to keep the outage when
`circuit = "OPEN"` and the timeout has not passed. For `Refinement` the starting of
a period must be a stutter: whoever reads `state` finds what the next reader would
have found (`ReadingChangesNothing`); a late answer finds `_state` OPEN and decides
nothing. Each entry and each answer is then a step of Breaker, and the tick with
which the timeout is reached is the one that starts the probing (`TickRefines`).

`AgentLimiter_proofs` – assumptions `RequestsAssumption`, `WiringAssumption`,
`MaxAgentsAssumption`:

| Theorem | Says |
|---|---|
| `SlotsConservedAlways` | `Spec => []SlotsConserved` |
| `NoLostWakeupAlways` | `Spec => []NoLostWakeup` |
| `TypeCorrect` | `Spec => []TypeOK` |
| `AtMostMaxAgents` | no limiter ever has more than `max_agents` running executions |

Neither invariant is inductive alone. That a waked request leaves "waiting" and
becomes exactly one more "granted" needs `QueueExact`: the queue of a limiter
holds its waiting requests, each of them once. Without it a step could grant one
request twice and lose a slot. The inductive invariant is
`IInv == Types /\ QueueExact /\ SlotsConserved /\ NoLostWakeup`, where `Types` is
`TypeOK` without the upper bound of `value`, which is a consequence. `CutFront`
and `CutOne` say what removing from a sequence without repetitions leaves,
`OneMoves` and `WakesCounts` how the counts of requests change, and there is one
lemma per action. The free slots of `NoLostWakeup` come from `PassOn`: it stops
only when the queue is empty or nothing is free.

`Watchdog_proofs` – assumption `TimesAssumption` (both times are positive); about
`Spec`, in which nobody calls `shutdown`:

| Theorem | Says |
|---|---|
| `TypeCorrect` | `Spec => []TypeOK` |
| `SupervisedAlways` | `Spec => []Supervised` |
| `PunctualAlways` | `Spec => []Punctual` |
| `ReasonMatchesAlways` | `Spec => []ReasonMatchesResult` |

`Punctual` bounds an age and says nothing of the monitor, so a tick could break
it. `Timed` couples the two: what runs was younger than `MaxRuntime` at the last
poll, and can age only by what is left of the nap; so `elapsed` plus the
remaining `nap` stays below the limit, a tick moves one unit from one to the
other, and a poll (which terminates what is overdue) sets it up again. That the
monitor is there to poll is `Supervised`, which needs `Open` (nobody shut the
watchdog down). `ReasonMatchesResult` speaks of returned calls only; `Reasoned`
adds what holds between the end of the wrapper and the return: a budget error
has left a reason that is not COMPLETED.

`SwarmEngine_proofs` – assumptions `ExecsAssumption` (finitely many executions),
`GraphAssumption`, `LimitAssumption` (limits are natural numbers):

| Theorem | Says |
|---|---|
| `TypeCorrect` | `Spec => []TypeOK` |
| `DependenciesFirstAlways` | `Spec => []DependenciesFirst` |
| `NoAgentLeftBehindAlways` | `Spec => []NoAgentLeftBehind` |
| `ActiveCoversBatchesAlways` | `Spec => []ActiveCoversBatches` |
| `WithinSwarmLimitsAlways` | `Spec => []WithinSwarmLimits` |
| `WithinBudgetAlways` | `Spec => []WithinBudget` |
| `PartialsExactAlways` | `Spec => []PartialsExact` |
| `BudgetStopsSequentialAlways` | `Spec => []BudgetStopsSequential` |

`DependenciesFirst` speaks of nodes that have left PENDING. A node leaves it in
a later step than the one that found it ready, with ends and failures of others
between, so `Orderly` says it of the whole batch; it stays true because nothing
leaves COMPLETED. `Orderly` also ties the statuses to the nodes at work: in a
sequential run a RUNNING node is at work until it ends or raises, so none is
RUNNING when the strategy returns. (`BudgetStopsSequential`, that a budget error
ends a sequential execution, is proved and in no run.) The count of agents is compared
with the size of a union over executions (`Of(batch)`); `CountOne` and `Recount` say how that
size changes when one execution's batch does, `RoundTurns` and `TurnKeeps` what
one turn of the loop does to both. `Settled`, for `NoAgentLeftBehind`, adds that an
execution which is over has no batch: a batch ends only with the last of its nodes,
whatever became of them, and what it gives back is what it took.

The limits of the swarm are about what is at work, but an execution reads
`active` when it cuts a batch. `Capped` therefore bounds batches: none is
larger than `MaxParallel`, and all together have at most `MaxAgents` nodes and one
more for each further execution that dispatches, because `max(1, …)` admits one
node however many agents are busy. `WithinBudget` and `PartialsExact` are promised
to an execution that has the engine to itself; `Solo` says what the shared
`engineCtx` then is, that the partial results are the completed nodes, and that the
nodes that ran are fewer than the iterations counted, since the planner counts one,
and fewer than the limit by two, since a node that raises has not run.

`Stores_proofs`, SemanticCache – assumptions `TasksAssumption` (finitely many tasks
and queries), `ScoreAssumption` (similarities are natural numbers, the threshold is
not 0), `LimitAssumption`:

| Theorem | Says |
|---|---|
| `TypeCorrect` | `Spec => []TypeOK` |
| `LiveIndexedAlways` | `Spec => []LiveIndexed` |
| `NearestAnswersAlways` | `Spec => []NearestAnswers` |
| `EvictionExactAlways` | `Spec => EvictionExact` |

`LiveIndexed` needs one fact about the tasks: one that is about to write or to
touch carries the time it took (`Stamped`), since a member is scored by that.
`NearestAnswers` compares the answer with entries that were there throughout, at
the moment of the answer. `Compared` is its form during the look-up: the best so
far is as near as every steady entry already read; it holds through the writes,
evictions and expiries of other tasks because those can only shrink the steady
set (`BystanderKeeps`), and through a read of one's own by `ScanKeeps`.
`Answered` closes it: a task that makes a hit has nothing left to read.

`EvictionExact` is an action property about the last step of an eviction, which has
read its victims steps before. `Victims` is what it still knows of them then: as
long as no other task has changed the index, those it has yet to remove are
members, as many as there are too many, and none of them scores above a member
that stays. `OldestLeaves` says that leaving the older half out keeps this order,
`EvictRemoves` what one removal does to the numbers, `OnlyActor` that nobody else
was at it.

`Stores_proofs`, FaissStore – assumptions `BatchAssumption` (what one request or task
stores has no repetitions), `KindsAssumption` (requests, tasks and maintenance are
different sessions), `FileAssumption` (the marks for a missing and a torn file are
no contents), `WritersAssumption` (finitely many writers, an attempt at least) and
`SimilarAssumption` (similarity is symmetric, and nothing else):

| Theorem | Says |
|---|---|
| `CopiesBoundedAlways` | `Faiss!Spec => []CopiesBounded` |
| `AlignedAlways` | `Faiss!Spec => []Aligned` |
| `LostOnlyToOverlapAlways` | `Faiss!Spec => []LostOnlyToOverlap` |
| `DuplicatesOnlyRemovedAlways` | `Faiss!Spec => DuplicatesOnlyRemoved` |

`Counted`, for `CopiesBounded`, says that any records, on disk or in a session, hold
a text at most as often as sessions have begun to insert it (`Inserted`), a number that
never falls; copying records from a file to a session and back changes nothing about
that, and only the session's own insertion, which `Placed` says comes once an attempt,
adds one.

No lock keeps processes apart, so `Aligned` is carried by the history of who met whom.
Files that are not spoiled are alike (`FilesPaired`), and a session that is not suspect
(`Paired`) is the only one that saves, has vectors that are its records, and once its
index is written has it on disk: no other save has begun since, or it would be suspect.
A load is safe for the same reason: a save that begins between its two reads makes it
suspect. `LostOnlyToOverlap` needs nothing of the kind. What was saved is on disk
(`SavedThere`), and in what each session is about to write but for what it may lack and
what maintenance drops (`SavedHeld`): a save adds its texts to what every other session
at work may lack, and a load that was not whole may lack everything.

Deduplication is defined by a set of positions that satisfies an equation. That one
exists is proved by the smallest length for which none does (`SplitExists`), which
needs no induction theorem; `KeptApart` then takes the records left apart. That a
removed text has a similar one that stays follows from the equation alone, whether
or not similarity is transitive.

`Answering_proofs`, LLMCall – assumptions `CallerAssumption`, `ProviderAssumption`
(there is a provider), `LimitAssumption`:

| Theorem | Says |
|---|---|
| `TypeCorrect` | `Spec => []TypeOK` |
| `TrippedIffThresholdAlways` | `Spec => []TrippedIffThreshold` |
| `CallsBoundedAlways` | `Spec => []CallsBounded` |

For the breakers it is enough that each of the three operations keeps `Fits`, as
no other step touches them. `CallsBounded` is not inductive: a caller at the limit
might go on. `Counted` ties the calls made to where the caller is: at provider
`i` in round `k`, with `t` tries, they are at most `Upto(k, i) + t`, where
`Upto(k, i)` is `providers · tries · (k - 1) + tries · (i - 1)`. One more try, the
next provider (`UptoNext`) and the next round (`UptoRound`) each stay within it,
and a provider that is skipped only leaves room (`UptoMonotone`).

`Answering_proofs`, ToolStream – assumptions `NoCallAssumption` (none is a value of its
own), `AnswersAssumption` (answers are sequences of tokens) and `BufferAssumption`:

| Theorem | Says |
|---|---|
| `TextConservedAlways` | `Stream!Spec => []TextConserved` |

A token is named by its place in the answer, so conserving the text is two facts
about what was sent with what is held back: its places are those received less
those of executed calls, and they rise. `Whole` says both of a pair of sequences; it
is kept by a flush, which moves the border between the two (`Flushed`), by a chunk,
whose places all come after (`Arrived`), and by cutting a call out of the buffer
(`CutOut`), where the places before and after the call must be told from those in
it. That the match lies within the buffer, whenever there is one, is `MatchExists`.

`Requests_proofs`, Gateway – the module's assumptions, of which `TTLAssumption` (a bucket
nobody touched for its TTL would be full: 120 seconds against 60) is what the
refinement hangs on:

| Theorem | Says |
|---|---|
| `TypeCorrect` | `Spec => []TypeOK` |
| `Refinement` | `Spec => LazyBucketIsEager`: Gateway implements RateLimit |

Each step is shown to be a step of RateLimit under `level <- Refilled`, or to
leave level and verdicts alone: `Check` and `CheckLost` are Grant or Refuse, a
tick is Refill – where the key expires with that tick, because the level it had
was full by then –, a restart without data is Lose, all else stutters.

`Requests_proofs`, Turn – assumptions `NoTurnAssumption` (no turn is a value of its
own), `VersionsAssumption`, `PromptsAssumption` (the prompts that are there at first
fit together); for any set of turns, questions, wiring and thresholds:

| Theorem | Says |
|---|---|
| `CachedWasGradedAlways` | `Chat!Spec => []CachedWasGraded` |
| `SequentialForgetsNothingAlways` | `Chat!Spec => []SequentialForgetsNothing` |
| `EvolutionsFitAlways` | `Chat!Spec => []EvolutionsFit` |

`TurnTypes` says what may be in a copy or a file: prompts whose versions fit
together, or a torn file, which is read as empty. That is `EvolutionsFit`, and it is
kept because feedback and mutation keep it (`FeedbackKnown`, `EvolvedKnown`) and
files only ever get whole copies or become torn. `Logged` ties the stage of a turn to
the dataset, for `CachedWasGraded`, and `Remembered` to its file. `Remembered` holds
as long as turns have not overlapped: one turn at most is in flight, a file is torn only
while it is being written, the turn's copy has what the files have (`Same`), and the
files have what each turn that is over knew (`Kept`). "Has what" is an order on contents
(`KnownInTransitive`) that each handler only goes up in.

`Knowledge_proofs`, RagIndex – for any processes and documents; only the last theorem
has assumptions, `TextAssumption` (a sentence's words and score are natural
numbers), `ChunkAssumption` (so are the limits of a chunk) and `GateAssumption`
(what is rejected is no less suspect than what is put in quarantine, 0.6 against
0.35 in the code):

| Theorem | Says |
|---|---|
| `TypeCorrect` | `Spec => []TypeOK` |
| `PairedAlways` | `Spec => []PairedUnlessOverlap` |
| `SearchRecoversAlways` | `Spec => []SearchRecovers` |
| `OnlySuspectLeftOutAlways` | `Spec => []OnlySuspectLeftOut` |

That the files are of one build whenever both are there says nothing about the
step that renames the second; `Staged` says for each stage of a save what it has
left under the four names so far. It is kept as long as there is one saver
(`OneSaver`), whose steps are the only ones that touch the files. `Undisturbed`
gives a load that no save has overlapped the same facts, so that the chunks it
reads are those of the index it has read. What a build contains is irrelevant,
except that it is never the mark of a missing or a torn file (`BuildsWhole`).

`OnlySuspectLeftOut` is about three recursive functions over data: the sums of words
and scores, the chunks of a document, the gate's decisions one after the other. No
induction theorem is used; each of the following takes the smallest, or the last,
place at which it fails. A recursive function is a choice of something that satisfies
its equation, so first something must: `SumsExist` for the sums over the subsets of
a finite set, `CutsExist` for the chunks from a sentence on, and for the gate the
closed form it has behind a first chunk that passed (`PassesAre`). Then what satisfies
the equation has the property: sums are natural numbers (`SumsNat`), and the chunks
from a sentence on have all of the rest (`CutsCover`), because a chunk ends no earlier
than it starts and the next starts later, but not beyond the sentence behind it
(`LastWithin`, `NextWithin`), whatever the overlap.

`Knowledge_proofs`, UnifiedMemory – assumptions `CallsAssumption` (a call stores or
reads), `TrustAssumption` (trust is from 0 to 10), `LimitAssumption`:

| Theorem | Says |
|---|---|
| `FoundWasSaidAlways` | `Memory!Spec => []FoundWasSaid` |
| `AuthorityKeptAlways` | `Memory!Spec => []AuthorityKept` |

One call at most is inside a session's lock (`OneWithin`), so the messages of a session
are written store by store: in the list as in the table, before a message are only
messages of its own store or of stores that had ended when that one began
(`InOrder`, with `KnowsEarlier`). A store that is over and lost nothing is therefore
found whole, or behind it the sequence has been cut (`SaidOf`), both in the table and in
whatever is left of the list (`Stored`); cutting a sequence to its end keeps that
(`CutBehind`), and so does one more message (`SaidAppend`). While a reader is inside,
nobody stores in its session (`NobodyElse`), so what it has fetched of the conversation
still has, at the end, all that is over (`Fetched`); what it finds elsewhere is of a store
that has got that far (`Learnt`), hence over, hence in it (`Told`).

`AuthorityKept` is about the sort: `FirstExists` finds, by source, then time, then trust,
then place, a fact that none is above, for the facts of any snapshot are at places of
their own (`FactsStated`), and `FirstUnique` says that it is the only one, so it is the
resolver's winner. `HighestFit` takes this of the fit facts and of all of them.

`Knowledge_proofs`, VectorMigration – assumptions `TypesAssumption`, `BatchAssumption`
(batches are not empty):

| Theorem | Says |
|---|---|
| `SummaryExactAlways` | `Migration!Spec => []SummaryExact` |

A batch that is sent again after a lost answer writes the same points. `UnderWay` says
that the present run's points of the present type are records of that type, those of
the batches before the present one among them; so they are all of the records when
the last batch is answered, however often any was sent, and `WrittenCount` says that
so many records are so many points.

Only model-checked is liveness: `OutageEnds`, `EveryWaitEnds`, `EveryExecutionEnds`,
`EveryCallReturns`, `EveryRequestAnswered`, `EveryToolCallEnds`, `NoChildStays`. The
proof system has no rules for `ENABLED`, and so none for fairness.

## 5. Where the code and its documentation disagree

One disagreement ends nearly every turn, and has a run in which TLC finds it:

| Run | Documented | What the code does |
|---|---|---|
| `Turn_wired` (`NoTurnBreaks`) | "Sessions persist conversation context across requests" (`docs/API_REFERENCE.md:699`) | `gather_context` loops over the coroutine of `get_messages()` (`app/orchestrator/pipeline.py:48-49`): with the `MemoryService` that `app/api/dependencies/providers.py:33-34` gives it, every turn that is neither blocked nor cached ends in `TypeError`; the counterexample is Begin, Lookup, Retrieve, Gather |

These are stated as definitions of the modules, and no run is spent on them; TLC
refutes each when it is added to the configuration of its module:

| Definition | Documented | What the code does |
|---|---|---|
| `HalfOpenDecides` (CircuitBreaker) | "Max probe calls allowed in HALF_OPEN before deciding" (`app/reliability/circuit_breaker.py:62`) | a cancelled probe keeps its slot for ever; when all are spent so, nothing decides and every call is rejected (to be checked under `ServingSpec`) |
| `BoundedAcrossSessions` (AgentLimiter) | "Bounds total concurrent agent executions across all sessions." (`app/reliability/load_guard.py:110`) | each request has a limiter of its own (`app/api/dependencies/providers.py:30-35`; `LimiterOf <- Own`, `Limiters <- FiveRequests`) |
| `BudgetReachesOrchestrator` (SwarmEngine) | "Re-raise budget exceptions so the orchestrator handles them" (`app/reasoning_graph/engine.py:145`) | `gather(return_exceptions=True)` keeps them (`app/swarm/execution.py:99`); the node stays RUNNING and the strategy returns normally |
| `ShutdownCancelsAll` (Watchdog) | "Cancel the monitor loop and all tracked executions." (`app/orchestrator/watchdog.py:418`) | one registered while `shutdown` awaits the monitor is forgotten uncancelled (under `ShutdownSpec`) |
| `NoTurnLost` (FaissStore) | "Durable (file/gRPC)" (`docs/MEMORY_SYSTEM.md:375`) | of two overlapping requests the later save overwrites the other's turn |
| `FailsOpenOnlyWhileDown` (Gateway) | "Redis down → fail-open but log" (`app/api/middleware/token_bucket.py:171`) | after a restart of Redis the hash in `_script_sha` is unknown to it, every `EVALSHA` fails with NOSCRIPT, and the limiter lets everything pass until the process is restarted |
| `EveryCallExecuted` (ToolStream) | "Detects and executes tool calls within a streaming LLM response" (`app/orchestrator/tool_runner.py:16`) | the pattern is greedy: of two calls in one buffer the text from the first to the last bracket is taken for one call; and a tag cut between two chunks is not seen at all |

Seen while modelling, in the modules already described:

- `app/reliability/circuit_breaker.py:13` says a failed probe opens the circuit
  again. `_on_failure` opens it only if the window still holds
  `failure_threshold` failures (line 168); after a recovery time longer than the
  window, a failed probe changes nothing. The model has this (`Fail`).
- `app/reliability/circuit_breaker.py:136` awaits the fallback inside
  `with self._lock`. The orchestrator's fallback never suspends, so the
  application does not block; a fallback that does suspend blocks the event loop
  as soon as another task needs the lock (`BlockLoop`), although the class is
  "Async-compatible … for any coroutine" (line 56).
- Every `CancelledError` in `guarded_execute` is reported as RUNTIME_LIMIT and
  swallowed, a caller's too (`app/orchestrator/watchdog.py:363`), against the
  table of reasons in `docs/AGENT_SYSTEM.md:463-464`.
- `app/swarm/execution.py:89,107`: `_active_agents` is decremented after the
  gather and not in a `finally`, so a cancelled execution leaks its agents into
  the count (which slows later executions on the engine down to one at a time);
  `max(1, …)` at line 90 exceeds the documented limit of agents.
- `_exec_ctx` (`app/reasoning_graph/engine.py:57`) is one per engine: were two
  executions to share an engine, as `tests/integration/test_stress_multi_agent.py`
  does, the counts and partial results of one would go to the other. The
  application builds an engine per request.
- `docs/VECTOR_DATABASE.md:617` says a corrupt index is rebuilt from the metadata.
  An index that cannot be read leaves the store empty, and the next save
  overwrites the metadata (`app/vector_memory/faiss_store.py:58-80`). A
  misalignment after a crash is never repaired either: `_deduplicate` returns
  early when the lengths differ.
- The index of the semantic cache keeps the members of expired entries. They
  count in `zcard`, so live entries are evicted while fewer than `max_entries` are
  live, until the ghosts, being older, are evicted themselves. The touch of `get`
  (`app/cache/semantic_cache.py:136`) can put back a member that was removed, and
  line 137 writes a timestamp key without expiry, against the "24h TTL" of
  `docs/MEMORY_SYSTEM.md:424`; nothing ever reads that key.
- `add_message` (`app/orchestrator/chat_orchestrator.py:450-452`) is a coroutine
  and is called without `await`: no turn reaches the conversation store.
- "Atomically" at `app/memory/memory_controller.py:139`: the layers of
  `store_interaction` are written one by one and a failure of one is logged.

Seen while modelling the path of a question to the model:

- A provider that times out is never recorded by its breaker, nor does the chain
  go on to the fallback: `wait_for` cancels the chain from outside, and no
  `except Exception` sees that (`app/llm/providers/fallback_provider.py:46-68`).
  `docs/ERROR_HANDLING.md:198` promises "Retry with backoff, then fallback
  provider"; what is retried starts with the same hanging provider.
- Tenacity repeats a call whose provider's breaker has opened meanwhile, against
  "All calls during this period are rejected instantly"
  (`docs/RELIABILITY_LAYER.md:509`).
- A stream that breaks ends in a chunk of error text, as both providers swallow
  the exception, and counts as a success. A provider that did raise would make the
  answer start again with the next one, behind what was already sent
  (`app/llm/providers/fallback_provider.py:85`).
- `LLM_TIMEOUT` and `REQUEST_TIMEOUT_SECONDS` are both 60 s
  (`app/config/settings.py:41,101`): the retry after a timeout never gets its time.

At the gateway:

- A refusal is raised as an `HTTPException` in the outermost middleware
  (`app/api/main.py:108-119`), outside FastAPI's handler for it: the client
  gets 500 and not 429. JWT runs inside the limiter, so the `user_id` the limiter
  looks for is never there.
- `time.time()` is read before the script is sent
  (`app/api/middleware/token_bucket.py:152`): a call that is overtaken sets `last`
  back, and the time between counts twice. This is not in the model.
- `redis.from_url` is given no `socket_timeout`
  (`app/api/middleware/token_bucket.py:104`), and the limiter runs outside
  `TimeoutMiddleware` (`app/api/main.py:84,109`): a Redis that accepts a call and does
  not answer keeps the request for good, though the limiter is meant to fail open.
- `_ip_tracker` (`app/api/middleware/request_protection.py:100-116`) keeps an
  entry for every address for ever.

In streams and plugins:

- `communicate()` (`app/plugins/registry.py:149`) is called on the event loop and
  stops every request of the process, and the watchdog, for as long as the plugin
  takes, or its timeout.
- A child whose caller is cancelled while it is being started is neither given a
  request nor killed, and waits until the API process ends, against "The child MUST
  respond within the timeout or be killed." (`app/plugins/plugin_protocol.py:14`).

In a turn:

- `add_data` reads the fields of a relationship the model has extracted unguarded
  (`app/knowledge_graph/graph_store.py:65-68`): where one is missing the turn fails,
  and what was added before it is not saved.
- An answer is cached before the awaits of `_evict_if_needed` and `zcard`
  (`app/cache/semantic_cache.py:171-173`): a turn cancelled there has answered nobody,
  and its answer is served to the next who asks.
- A turn that overlaps another overwrites what the other has added to the graph,
  the prompts and the dataset; one that loads a file in the middle of the other's
  save takes it for empty, and its own save makes that final.
- A template written by the LLM that has braces in it breaks `.format`, and with
  it every use of that version.
- A candidate that scores between 0.9 times and once the active version is
  neither promoted nor rejected, and blocks every further mutation
  (`app/prompts/evolution/manager.py:74-90`).
- `EntityExtractor.seen_counts` lives as long as one request and asks for two
  sightings (`app/knowledge_graph/entity_extractor.py:26-59`).

In the memory controller and the resolver:

- The per-session lock belongs to a controller that every request builds anew, so
  it locks nothing in the application. That controller is given no
  `memory_service_factory` (`app/orchestrator/chat_orchestrator.py:153`), so its
  conversation layer is empty; and `get_unified_context` is called by tests only.
- The facts of one batch of messages share a timestamp ("later messages always
  win", `app/memory/authority.py:132`), and as the sort is stable the earlier one
  wins.
- `detect_conflicts` may name a distrusted graph fact as winner, which
  `resolve_all` leaves out. A relationship without `trust_score` is trusted by
  `_merge_contexts` (1.0, `app/memory/memory_controller.py:238`) and not by the
  resolver (0.5, `app/memory/authority.py:144`).

In the document index:

- A file whose first chunk is rejected gives its own name a trust of 0.0, and
  loses all its chunks (`app/security/content_safety.py:96-107`, 221).
- A document that arrives during a build is in `doc_fingerprints` though not in
  the index (`app/rag/retriever.py:247`).
- Two builders share the names of their temporary files; `_save_atomic` unlinks
  before it renames; a torn index makes `read_index` raise `RuntimeError`, which
  unlike `FileNotFoundError` rebuilds nothing.
- `workers/ingestion_worker.py:17-19` reports success with the chunks of a build
  that kept none.

In the migration: `run_migration` returns "success" whatever its parts say
(`app/vector_memory/migration.py:175`); a second run inserts everything again
under new ids; after the last failed attempt earlier batches of the type stay,
counted as 0; and a `create_collection` whose answer was lost makes its own retry
fail.

## 6. What is not modelled

- HTTP requests to models and to the web, embedding and ranking models, prompt and
  response guards, graders' wording: functions of one input, or pure I/O.
- Model router and neural tool router: they pick a name for a text and keep
  nothing. Planner and agents: the planner's result is any graph SwarmEngine may
  start from, the agents are prompts around a model call.
- `RequestQueueLimiter`, `SwarmThrottle` (`app/reliability/load_guard.py`),
  `SwarmMerger` (`app/swarm/execution.py`), the sandbox runner
  (`app/plugins/sandbox/`), `execute_with_fallback`, the trust evaluator of the
  graph: no code of the application uses them.
- The summarizer of conversations and the clearing of a session, which nothing calls;
  which memories are near a query.
- The crawler and knowledge builder, whose crawl is simulated; ranking and
  reranking of what a search found; searching and deleting in Qdrant, which are
  single calls; `AbuseDetectionMiddleware`, which only logs.
- Metrics, tracing, logging, configuration.
- Of the modelled components: the tracker's success window (a statistic that
  decides nothing), `FAISSVectorStore.delete` (no caller), the separate entry
  points of maintenance (they compose the modelled parts), the watchdog's branch
  for a missing current task (a coroutine always has one), the cache's timestamp
  keys (never read), the lengths of pauses between retries, the arguments and the
  text work of tools, discovery of plugins, what becomes of chunks in quarantine.

## 7. Plan

The order was by what a turn depends on: the guards around the agent loop
(CircuitBreaker, AgentLimiter, Watchdog), the engine, long-term memory and the
shared cache; then the path of a request (Gateway, Turn, LLMCall, ToolStream) and
of knowledge (RagIndex, UnifiedMemory, VectorMigration). What is left:

1. **AgentLoop** – limiter ∘ watchdog ∘ engine, with an abstract specification of
   the loop ("an admitted question is answered, with what was completed, within
   its time") that the composition implements by a refinement mapping.
2. An abstract counting semaphore that AgentLimiter refines, as Breaker is for
   CircuitBreaker and RateLimit for Gateway.
3. Theorems: the refinements of 1 and 2, step by step; every safety property of the
   present runs is proved.
