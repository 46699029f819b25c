---------------------------- MODULE SwarmEngine ----------------------------
(***************************************************************************)
(* The agent loop's graph execution: ReasoningGraph                        *)
(* (app/reasoning_graph/models.py), ReasoningGraphEngine                   *)
(* (app/reasoning_graph/engine.py), the two execution strategies           *)
(* (app/swarm/execution.py) and the counters of AgentExecutionContext      *)
(* (app/orchestrator/watchdog.py), as _run_agent_graph of                  *)
(* app/orchestrator/chat_orchestrator.py drives them.                      *)
(*                                                                         *)
(* The executions in Execs share ONE engine, hence one strategy object and *)
(* one _exec_ctx.  A single execution is what providers.py wires (an       *)
(* orchestrator per request); several is one orchestrator for concurrent   *)
(* requests, as tests/integration/test_stress_multi_agent.py runs it.      *)
(***************************************************************************)
EXTENDS Naturals, FiniteSets

CONSTANTS
    Execs,          \* agent executions on one engine
    NumNodes,       \* how many nodes each one's planned graph has
    ToolPlans,      \* the sets of nodes a plan may make TOOL_CALLs
    MaxAgents,      \* MAX_SWARM_AGENTS
    MaxParallel,    \* MAX_PARALLEL_TASKS
    MaxIterations,  \* MAX_AGENT_ITERATIONS
    MaxToolCalls,   \* MAX_TOOL_CALLS
    NoExec          \* _exec_ctx before the first execution

ASSUME ExecsAssumption == IsFiniteSet(Execs) /\ NoExec \notin Execs
ASSUME GraphAssumption == NumNodes \in [Execs -> Nat] /\ ToolPlans \subseteq SUBSET Nat
ASSUME LimitAssumption ==
    /\ MaxAgents \in Nat \ {0}
    /\ MaxParallel \in Nat \ {0}
    /\ MaxIterations \in Nat
    /\ MaxToolCalls \in Nat

VARIABLES
    strategy,  \* the engine's strategy object is of this class, once and for all
    deps,      \* dependencies of each execution's nodes
    toolNodes, \* its nodes of type TOOL_CALL, once and for all
    status,    \* status of each execution's nodes
    working,   \* nodes awaiting their agent, model, tool or memory
    batch,     \* nodes of the strategy's present gather (or `for` over ready)
    active,    \* SwarmExecution._active_agents
    engineCtx, \* ReasoningGraphEngine._exec_ctx: whose context it is
    iters,     \* iteration_count of each execution's context
    tools,     \* tool_call_count
    overdue,   \* check() fails for good: runtime exhausted, or cancel() was called
    partials,  \* partial_results: which nodes' results each context holds
    pc         \* where each execution is

vars == <<strategy, deps, toolNodes, status, working, batch, active, engineCtx, iters, tools, overdue, partials, pc>>

NodeStatus == {"PENDING", "RUNNING", "COMPLETED", "FAILED"}

\* "planning": PlannerAgent.plan is at work.  "executing": inside the strategy.
\* "done": the strategy returned.  "budget", "error": AgentBudgetExceededError,
\* another exception left it.  "cancelled": its task was cancelled.
ExecState == {"planning", "executing", "done", "budget", "error", "cancelled"}

Strategy == {"SequentialExecution", "SwarmExecution"}
Sequential == strategy = "SequentialExecution"

Nodes(e) == 1..NumNodes[e]   \* in the order in which the graph's dict holds them
Unknown == 0                 \* a dependency no node of the graph has as its id
NodeOf == {en \in Execs \X Nat : en[2] \in Nodes(en[1])}

\* What add_node lets through: each node with no dependency or with one that was
\* known.  (An id that is planned twice replaces the node, so any order occurs,
\* cycles too; a plan add_node refuses becomes the one-node fallback graph.)
Graphs(e) == {d \in [Nodes(e) -> SUBSET (Nodes(e) \cup {Unknown})] :
                 \A n \in Nodes(e) : d[n] = {} \/ d[n] \cap Nodes(e) # {}}

Init ==
    /\ strategy \in Strategy
    /\ deps \in [Execs -> UNION {Graphs(e) : e \in Execs}]
    /\ \A e \in Execs : deps[e] \in Graphs(e)
    /\ toolNodes \in [Execs -> ToolPlans]
    /\ status = [e \in Execs |-> [n \in Nodes(e) |-> "PENDING"]]
    /\ working = [e \in Execs |-> {}]
    /\ batch = [e \in Execs |-> {}]
    /\ active = 0
    /\ engineCtx = NoExec
    /\ iters = [e \in Execs |-> 0]
    /\ tools = [e \in Execs |-> 0]
    /\ overdue = [e \in Execs |-> FALSE]
    /\ partials = [e \in Execs |-> {}]
    /\ pc = [e \in Execs |-> "planning"]

----------------------------------------------------------------------------
(* ReasoningGraph *)

Pending(e)   == {n \in Nodes(e) : status[e][n] = "PENDING"}
Completed(e) == {n \in Nodes(e) : status[e][n] = "COMPLETED"}

\* Mutant: a dependency that failed counts as met.
ReadyAfterFailure(e) ==
    {n \in Pending(e) :
        \A d \in deps[e][n] : d \in Nodes(e) /\ status[e][d] \in {"COMPLETED", "FAILED"}}

\* get_ready_nodes
Ready(e) == {n \in Pending(e) : deps[e][n] \subseteq Completed(e)}

IsComplete(e) == Completed(e) = Nodes(e)

\* get_ready_nodes looks up the dependencies of a pending node in order until one
\* is not completed: an unknown id raises KeyError if the look-up reaches it.
LookupFails(e)  == \E n \in Pending(e) : Unknown \in deps[e][n]
                                     /\ deps[e][n] \subseteq Completed(e) \cup {Unknown}
LookupMayFail(e) == \E n \in Pending(e) : Unknown \in deps[e][n]

----------------------------------------------------------------------------
(* The strategies *)

Least(S, k) == {n \in S : Cardinality({m \in S : m < n}) < k}

\* Mutant: the free agents are not taken into account.
UncappedBatch(ready, busy) == ready

\* The nodes dispatched together when `busy` agents are active: all ready ones,
\* one after the other, or what the limits leave, one at least.
NextBatch(ready, busy) ==
    IF Sequential THEN ready
    ELSE LET free == IF busy < MaxAgents THEN MaxAgents - busy ELSE 0
             cap  == IF free < MaxParallel THEN free ELSE MaxParallel
         IN  Least(ready, IF cap = 0 THEN 1 ELSE cap)

Agents(nodes) == IF Sequential THEN 0 ELSE Cardinality(nodes)

\* Mutant: the loop does not break when no node is ready.
FinishedOnlyWhenComplete(e) == IsComplete(e)

\* The loop's test and its break.
Finished(e) == IsComplete(e) \/ Ready(e) = {}

\* One turn of `while not graph.is_complete()`, with `busy` agents active.
Round(e, busy) ==
    \/ /\ Finished(e) /\ ~LookupFails(e)
       /\ pc' = [pc EXCEPT ![e] = "done"]
       /\ batch' = [batch EXCEPT ![e] = {}]
       /\ active' = busy
    \/ /\ LookupMayFail(e)
       /\ pc' = [pc EXCEPT ![e] = "error"]
       /\ batch' = [batch EXCEPT ![e] = {}]
       /\ active' = busy
    \/ /\ ~Finished(e) /\ ~LookupFails(e)
       /\ pc' = [pc EXCEPT ![e] = "executing"]
       /\ batch' = [batch EXCEPT ![e] = NextBatch(Ready(e), busy)]
       /\ active' = busy + Agents(NextBatch(Ready(e), busy))

----------------------------------------------------------------------------
(* Budgets *)

\* Mutant: check() compares with > .
WithinOneMore(x, iterations, toolCalls) ==
    ~overdue[x] /\ iterations <= MaxIterations /\ toolCalls <= MaxToolCalls

\* check() of x's context passes with these counts.
Within(x, iterations, toolCalls) ==
    ~overdue[x] /\ iterations < MaxIterations /\ toolCalls < MaxToolCalls

\* The plan is there: it counts as an iteration, then the engine takes this
\* execution's context and the strategy its first turn.
Start(e) ==
    /\ pc[e] = "planning"
    /\ iters' = [iters EXCEPT ![e] = @ + 1]
    /\ IF Within(e, iters[e] + 1, tools[e])
       THEN engineCtx' = e /\ Round(e, active)
       ELSE /\ pc' = [pc EXCEPT ![e] = "budget"]
            /\ UNCHANGED <<engineCtx, batch, active>>
    /\ UNCHANGED <<strategy, deps, toolNodes, status, working, tools, overdue, partials>>

\* A node of the batch whose turn it is: any in a gather, the next in a `for`.
MayStart(e, n) ==
    /\ pc[e] = "executing"
    /\ n \in batch[e] \cap Pending(e)
    /\ Sequential => working[e] = {} /\ \A m \in batch[e] \cap Pending(e) : n <= m

\* Mutant: the gather passes on the first exception, as it does by default.
BudgetRaisedAtOnce(e) == pc' = [pc EXCEPT ![e] = "budget"] /\ batch' = [batch EXCEPT ![e] = {}]

\* AgentBudgetExceededError out of a node: the sequential `for` lets it through,
\* a gather keeps it among its results.
BudgetRaised(e) ==
    IF Sequential
    THEN pc' = [pc EXCEPT ![e] = "budget"] /\ batch' = [batch EXCEPT ![e] = {}]
    ELSE UNCHANGED <<batch, pc>>

\* _execute_node up to its first await.  Every count and check goes to the
\* context the engine holds, whichever execution the node belongs to.
StartNode(e, n) ==
    LET x      == engineCtx
        i      == iters[x] + 1
        isTool == n \in toolNodes[e] /\ Within(x, i, tools[x])
        t      == IF isTool THEN tools[x] + 1 ELSE tools[x]
        admitted == Within(x, i, tools[x]) /\ Within(x, i, t)
    IN  /\ MayStart(e, n)
        /\ status' = [status EXCEPT ![e][n] = "RUNNING"]
        /\ iters' = [iters EXCEPT ![x] = i]
        /\ tools' = [tools EXCEPT ![x] = t]
        /\ IF admitted
           THEN working' = [working EXCEPT ![e] = @ \cup {n}] /\ UNCHANGED <<batch, pc>>
           ELSE UNCHANGED working /\ BudgetRaised(e)
        /\ UNCHANGED <<strategy, deps, toolNodes, active, engineCtx, overdue, partials>>

\* Mutant: a node that ends releases its agent, and the batch releases it again.
EndNodeReleases(e, n) ==
    /\ pc[e] = "executing"
    /\ n \in working[e]
    /\ working' = [working EXCEPT ![e] = @ \ {n}]
    /\ \/ /\ status' = [status EXCEPT ![e][n] = "COMPLETED"]
          /\ partials' = [partials EXCEPT ![engineCtx] = @ \cup {<<e, n>>}]
       \/ /\ status' = [status EXCEPT ![e][n] = "FAILED"]
          /\ UNCHANGED partials
    /\ active' = active - 1
    /\ UNCHANGED <<strategy, deps, toolNodes, batch, engineCtx, iters, tools, overdue, pc>>

\* Mutant: the partial result is saved before the node is known to succeed.
EndNodeSavesAll(e, n) ==
    /\ pc[e] = "executing"
    /\ n \in working[e]
    /\ working' = [working EXCEPT ![e] = @ \ {n}]
    /\ \E s \in {"COMPLETED", "FAILED"} : status' = [status EXCEPT ![e][n] = s]
    /\ partials' = [partials EXCEPT ![engineCtx] = @ \cup {<<e, n>>}]
    /\ UNCHANGED <<strategy, deps, toolNodes, batch, active, engineCtx, iters, tools, overdue, pc>>

\* _execute_node after its await: the result is saved in the context the engine
\* holds now, or the exception becomes the node's result.
EndNode(e, n) ==
    /\ pc[e] = "executing"
    /\ n \in working[e]
    /\ working' = [working EXCEPT ![e] = @ \ {n}]
    /\ \/ /\ status' = [status EXCEPT ![e][n] = "COMPLETED"]
          /\ partials' = [partials EXCEPT ![engineCtx] = @ \cup {<<e, n>>}]
       \/ /\ status' = [status EXCEPT ![e][n] = "FAILED"]
          /\ UNCHANGED partials
    /\ UNCHANGED <<strategy, deps, toolNodes, batch, active, engineCtx, iters, tools, overdue, pc>>

\* Mutant: only the agents that brought a result are released.
EndBatchKeepsFailed(e) ==
    /\ pc[e] = "executing"
    /\ batch[e] \cap Pending(e) = {}
    /\ working[e] = {}
    /\ Round(e, active - Agents(batch[e] \cap Completed(e)))
    /\ UNCHANGED <<strategy, deps, toolNodes, status, working, engineCtx, iters, tools, overdue, partials>>

\* Every node of the batch has ended: its agents are released and the loop turns.
EndBatch(e) ==
    /\ pc[e] = "executing"
    /\ batch[e] \cap Pending(e) = {}
    /\ working[e] = {}
    /\ Round(e, active - Agents(batch[e]))
    /\ UNCHANGED <<strategy, deps, toolNodes, status, working, engineCtx, iters, tools, overdue, partials>>

\* The runtime of an execution is exhausted, or its context is cancelled.
RunOut(e) ==
    /\ ~overdue[e]
    /\ pc[e] \in {"planning", "executing"}
    /\ overdue' = [overdue EXCEPT ![e] = TRUE]
    /\ UNCHANGED <<strategy, deps, toolNodes, status, working, batch, active, engineCtx, iters, tools, partials, pc>>

\* The task is cancelled, by the watchdog or by its caller.  The nodes at work
\* stop where they are; `_active_agents -= len(batch)` is not in a finally.
Cancel(e) ==
    /\ pc[e] \in {"planning", "executing"}
    /\ pc' = [pc EXCEPT ![e] = "cancelled"]
    /\ working' = [working EXCEPT ![e] = {}]
    /\ batch' = [batch EXCEPT ![e] = {}]
    /\ UNCHANGED <<strategy, deps, toolNodes, status, active, engineCtx, iters, tools, overdue, partials>>

Step(e) == Start(e) \/ EndBatch(e) \/ (\E n \in Nodes(e) : StartNode(e, n) \/ EndNode(e, n))

Next == \E e \in Execs : Step(e) \/ RunOut(e) \/ Cancel(e)

Spec == Init /\ [][Next]_vars

\* Tasks that are ready are run, and what a node awaits ends.
FairSpec == Spec /\ \A e \in Execs : WF_vars(Step(e))

----------------------------------------------------------------------------
(* Properties *)

Working  == UNION {{e} \X working[e] : e \in Execs}
Batched  == UNION {{e} \X batch[e] : e \in Execs}

\* Nodes of e whose agent, model or tool was called, as far as e still knows.
Ran(e) == working[e] \cup {n \in Nodes(e) : status[e][n] \in {"COMPLETED", "FAILED"}}

\* e has had the engine to itself.
Alone(e) == \A x \in Execs \ {e} : pc[x] = "planning"

\* The variables keep their ranges.
TypeOK ==
    /\ strategy \in Strategy
    /\ \A e \in Execs :
          /\ deps[e] \in Graphs(e)
          /\ status[e] \in [Nodes(e) -> NodeStatus]
          /\ working[e] \subseteq Nodes(e)
          /\ batch[e] \subseteq Nodes(e)
    /\ toolNodes \in [Execs -> ToolPlans]
    /\ active \in Nat
    /\ engineCtx \in Execs \cup {NoExec}
    /\ iters \in [Execs -> Nat]
    /\ tools \in [Execs -> Nat]
    /\ overdue \in [Execs -> BOOLEAN]
    /\ partials \in [Execs -> SUBSET NodeOf]
    /\ pc \in [Execs -> ExecState]

\* Whatever the graph (cycles and unknown ids too), however batches are cut and
\* whichever nodes fail or run out of budget, a node runs only after all its
\* dependencies have completed (models.py:56-65, execution.py:81-107).
DependenciesFirst ==
    \A e \in Execs : \A n \in Nodes(e) :
        status[e][n] # "PENDING" => deps[e][n] \subseteq Completed(e)

\* An execution that has the engine to itself never does more work than its
\* budget allows, whichever of its parallel nodes meets the limit first
\* (engine.py:78-80, 106-108, watchdog.py:123-154).
WithinBudget ==
    \A e \in Execs : Alone(e) /\ Ran(e) # {} =>
        /\ Cardinality(Ran(e)) + 1 < MaxIterations
        /\ Ran(e) \cap toolNodes[e] # {} => Cardinality(Ran(e) \cap toolNodes[e]) < MaxToolCalls

\* What an interrupted execution that has the engine to itself can still return
\* is exactly what its nodes completed (engine.py:128-142,
\* chat_orchestrator.py:226-229).
PartialsExact ==
    \A e \in Execs : Alone(e) => partials[e] = {e} \X Completed(e)

\* No execution has more nodes at work than its limit of parallel tasks; and as each
\* may start one node even when no agent is free, executions that share the engine
\* exceed the limit of agents by one each at most, however their batches overlap
\* and whichever are cancelled (execution.py:69, 86-93).
WithinSwarmLimits ==
    /\ ~Sequential => \A e \in Execs : Cardinality(working[e]) <= MaxParallel
    /\ Cardinality(Working) <= MaxAgents + Cardinality(Execs) - 1

\* An execution that is over, however it ended, has no node at work behind its back;
\* and as long as none was cancelled the shared count is exactly what is dispatched:
\* failures, budgets and bad graphs leave no agent in it, in whatever order
\* executions that overlap end (execution.py:87-107, engine.py:144-161).
NoAgentLeftBehind ==
    /\ \A e \in Execs : pc[e] # "executing" => working[e] = {}
    /\ (\A e \in Execs : pc[e] # "cancelled") => active = Agents(Batched)

\* The agents of every gather in progress are counted, whichever executions were
\* cancelled, so the limit is never applied to too small a number
\* (execution.py:87-107).
ActiveCoversBatches == ~Sequential => active >= Cardinality(Batched)

\* A sequential execution never goes on after a node met its budget: the exception
\* reaches the orchestrator (engine.py:144-149, execution.py:59-61).
BudgetStopsSequential ==
    Sequential => \A e \in Execs : pc[e] = "done" => \A n \in Nodes(e) : status[e][n] # "RUNNING"

\* Every execution leaves the strategy, whatever its graph and its failures
\* (execution.py:81-109).
EveryExecutionEnds == \A e \in Execs : pc[e] = "executing" ~> pc[e] # "executing"

\* Documented, and not so under SwarmExecution: "Re-raise budget exceptions so the
\* orchestrator handles them" (engine.py:145).  gather(return_exceptions=True)
\* keeps them, and the strategy returns as if the plan had been worked through.
BudgetReachesOrchestrator ==
    \A e \in Execs : pc[e] = "done" => \A n \in Nodes(e) : status[e][n] # "RUNNING"

=============================================================================
