SPECIFICATION MCSpec
CONSTANTS
    e1 = e1
    e2 = e2
    NoExec = NoExec
    Execs <- MCExecs
    NumNodes <- MCNumNodes
    ToolPlans <- MCToolPlans
    MaxAgents = 2
    MaxParallel = 2
    MaxIterations = 4
    MaxToolCalls = 2
\* Executions terminate.
CHECK_DEADLOCK FALSE
INVARIANTS
    DependenciesFirst
    WithinBudget
    PartialsExact
    WithinSwarmLimits
    NoAgentLeftBehind
    ActiveCoversBatches
PROPERTY
    EveryExecutionEnds
