------------------------- MODULE SwarmEngine_proofs -------------------------
(***************************************************************************)
(* Proofs about SwarmEngine for every number of executions on one engine,  *)
(* every graph and every limit: dependencies come first, the count of      *)
(* agents covers what is dispatched, which keeps the limits (Capped), an   *)
(* execution that is over leaves no agent behind (Settled), and one that   *)
(* has the engine to itself keeps its budget and its partial results       *)
(* (Solo).                                                                 *)
(***************************************************************************)
EXTENDS SwarmEngine, FiniteSetTheorems, WellFoundedInduction, TLAPS

\* What TypeOK says, with the domains of the functions.
Types ==
    /\ strategy \in Strategy
    /\ \A e \in Execs :
          /\ deps[e] \in Graphs(e)
          /\ status[e] \in [Nodes(e) -> NodeStatus]
          /\ working[e] \subseteq Nodes(e)
          /\ batch[e] \subseteq Nodes(e)
    /\ DOMAIN status = Execs
    /\ working \in [Execs -> SUBSET Nat]
    /\ batch \in [Execs -> SUBSET Nat]
    /\ toolNodes \in [Execs -> ToolPlans]
    /\ active \in Nat
    /\ engineCtx \in Execs \cup {NoExec}
    /\ iters \in [Execs -> Nat]
    /\ tools \in [Execs -> Nat]
    /\ overdue \in [Execs -> BOOLEAN]
    /\ partials \in [Execs -> SUBSET NodeOf]
    /\ pc \in [Execs -> ExecState]

\* What is dispatched of e may run; what is at work is running, and what runs
\* sequentially is at work; before its first turn nothing is.
Orderly(e) ==
    /\ \A n \in batch[e] : deps[e][n] \subseteq Completed(e)
    /\ \A n \in Nodes(e) : status[e][n] # "PENDING" => deps[e][n] \subseteq Completed(e)
    /\ \A n \in working[e] : status[e][n] = "RUNNING"
    /\ pc[e] = "planning" => batch[e] = {} /\ \A n \in Nodes(e) : status[e][n] = "PENDING"
    /\ pc[e] = "executing" => engineCtx # NoExec
    /\ Sequential /\ pc[e] = "executing" =>
          \A n \in Nodes(e) : status[e][n] = "RUNNING" => n \in working[e]
    /\ Sequential /\ pc[e] = "done" => \A n \in Nodes(e) : status[e][n] # "RUNNING"

IInv == Types /\ ActiveCoversBatches /\ \A e \in Execs : Orderly(e)

\* What is over has given back its batch too.
Settled == NoAgentLeftBehind /\ \A e \in Execs : pc[e] # "executing" => batch[e] = {}

Dispatching == {e \in Execs : batch[e] # {}}

\* Agents are at work on what is dispatched, of which the limits allow so much: one
\* node more, at most, for every execution but one that dispatches.
Capped ==
    /\ \A e \in Execs : working[e] \subseteq batch[e]
    /\ Sequential => \A e \in Execs : \A m, n \in working[e] : m = n
    /\ ~Sequential =>
          /\ \A e \in Execs : Cardinality(batch[e]) <= MaxParallel
          /\ Batched # {} => Cardinality(Batched) + 1 <= MaxAgents + Cardinality(Dispatching)

\* What the context of an execution that has the engine to itself has counted.
Solo(e) ==
    Alone(e) =>
        /\ engineCtx \in {e, NoExec}
        /\ partials[e] = {e} \X Completed(e)
        /\ pc[e] = "executing" => iters[e] >= 1
        /\ Ran(e) # {} => /\ Cardinality(Ran(e)) + 1 <= iters[e]
                          /\ Cardinality(Ran(e)) + 1 < MaxIterations
        /\ Cardinality(Ran(e) \cap toolNodes[e]) <= tools[e]
        /\ Ran(e) \cap toolNodes[e] # {} => Cardinality(Ran(e) \cap toolNodes[e]) < MaxToolCalls

----------------------------------------------------------------------------
(* Counting what is dispatched *)

\* The nodes that b dispatches, and those it dispatches for others than e.
Of(b)         == UNION {{x} \X b[x] : x \in Execs}
OfOthers(b, e) == UNION {{x} \X b[x] : x \in Execs \ {e}}

\* The nodes of an execution are finitely many.
LEMMA NodesFinite == \A e \in Execs : \A S \in SUBSET Nodes(e) : IsFiniteSet(S) /\ Cardinality(S) \in Nat
  <1> SUFFICES ASSUME NEW e \in Execs, NEW S \in SUBSET Nodes(e)
               PROVE  IsFiniteSet(S) /\ Cardinality(S) \in Nat
    OBVIOUS
  <1>1. IsFiniteSet(Nodes(e))
    BY GraphAssumption, FS_Interval DEF Nodes
  <1>2. IsFiniteSet(S)
    BY <1>1, FS_Subset
  <1>3. QED
    BY <1>2, FS_CardinalityType

\* A finite union of finite batches is finite.
LEMMA UnionFinite ==
    ASSUME NEW E \in SUBSET Execs, NEW b, \A x \in Execs : IsFiniteSet(b[x])
    PROVE  IsFiniteSet(UNION {{x} \X b[x] : x \in E})
  <1> DEFINE S == {{x} \X b[x] : x \in E}
             f == [x \in E |-> {x} \X b[x]]
  <1>1. IsFiniteSet(E)
    BY ExecsAssumption, FS_Subset
  <1>2. f \in Surjection(E, S)
    BY DEF Surjection
  <1>3. IsFiniteSet(S)
    BY <1>1, <1>2, FS_Surjection
  <1>4. ASSUME NEW T \in S PROVE IsFiniteSet(T)
    <2>1. PICK x \in E : T = {x} \X b[x]
      BY <1>4
    <2>2. IsFiniteSet({x}) /\ IsFiniteSet(b[x])
      BY FS_Singleton
    <2>3. QED
      BY <2>1, <2>2, FS_Product
  <1>5. QED
    BY <1>3, <1>4, FS_UNION

\* One execution's batch adds as much as it has.
LEMMA CountOne ==
    ASSUME NEW b, \A x \in Execs : IsFiniteSet(b[x]), NEW e \in Execs
    PROVE  /\ Cardinality(OfOthers(b, e)) \in Nat
           /\ Cardinality(b[e]) \in Nat
           /\ Cardinality(Of(b)) = Cardinality(OfOthers(b, e)) + Cardinality(b[e])
  <1> DEFINE M == {e} \X b[e]
             O == OfOthers(b, e)
  <1>1. IsFiniteSet(O)
    <2>1. Execs \ {e} \in SUBSET Execs
      OBVIOUS
    <2>2. IsFiniteSet(UNION {{x} \X b[x] : x \in Execs \ {e}})
      BY <2>1, UnionFinite, Zenon
    <2>3. QED
      BY <2>2 DEF OfOthers
  <1>2. IsFiniteSet(b[e]) /\ IsFiniteSet({e}) /\ Cardinality({e}) = 1 /\ Cardinality(b[e]) \in Nat
    BY FS_Singleton, FS_CardinalityType
  <1>3. IsFiniteSet(M) /\ Cardinality(M) = Cardinality(b[e])
    <2>1. IsFiniteSet(M) /\ Cardinality(M) = Cardinality({e}) * Cardinality(b[e])
      BY <1>2, FS_Product
    <2>2. QED
      BY <1>2, <2>1
  <1>4. Of(b) = O \cup M
    BY DEF Of, OfOthers
  <1>5. O \cap M = {}
    BY DEF OfOthers
  <1> HIDE DEF M, O
  <1>6. Cardinality(O \cup M) = Cardinality(O) + Cardinality(M) - Cardinality(O \cap M)
    BY <1>1, <1>3, FS_Union
  <1>7. Cardinality(O \cap M) = 0 /\ Cardinality(O) \in Nat
    BY <1>1, <1>5, FS_EmptySet, FS_CardinalityType
  <1>8. QED
    BY <1>2, <1>3, <1>4, <1>6, <1>7 DEF O

\* A batch released and another dispatched leave the count covering all.
LEMMA Recount ==
    ASSUME Types, ActiveCoversBatches, NEW e \in Execs, NEW S \in SUBSET Nodes(e), ~Sequential
    PROVE  /\ active - Cardinality(batch[e]) \in Nat
           /\ (active - Cardinality(batch[e])) + Cardinality(S)
                  >= Cardinality(Of([batch EXCEPT ![e] = S]))
  <1> DEFINE c == [batch EXCEPT ![e] = S]
  <1>1. \A x \in Execs : IsFiniteSet(batch[x]) /\ IsFiniteSet(c[x])
    BY NodesFinite DEF Types
  <1>2. c[e] = S /\ OfOthers(c, e) = OfOthers(batch, e)
    BY DEF Types, OfOthers
  <1>3. /\ Cardinality(OfOthers(batch, e)) \in Nat /\ Cardinality(batch[e]) \in Nat
        /\ Cardinality(Of(batch)) = Cardinality(OfOthers(batch, e)) + Cardinality(batch[e])
    BY <1>1, CountOne
  <1> HIDE DEF c
  <1>4. /\ Cardinality(S) \in Nat
        /\ Cardinality(Of(c)) = Cardinality(OfOthers(batch, e)) + Cardinality(S)
    BY <1>1, <1>2, CountOne
  <1>5. active \in Nat /\ active >= Cardinality(Of(batch))
    BY DEF Types, ActiveCoversBatches, Batched, Of
  <1>6. QED
    BY <1>3, <1>4, <1>5 DEF c

----------------------------------------------------------------------------
(* Steps *)

\* An execution that does not move stays in order.
LEMMA BystanderOrderly ==
    ASSUME NEW u \in Execs, Orderly(u), strategy' = strategy, deps' = deps,
           status'[u] = status[u], working'[u] = working[u], batch'[u] = batch[u], pc'[u] = pc[u],
           engineCtx' = engineCtx \/ engineCtx' \in Execs
    PROVE  Orderly(u)'
  <1>1. Completed(u)' = Completed(u) /\ Pending(u)' = Pending(u)
    BY DEF Completed, Pending, Nodes
  <1>2. Ready(u)' = Ready(u)
    BY <1>1 DEF Ready
  <1>3. Nodes(u)' = Nodes(u)
    BY DEF Nodes
  <1>4. engineCtx # NoExec => engineCtx' # NoExec
    BY ExecsAssumption
  <1>5. QED
    BY <1>1, <1>2, <1>3, <1>4 DEF Orderly, Sequential

\* One status changes, and no other.
LEMMA StatusMoves ==
    ASSUME Types, NEW e \in Execs, NEW n \in Nodes(e), NEW s \in NodeStatus,
           status' = [status EXCEPT ![e][n] = s]
    PROVE  /\ DOMAIN status' = Execs
           /\ \A x \in Execs : status'[x] \in [Nodes(x) -> NodeStatus]
           /\ \A x \in Execs \ {e} : status'[x] = status[x]
           /\ \A m \in Nodes(e) : status'[e][m] = IF m = n THEN s ELSE status[e][m]
  <1>1. status' = [status EXCEPT ![e] = [status[e] EXCEPT ![n] = s]]
    OBVIOUS
  <1>2. [status[e] EXCEPT ![n] = s] \in [Nodes(e) -> NodeStatus]
    BY DEF Types
  <1>3. QED
    BY <1>1, <1>2 DEF Types

\* What a turn of the loop decides: a batch of ready nodes, or an end.
Turns(e, S, x, busy) ==
    /\ S \subseteq Ready(e)
    /\ batch' = [batch EXCEPT ![e] = S]
    /\ active' = busy + Agents(S)
    /\ x \in {"done", "error", "executing"}
    /\ pc' = [pc EXCEPT ![e] = x]
    /\ x # "executing" => S = {}
    /\ ~Sequential => \/ S = {}
                      \/ /\ Cardinality(S) <= MaxParallel
                         /\ Cardinality(S) = 1 \/ Cardinality(S) + busy <= MaxAgents

\* Nothing dispatched has no agents.
LEMMA NoAgents == Agents({}) = 0
  BY FS_EmptySet DEF Agents

\* A set of nodes has a last one.
LEMMA LastNode ==
    ASSUME NEW e \in Execs, NEW T \in SUBSET Nodes(e), T # {}
    PROVE  \E m \in T : \A x \in T : x <= m
  <1> DEFINE R == OpToRel(<, Nat)
             U == {NumNodes[e] - x : x \in T}
  <1>1. NumNodes[e] \in Nat /\ \A x \in T : x \in 1..NumNodes[e]
    BY GraphAssumption DEF Nodes
  <1>2. U \subseteq Nat /\ U # {}
    <2>1. ASSUME NEW x \in T PROVE NumNodes[e] - x \in Nat
      BY <1>1
    <2>2. QED
      BY <2>1
  <1>3. \A x, y \in Nat : x < y => <<x, y>> \in R
    BY DEF OpToRel
  <1>4. IsWellFoundedOn(R, Nat)
    BY NatLessThanWellFounded
  <1> HIDE DEF R, U
  <1>5. PICK u \in U : \A v \in U : <<v, u>> \notin R
    BY <1>2, <1>4, WFMin
  <1>6. PICK m \in T : u = NumNodes[e] - m
    BY <1>5 DEF U
  <1>7. ASSUME NEW x \in T PROVE x <= m
    <2>1. NumNodes[e] - x \in U
      BY DEF U
    <2>2. u \in Nat /\ NumNodes[e] - x \in Nat
      BY <1>2, <2>1
    <2>3. ~(NumNodes[e] - x < u)
      BY <1>3, <1>5, <2>1, <2>2
    <2>4. x \in 1..NumNodes[e] /\ m \in 1..NumNodes[e]
      BY <1>1
    <2>5. QED
      BY <1>1, <1>6, <2>3, <2>4
  <1>8. QED
    BY <1>7

\* The first k ready nodes are no more than k.
LEMMA LeastBounded ==
    ASSUME NEW e \in Execs, NEW S \in SUBSET Nodes(e), NEW k \in Nat
    PROVE  Cardinality(Least(S, k)) <= k
  <1> DEFINE T == Least(S, k)
  <1>1. T \in SUBSET Nodes(e) /\ \A n \in T : n \in S /\ Cardinality({m \in S : m < n}) < k
    BY DEF Least
  <1> HIDE DEF T
  <1>2. CASE T = {}
    BY <1>2, FS_EmptySet DEF T
  <1>3. CASE T # {}
    <2>1. PICK n \in T : \A x \in T : x <= n
      BY <1>1, <1>3, LastNode
    <2> DEFINE B == {m \in S : m < n}
    <2>2. IsFiniteSet(B) /\ Cardinality(B) \in Nat /\ Cardinality(B) < k
      <3>1. B \in SUBSET Nodes(e)
        OBVIOUS
      <3>2. QED
        BY <1>1, <3>1, NodesFinite
    <2>3. T \ {n} \subseteq B
      <3>1. ASSUME NEW x \in T \ {n} PROVE x \in B
        <4>1. x \in Nat /\ n \in Nat /\ x <= n /\ x # n
          BY <1>1, <2>1 DEF Nodes
        <4>2. x \in S
          BY <1>1
        <4>3. QED
          BY <4>1, <4>2
      <3>2. QED
        BY <3>1
    <2> HIDE DEF B
    <2>4. IsFiniteSet(T)
      BY <1>1, NodesFinite
    <2>5. Cardinality(T \ {n}) = Cardinality(T) - 1 /\ Cardinality(T) \in Nat
      BY <2>4, FS_RemoveElement, FS_CardinalityType
    <2>6. Cardinality(T \ {n}) <= Cardinality(B)
      BY <2>2, <2>3, FS_Subset
    <2>7. QED
      BY <2>2, <2>5, <2>6 DEF T
  <1>4. QED
    BY <1>2, <1>3

\* The limits cut a swarm's batch, but one node may always run.
LEMMA BatchCut ==
    ASSUME NEW e \in Execs, NEW S \in SUBSET Nodes(e), NEW busy \in Nat, ~Sequential
    PROVE  LET b == NextBatch(S, busy)
           IN  \/ b = {}
               \/ /\ Cardinality(b) <= MaxParallel
                  /\ Cardinality(b) = 1 \/ Cardinality(b) + busy <= MaxAgents
  <1> DEFINE free == IF busy < MaxAgents THEN MaxAgents - busy ELSE 0
             cap  == IF free < MaxParallel THEN free ELSE MaxParallel
             k    == IF cap = 0 THEN 1 ELSE cap
             b    == Least(S, k)
  <1>1. NextBatch(S, busy) = b
    BY DEF NextBatch
  <1>2. k \in Nat /\ k <= MaxParallel /\ (k = 1 \/ k + busy <= MaxAgents)
    BY LimitAssumption
  <1> HIDE DEF k
  <1>3. Cardinality(b) <= k
    BY <1>2, LeastBounded
  <1>4. b \in SUBSET Nodes(e)
    BY DEF Least
  <1> HIDE DEF b
  <1>5. Cardinality(b) \in Nat /\ (b # {} => Cardinality(b) # 0)
    BY <1>4, NodesFinite, FS_EmptySet
  <1>6. QED
    BY <1>1, <1>2, <1>3, <1>5, LimitAssumption

\* The loop turns as the code says, whatever the graph.
LEMMA RoundTurns ==
    ASSUME Types, NEW e \in Execs, NEW busy \in Nat, Round(e, busy)
    PROVE  \E S, x : Turns(e, S, x, busy)
  <1>1. CASE Finished(e) /\ ~LookupFails(e) /\ pc' = [pc EXCEPT ![e] = "done"]
             /\ batch' = [batch EXCEPT ![e] = {}] /\ active' = busy
    <2>1. Turns(e, {}, "done", busy)
      BY <1>1, NoAgents DEF Turns
    <2>2. QED
      BY <2>1
  <1>2. CASE pc' = [pc EXCEPT ![e] = "error"] /\ batch' = [batch EXCEPT ![e] = {}] /\ active' = busy
    <2>1. Turns(e, {}, "error", busy)
      BY <1>2, NoAgents DEF Turns
    <2>2. QED
      BY <2>1
  <1>3. CASE /\ pc' = [pc EXCEPT ![e] = "executing"]
             /\ batch' = [batch EXCEPT ![e] = NextBatch(Ready(e), busy)]
             /\ active' = busy + Agents(NextBatch(Ready(e), busy))
    <2>1. NextBatch(Ready(e), busy) \subseteq Ready(e)
      BY DEF NextBatch, Least
    <2>2. Ready(e) \subseteq Nodes(e)
      BY DEF Ready, Pending
    <2>3. ~Sequential => LET b == NextBatch(Ready(e), busy)
                         IN  \/ b = {}
                             \/ /\ Cardinality(b) <= MaxParallel
                                /\ Cardinality(b) = 1 \/ Cardinality(b) + busy <= MaxAgents
      BY <2>2, BatchCut
    <2>4. Turns(e, NextBatch(Ready(e), busy), "executing", busy)
      BY <1>3, <2>1, <2>3 DEF Turns
    <2>5. QED
      BY <2>4
  <1>4. QED
    BY <1>1, <1>2, <1>3 DEF Round

\* A turn of the loop keeps the invariant, if all it released has ended.
LEMMA TurnKeeps ==
    ASSUME IInv, NEW e \in Execs, NEW S, NEW x, Turns(e, S, x, active - Agents(batch[e])),
           engineCtx' \in Execs, iters' \in [Execs -> Nat],
           Sequential => \A n \in Nodes(e) : status[e][n] # "RUNNING",
           UNCHANGED <<strategy, deps, toolNodes, status, working, tools, overdue, partials>>
    PROVE  IInv'
  <1>1. /\ S \subseteq Ready(e) /\ S \subseteq Nodes(e)
        /\ batch' = [batch EXCEPT ![e] = S]
    BY DEF Turns, Ready, Pending
  <1>2. Nodes(e) \subseteq Nat
    BY DEF Nodes
  <1>3. ActiveCoversBatches' /\ active' \in Nat
    <2>1. CASE Sequential
      BY <2>1 DEF Turns, Agents, ActiveCoversBatches, Sequential, IInv, Types
    <2>2. CASE ~Sequential
      <3>1. Cardinality(S) \in Nat
        BY <1>1, NodesFinite
      <3>2. /\ active - Cardinality(batch[e]) \in Nat
            /\ (active - Cardinality(batch[e])) + Cardinality(S) >= Cardinality(Of(batch'))
        BY <1>1, <2>2, Recount DEF IInv
      <3>3. active' = (active - Cardinality(batch[e])) + Cardinality(S)
        BY <2>2 DEF Turns, Agents
      <3>4. Batched' = Of(batch')
        BY DEF Batched, Of
      <3>5. QED
        BY <3>1, <3>2, <3>3, <3>4 DEF ActiveCoversBatches
    <2>3. QED
      BY <2>1, <2>2
  <1>4. Types'
    <2>1. batch' \in [Execs -> SUBSET Nat] /\ \A u \in Execs : batch'[u] \subseteq Nodes(u)
      BY <1>1, <1>2 DEF IInv, Types
    <2>2. pc' \in [Execs -> ExecState]
      BY DEF Turns, IInv, Types, ExecState
    <2>3. \A u \in Execs : Nodes(u)' = Nodes(u) /\ Graphs(u)' = Graphs(u)
      BY DEF Nodes, Graphs
    <2>4. QED
      BY <1>3, <2>1, <2>2, <2>3 DEF IInv, Types
  <1>5. ASSUME NEW u \in Execs, u # e PROVE Orderly(u)'
    <2>1. batch'[u] = batch[u] /\ pc'[u] = pc[u]
      BY <1>1, <1>5 DEF Turns, IInv, Types
    <2>2. QED
      BY <2>1, BystanderOrderly DEF IInv
  <1>6. Orderly(e)'
    <2>1. batch'[e] = S /\ pc'[e] = x
      BY <1>1 DEF Turns, IInv, Types
    <2>2. Completed(e)' = Completed(e) /\ Ready(e)' = Ready(e) /\ Nodes(e)' = Nodes(e)
      BY DEF Completed, Ready, Pending, Nodes
    <2>3. \A n \in S : deps[e][n] \subseteq Completed(e)
      BY <1>1 DEF Ready
    <2>4. x \in {"done", "error", "executing"}
      BY DEF Turns
    <2>5. engineCtx' # NoExec
      BY ExecsAssumption
    <2>6. Orderly(e)
      BY DEF IInv
    <2>7. QED
      BY <2>1, <2>2, <2>3, <2>4, <2>5, <2>6 DEF Orderly, Sequential
  <1>7. QED
    BY <1>3, <1>4, <1>5, <1>6 DEF IInv

\* A step that leaves batches and counts of agents alone keeps the count covering.
LEMMA SameBatches ==
    ASSUME IInv, UNCHANGED <<strategy, batch, active>>
    PROVE  ActiveCoversBatches'
  <1>1. Batched' = Batched
    BY DEF Batched
  <1>2. QED
    BY <1>1 DEF IInv, ActiveCoversBatches, Sequential

\* So does one that drops a batch and keeps its agents.
LEMMA DroppedBatch ==
    ASSUME IInv, NEW e \in Execs, batch' = [batch EXCEPT ![e] = {}], UNCHANGED <<strategy, active>>
    PROVE  ActiveCoversBatches'
  <1>1. CASE Sequential
    BY <1>1 DEF ActiveCoversBatches, Sequential
  <1>2. CASE ~Sequential
    <2>1. {} \in SUBSET Nodes(e) /\ Cardinality({}) = 0
      BY FS_EmptySet
    <2>2. /\ active - Cardinality(batch[e]) \in Nat
          /\ (active - Cardinality(batch[e])) + Cardinality({}) >= Cardinality(Of(batch'))
      BY <1>2, <2>1, Recount DEF IInv
    <2>3. Cardinality(batch[e]) \in Nat
      BY NodesFinite DEF IInv, Types
    <2>4. active \in Nat /\ Batched' = Of(batch')
      BY DEF IInv, Types, Batched, Of
    <2>5. Cardinality(Of(batch')) \in Nat
      <3>1. \A x \in Execs : IsFiniteSet(batch'[x])
        BY NodesFinite, FS_EmptySet DEF IInv, Types
      <3>2. /\ Cardinality(OfOthers(batch', e)) \in Nat /\ Cardinality(batch'[e]) \in Nat
            /\ Cardinality(Of(batch')) = Cardinality(OfOthers(batch', e)) + Cardinality(batch'[e])
        BY <3>1, CountOne, Zenon
      <3>3. QED
        BY <3>2
    <2>6. QED
      BY <2>1, <2>2, <2>3, <2>4, <2>5 DEF ActiveCoversBatches
  <1>3. QED
    BY <1>1, <1>2

\* The plan counts as an iteration; then the budget is exceeded or the loop begins.
LEMMA StartInv ==
    ASSUME IInv, NEW e \in Execs, Start(e)
    PROVE  IInv'
  <1>1. /\ pc[e] = "planning" /\ batch[e] = {} /\ iters' \in [Execs -> Nat]
        /\ \A n \in Nodes(e) : status[e][n] = "PENDING"
    BY DEF Start, IInv, Orderly, Types
  <1>2. CASE engineCtx' = e /\ Round(e, active)
    <2>1. active \in Nat /\ active - Agents(batch[e]) = active
      BY <1>1, NoAgents DEF IInv, Types
    <2>2. PICK S, x : Turns(e, S, x, active)
      BY <1>2, <2>1, RoundTurns DEF IInv
    <2>3. Turns(e, S, x, active - Agents(batch[e]))
      BY <2>1, <2>2
    <2>4. /\ UNCHANGED <<strategy, deps, toolNodes, status, working, tools, overdue, partials>>
          /\ engineCtx' \in Execs
          /\ Sequential => \A n \in Nodes(e) : status[e][n] # "RUNNING"
      BY <1>1, <1>2 DEF Start
    <2>5. QED
      BY <1>1, <2>3, <2>4, TurnKeeps
  <1>3. CASE pc' = [pc EXCEPT ![e] = "budget"] /\ UNCHANGED <<engineCtx, batch, active>>
    <2>1. Types'
      <3>1. \A u \in Execs : Nodes(u)' = Nodes(u) /\ Graphs(u)' = Graphs(u)
        BY DEF Nodes, Graphs
      <3>2. QED
        BY <1>1, <1>3, <3>1 DEF Start, IInv, Types, ExecState
    <2>2. ActiveCoversBatches'
      BY <1>3, SameBatches DEF Start
    <2>3. ASSUME NEW u \in Execs, u # e PROVE Orderly(u)'
      <3>1. pc'[u] = pc[u]
        BY <1>3, <2>3 DEF IInv, Types
      <3>2. QED
        BY <1>3, <3>1, BystanderOrderly DEF Start, IInv
    <2>4. Orderly(e)'
      <3>1. pc'[e] = "budget"
        BY <1>3 DEF IInv, Types
      <3>2. Completed(e)' = Completed(e) /\ Nodes(e)' = Nodes(e)
        BY DEF Start, Completed, Nodes
      <3>3. QED
        BY <1>3, <3>1, <3>2 DEF Start, IInv, Orderly
    <2>5. QED
      BY <2>1, <2>2, <2>3, <2>4 DEF IInv
  <1>4. QED
    BY <1>2, <1>3 DEF Start

\* The count has the agents that a batch gives back.
LEMMA EndBatchReleases ==
    ASSUME Types, ActiveCoversBatches, NEW e \in Execs
    PROVE  active - Agents(batch[e]) \in Nat
  <1>1. CASE Sequential
    BY <1>1 DEF Agents, Types
  <1>2. CASE ~Sequential
    <2>1. batch[e] \in SUBSET Nodes(e)
      BY DEF Types
    <2>2. QED
      BY <1>2, <2>1, Recount DEF Agents
  <1>3. QED
    BY <1>1, <1>2

\* Everything the loop dispatched has ended: it turns.
LEMMA EndBatchInv ==
    ASSUME IInv, NEW e \in Execs, EndBatch(e)
    PROVE  IInv'
  <1>1. active - Agents(batch[e]) \in Nat
    BY EndBatchReleases DEF IInv
  <1>2. PICK S, x : Turns(e, S, x, active - Agents(batch[e]))
    BY <1>1, RoundTurns DEF EndBatch, IInv
  <1>3. Orderly(e) /\ pc[e] = "executing" /\ working[e] = {}
    BY DEF IInv, EndBatch
  <1>4. engineCtx \in Execs /\ engineCtx' = engineCtx
    BY <1>3 DEF IInv, Types, Orderly, EndBatch
  <1>5. Sequential => \A n \in Nodes(e) : status[e][n] # "RUNNING"
    BY <1>3 DEF Orderly
  <1>6. iters' \in [Execs -> Nat]
    BY DEF EndBatch, IInv, Types
  <1>7. QED
    BY <1>2, <1>4, <1>5, <1>6, TurnKeeps DEF EndBatch

\* A node starts only from a batch, so its dependencies are met.
LEMMA StartNodeInv ==
    ASSUME IInv, NEW e \in Execs, NEW n \in Nodes(e), StartNode(e, n)
    PROVE  IInv'
  <1> DEFINE x == engineCtx
             i == iters[x] + 1
             isTool == n \in toolNodes[e] /\ Within(x, i, tools[x])
             t == IF isTool THEN tools[x] + 1 ELSE tools[x]
             admitted == Within(x, i, tools[x]) /\ Within(x, i, t)
  <1>1. /\ pc[e] = "executing" /\ n \in batch[e] /\ status[e][n] = "PENDING"
        /\ Sequential => working[e] = {}
    BY DEF StartNode, MayStart, Pending
  <1>2. /\ status' = [status EXCEPT ![e][n] = "RUNNING"]
        /\ iters' = [iters EXCEPT ![x] = i]
        /\ tools' = [tools EXCEPT ![x] = t]
        /\ IF admitted
           THEN working' = [working EXCEPT ![e] = @ \cup {n}] /\ UNCHANGED <<batch, pc>>
           ELSE UNCHANGED working /\ BudgetRaised(e)
        /\ UNCHANGED <<strategy, deps, toolNodes, active, engineCtx, overdue, partials>>
    BY DEF StartNode
  <1>3. Orderly(e) /\ x \in Execs
    BY <1>1 DEF IInv, Types, Orderly
  <1>4. iters' \in [Execs -> Nat] /\ tools' \in [Execs -> Nat]
    <2>1. iters[x] \in Nat /\ tools[x] \in Nat
      BY <1>3 DEF IInv, Types
    <2>2. i \in Nat /\ t \in Nat
      BY <2>1
    <2> HIDE DEF i, t
    <2>3. QED
      BY <1>2, <2>2 DEF IInv, Types
  <1> HIDE DEF admitted
  <1>5. /\ working' = [working EXCEPT ![e] = @ \cup {n}] /\ UNCHANGED <<batch, pc>>
        \/ /\ UNCHANGED working
           /\ \/ pc' = [pc EXCEPT ![e] = "budget"] /\ batch' = [batch EXCEPT ![e] = {}]
              \/ ~Sequential /\ UNCHANGED <<batch, pc>>
    BY <1>2 DEF BudgetRaised
  <1>6. /\ DOMAIN status' = Execs
        /\ \A u \in Execs : status'[u] \in [Nodes(u) -> NodeStatus]
        /\ \A u \in Execs \ {e} : status'[u] = status[u]
        /\ \A m \in Nodes(e) : status'[e][m] = IF m = n THEN "RUNNING" ELSE status[e][m]
    <2>1. "RUNNING" \in NodeStatus
      BY DEF NodeStatus
    <2>2. QED
      BY <1>2, <2>1, StatusMoves DEF IInv
  <1>7. \A u \in Execs : /\ Nodes(u)' = Nodes(u) /\ Graphs(u)' = Graphs(u)
                         /\ Nodes(u) \subseteq Nat
    BY DEF Nodes, Graphs
  <1>8. Types'
    <2>1. working' \in [Execs -> SUBSET Nat] /\ \A u \in Execs : working'[u] \subseteq Nodes(u)
      <3>1. n \in Nat
        BY <1>7
      <3>2. CASE UNCHANGED working
        BY <3>2 DEF IInv, Types
      <3>3. CASE working' = [working EXCEPT ![e] = @ \cup {n}]
        BY <3>1, <3>3 DEF IInv, Types
      <3>4. QED
        BY <1>5, <3>2, <3>3
    <2>2. batch' \in [Execs -> SUBSET Nat] /\ \A u \in Execs : batch'[u] \subseteq Nodes(u)
      <3>1. UNCHANGED batch \/ batch' = [batch EXCEPT ![e] = {}]
        BY <1>5
      <3>2. QED
        BY <3>1 DEF IInv, Types
    <2>3. pc' \in [Execs -> ExecState]
      <3>1. UNCHANGED pc \/ pc' = [pc EXCEPT ![e] = "budget"]
        BY <1>5
      <3>2. QED
        BY <3>1 DEF IInv, Types, ExecState
    <2>4. QED
      BY <1>2, <1>4, <1>6, <1>7, <2>1, <2>2, <2>3 DEF IInv, Types
  <1>9. ActiveCoversBatches'
    BY <1>2, <1>5, SameBatches, DroppedBatch
  <1>10. ASSUME NEW u \in Execs, u # e PROVE Orderly(u)'
    <2>1. /\ status'[u] = status[u] /\ working'[u] = working[u]
          /\ batch'[u] = batch[u] /\ pc'[u] = pc[u]
      BY <1>5, <1>6, <1>10 DEF IInv, Types
    <2>2. QED
      BY <1>2, <2>1, BystanderOrderly DEF IInv
  <1>11. Orderly(e)'
    <2>1. Completed(e)' = Completed(e)
      BY <1>1, <1>6, <1>7 DEF Completed
    <2>2. /\ pc'[e] = "executing" \/ pc'[e] = "budget"
          /\ batch'[e] \subseteq batch[e]
          /\ working'[e] \subseteq working[e] \cup {n}
          /\ Sequential /\ pc'[e] = "executing" => working'[e] = working[e] \cup {n}
      BY <1>1, <1>5 DEF IInv, Types
    <2>3. \A m \in working'[e] : status'[e][m] = "RUNNING"
      BY <1>3, <1>6, <2>2 DEF Orderly, IInv, Types
    <2>4. \A m \in Nodes(e) : status'[e][m] # "PENDING" => deps[e][m] \subseteq Completed(e)
      BY <1>1, <1>3, <1>6 DEF Orderly
    <2>5. Sequential /\ pc'[e] = "executing" =>
            \A m \in Nodes(e) : status'[e][m] = "RUNNING" => m \in working'[e]
      BY <1>1, <1>3, <1>6, <2>2 DEF Orderly
    <2>6. engineCtx # NoExec
      BY <1>3, ExecsAssumption
    <2>7. QED
      BY <1>2, <1>3, <1>7, <2>1, <2>2, <2>3, <2>4, <2>5, <2>6 DEF Orderly, Sequential
  <1>12. QED
    BY <1>8, <1>9, <1>10, <1>11 DEF IInv

\* A node that ends stays behind its dependencies, and may free others.
LEMMA EndNodeInv ==
    ASSUME IInv, NEW e \in Execs, NEW n \in Nodes(e), EndNode(e, n)
    PROVE  IInv'
  <1>1. pc[e] = "executing" /\ n \in working[e] /\ Orderly(e)
    BY DEF EndNode, IInv
  <1>2. status[e][n] = "RUNNING" /\ engineCtx \in Execs
    BY <1>1 DEF Orderly, IInv, Types
  <1>3. PICK s \in {"COMPLETED", "FAILED"} : status' = [status EXCEPT ![e][n] = s]
    BY DEF EndNode
  <1>4. /\ DOMAIN status' = Execs
        /\ \A u \in Execs : status'[u] \in [Nodes(u) -> NodeStatus]
        /\ \A u \in Execs \ {e} : status'[u] = status[u]
        /\ \A m \in Nodes(e) : status'[e][m] = IF m = n THEN s ELSE status[e][m]
    <2>1. s \in NodeStatus
      BY DEF NodeStatus
    <2>2. QED
      BY <1>3, <2>1, StatusMoves DEF IInv
  <1>5. /\ working' = [working EXCEPT ![e] = @ \ {n}]
        /\ UNCHANGED <<strategy, deps, toolNodes, batch, active, engineCtx, iters, tools, overdue, pc>>
    BY DEF EndNode
  <1>6. \A u \in Execs : Nodes(u)' = Nodes(u) /\ Graphs(u)' = Graphs(u)
    BY DEF Nodes, Graphs
  <1>7. partials' \in [Execs -> SUBSET NodeOf]
    <2>1. <<e, n>> \in NodeOf
      BY DEF NodeOf, Nodes
    <2>2. UNCHANGED partials \/ partials' = [partials EXCEPT ![engineCtx] = @ \cup {<<e, n>>}]
      BY DEF EndNode
    <2>3. /\ partials \in [Execs -> SUBSET NodeOf]
          /\ partials[engineCtx] \cup {<<e, n>>} \in SUBSET NodeOf
      BY <1>2, <2>1 DEF IInv, Types
    <2>4. CASE UNCHANGED partials
      BY <2>3, <2>4
    <2>5. CASE partials' = [partials EXCEPT ![engineCtx] = @ \cup {<<e, n>>}]
      BY <1>2, <2>3, <2>5
    <2>6. QED
      BY <2>2, <2>4, <2>5
  <1>8. Types'
    <2>1. working' \in [Execs -> SUBSET Nat] /\ \A u \in Execs : working'[u] \subseteq Nodes(u)
      BY <1>5 DEF IInv, Types
    <2>2. NodeOf' = NodeOf
      BY DEF NodeOf, Nodes
    <2>3. QED
      BY <1>4, <1>5, <1>6, <1>7, <2>1, <2>2 DEF IInv, Types
  <1>9. ActiveCoversBatches'
    BY <1>5, SameBatches
  <1>10. ASSUME NEW u \in Execs, u # e PROVE Orderly(u)'
    <2>1. status'[u] = status[u] /\ working'[u] = working[u]
      BY <1>4, <1>5, <1>10 DEF IInv, Types
    <2>2. QED
      BY <1>5, <2>1, BystanderOrderly DEF IInv
  <1>11. Orderly(e)'
    <2>1. Completed(e) \subseteq Completed(e)'
      BY <1>2, <1>4, <1>6 DEF Completed
    <2>2. working'[e] = working[e] \ {n}
      BY <1>5 DEF IInv, Types
    <2>3. \A m \in working'[e] : status'[e][m] = "RUNNING"
      BY <1>1, <1>4, <2>2 DEF Orderly, IInv, Types
    <2>4. \A m \in Nodes(e) : status'[e][m] # "PENDING" => deps[e][m] \subseteq Completed(e)
      BY <1>1, <1>2, <1>4 DEF Orderly
    <2>5. Sequential => \A m \in Nodes(e) : status'[e][m] = "RUNNING" => m \in working'[e]
      BY <1>1, <1>4, <2>2 DEF Orderly
    <2>6. \A m \in batch[e] : deps[e][m] \subseteq Completed(e)
      BY <1>1 DEF Orderly
    <2>7. engineCtx # NoExec
      BY <1>2, ExecsAssumption
    <2>8. QED
      BY <1>1, <1>5, <1>6, <2>1, <2>2, <2>3, <2>4, <2>5, <2>6, <2>7 DEF Orderly, Sequential
  <1>12. QED
    BY <1>8, <1>9, <1>10, <1>11 DEF IInv

\* A cancelled execution leaves its agents in the count.
LEMMA CancelInv ==
    ASSUME IInv, NEW e \in Execs, Cancel(e)
    PROVE  IInv'
  <1>1. /\ pc' = [pc EXCEPT ![e] = "cancelled"]
        /\ working' = [working EXCEPT ![e] = {}]
        /\ batch' = [batch EXCEPT ![e] = {}]
        /\ UNCHANGED <<strategy, deps, toolNodes, status, active, engineCtx, iters, tools, overdue, partials>>
    BY DEF Cancel
  <1>2. \A u \in Execs : Nodes(u)' = Nodes(u) /\ Graphs(u)' = Graphs(u) /\ Completed(u)' = Completed(u)
    BY <1>1 DEF Nodes, Graphs, Completed
  <1>3. Types'
    <2>1. NodeOf' = NodeOf
      BY DEF NodeOf, Nodes
    <2>2. pc' \in [Execs -> ExecState]
      BY <1>1 DEF IInv, Types, ExecState
    <2>3. QED
      BY <1>1, <1>2, <2>1, <2>2 DEF IInv, Types
  <1>4. ActiveCoversBatches'
    BY <1>1, DroppedBatch
  <1>5. ASSUME NEW u \in Execs, u # e PROVE Orderly(u)'
    <2>1. working'[u] = working[u] /\ batch'[u] = batch[u] /\ pc'[u] = pc[u]
      BY <1>1, <1>5 DEF IInv, Types
    <2>2. QED
      BY <1>1, <2>1, BystanderOrderly DEF IInv
  <1>6. Orderly(e)'
    <2>1. working'[e] = {} /\ batch'[e] = {} /\ pc'[e] = "cancelled"
      BY <1>1 DEF IInv, Types
    <2>2. QED
      BY <1>1, <1>2, <2>1 DEF IInv, Orderly
  <1>7. QED
    BY <1>3, <1>4, <1>5, <1>6 DEF IInv

\* Every step keeps the invariant.
LEMMA InvNext == IInv /\ [Next]_vars => IInv'
  <1> SUFFICES ASSUME IInv, [Next]_vars PROVE IInv'
    OBVIOUS
  <1>1. ASSUME NEW e \in Execs, Start(e) PROVE IInv'
    BY <1>1, StartInv
  <1>2. ASSUME NEW e \in Execs, EndBatch(e) PROVE IInv'
    BY <1>2, EndBatchInv
  <1>3. ASSUME NEW e \in Execs, NEW n \in Nodes(e), StartNode(e, n) PROVE IInv'
    BY <1>3, StartNodeInv
  <1>4. ASSUME NEW e \in Execs, NEW n \in Nodes(e), EndNode(e, n) PROVE IInv'
    BY <1>4, EndNodeInv
  <1>5. ASSUME UNCHANGED <<strategy, deps, toolNodes, status, working, batch, active, engineCtx, iters, tools, partials, pc>>,
               overdue' \in [Execs -> BOOLEAN]
        PROVE  IInv'
    <2>1. Types'
      <3>1. NodeOf' = NodeOf /\ \A u \in Execs : Nodes(u)' = Nodes(u) /\ Graphs(u)' = Graphs(u)
        BY DEF NodeOf, Nodes, Graphs
      <3>2. QED
        BY <1>5, <3>1 DEF IInv, Types
    <2>2. ActiveCoversBatches'
      BY <1>5, SameBatches
    <2>3. \A u \in Execs : Orderly(u)'
      BY <1>5, BystanderOrderly DEF IInv
    <2>4. QED
      BY <2>1, <2>2, <2>3 DEF IInv
  <1>6. ASSUME NEW e \in Execs, RunOut(e) PROVE IInv'
    <2>1. overdue' \in [Execs -> BOOLEAN]
      BY <1>6 DEF RunOut, IInv, Types
    <2>2. QED
      BY <1>5, <1>6, <2>1 DEF RunOut
  <1>7. ASSUME NEW e \in Execs, Cancel(e) PROVE IInv'
    BY <1>7, CancelInv
  <1>8. CASE UNCHANGED vars
    <2>1. overdue' \in [Execs -> BOOLEAN]
      BY <1>8 DEF vars, IInv, Types
    <2>2. QED
      BY <1>5, <1>8, <2>1 DEF vars
  <1>9. QED
    BY <1>1, <1>2, <1>3, <1>4, <1>6, <1>7, <1>8 DEF Next, Step

\* The invariant holds initially.
LEMMA InvInit == Init => IInv
  <1> SUFFICES ASSUME Init PROVE IInv
    OBVIOUS
  <1>1. \A e \in Execs : status[e] = [n \in Nodes(e) |-> "PENDING"] /\ batch[e] = {} /\ working[e] = {}
                         /\ pc[e] = "planning"
    BY DEF Init
  <1>2. Types
    BY <1>1 DEF Init, Types, NodeStatus, ExecState
  <1>3. ActiveCoversBatches
    <2>1. Batched = {}
      BY <1>1 DEF Batched
    <2>2. QED
      BY <2>1, FS_EmptySet DEF Init, ActiveCoversBatches
  <1>4. \A e \in Execs : Orderly(e)
    BY <1>1 DEF Orderly
  <1>5. QED
    BY <1>2, <1>3, <1>4 DEF IInv

----------------------------------------------------------------------------
(* What an execution leaves behind *)

\* While nobody is cancelled, a batch released and another dispatched leave the
\* count exact.
LEMMA RecountExact ==
    ASSUME Types, NEW e \in Execs, NEW S \in SUBSET Nodes(e), active = Agents(Batched),
           batch' = [batch EXCEPT ![e] = S], strategy' = strategy
    PROVE  /\ active - Agents(batch[e]) \in Nat
           /\ (active - Agents(batch[e])) + Agents(S) = Agents(Batched)'
  <1>1. CASE Sequential
    BY <1>1 DEF Agents, Sequential
  <1>2. CASE ~Sequential
    <2>1. \A x \in Execs : IsFiniteSet(batch[x]) /\ IsFiniteSet(batch'[x])
      BY NodesFinite DEF Types
    <2>2. batch'[e] = S /\ OfOthers(batch', e) = OfOthers(batch, e)
      BY DEF Types, OfOthers
    <2>3. /\ Cardinality(OfOthers(batch, e)) \in Nat /\ Cardinality(batch[e]) \in Nat
          /\ Cardinality(Of(batch)) = Cardinality(OfOthers(batch, e)) + Cardinality(batch[e])
      BY <2>1, CountOne
    <2>4. /\ Cardinality(S) \in Nat
          /\ Cardinality(Of(batch')) = Cardinality(OfOthers(batch', e)) + Cardinality(batch'[e])
      BY <2>1, <2>2, CountOne, Zenon
    <2>5. active = Cardinality(Of(batch)) /\ Agents(Batched)' = Cardinality(Of(batch'))
      BY <1>2 DEF Agents, Batched, Of, Sequential
    <2>6. QED
      BY <1>2, <2>2, <2>3, <2>4, <2>5 DEF Agents
  <1>3. QED
    BY <1>1, <1>2

\* A turn of the loop with nothing at work keeps the accounts.
LEMMA TurnSettles ==
    ASSUME IInv, Settled, NEW e \in Execs, NEW S, NEW x, working[e] = {},
           pc[e] # "cancelled", Turns(e, S, x, active - Agents(batch[e])),
           UNCHANGED <<strategy, working>>
    PROVE  Settled'
  <1>1. /\ S \in SUBSET Nodes(e) /\ batch' = [batch EXCEPT ![e] = S]
        /\ pc' = [pc EXCEPT ![e] = x] /\ active' = (active - Agents(batch[e])) + Agents(S)
    BY DEF Turns, Ready, Pending
  <1>2. \A u \in Execs : pc'[u] # "executing" => working'[u] = {} /\ batch'[u] = {}
    BY <1>1 DEF Turns, Settled, NoAgentLeftBehind, IInv, Types
  <1>3. ASSUME \A u \in Execs : pc'[u] # "cancelled" PROVE active' = Agents(Batched)'
    <2>1. \A u \in Execs : pc[u] # "cancelled"
      BY <1>1, <1>3 DEF IInv, Types
    <2>2. active = Agents(Batched)
      BY <2>1 DEF Settled, NoAgentLeftBehind
    <2>3. QED
      BY <1>1, <2>2, RecountExact DEF IInv
  <1>4. QED
    BY <1>2, <1>3 DEF Settled, NoAgentLeftBehind

\* A step within an execution, or out of it by a node's exception in a `for`, keeps
\* them: a gather keeps the exception until all its nodes have ended.
LEMMA NodeSettles ==
    ASSUME IInv, Settled, NEW e \in Execs, NEW n \in Nodes(e), StartNode(e, n) \/ EndNode(e, n)
    PROVE  Settled'
  <1>1. pc[e] = "executing" /\ UNCHANGED <<strategy, active>>
    BY DEF StartNode, MayStart, EndNode
  <1>2. CASE UNCHANGED <<batch, pc>> /\ \A u \in Execs \ {e} : working'[u] = working[u]
    <2>1. Agents(Batched)' = Agents(Batched)
      BY <1>1, <1>2 DEF Agents, Batched, Sequential
    <2>2. QED
      BY <1>1, <1>2, <2>1 DEF Settled, NoAgentLeftBehind
  <1>3. CASE /\ Sequential /\ working[e] = {} /\ UNCHANGED working
             /\ pc' = [pc EXCEPT ![e] = "budget"] /\ batch' = [batch EXCEPT ![e] = {}]
    <2>1. Agents(Batched)' = Agents(Batched)
      BY <1>1, <1>3 DEF Agents, Sequential
    <2>2. \A u \in Execs : pc'[u] # "executing" => working'[u] = {} /\ batch'[u] = {}
      BY <1>3 DEF Settled, NoAgentLeftBehind, IInv, Types
    <2>3. (\A u \in Execs : pc'[u] # "cancelled") => \A u \in Execs : pc[u] # "cancelled"
      BY <1>1, <1>3 DEF IInv, Types
    <2>4. QED
      BY <1>1, <2>1, <2>2, <2>3 DEF Settled, NoAgentLeftBehind
  <1>4. CASE StartNode(e, n)
    <2>1. \/ working' = [working EXCEPT ![e] = @ \cup {n}] /\ UNCHANGED <<batch, pc>>
          \/ UNCHANGED working /\ BudgetRaised(e)
      BY <1>4 DEF StartNode
    <2>2. Sequential => working[e] = {}
      BY <1>4 DEF StartNode, MayStart
    <2>3. CASE working' = [working EXCEPT ![e] = @ \cup {n}] /\ UNCHANGED <<batch, pc>>
      BY <1>2, <2>3 DEF IInv, Types
    <2>4. CASE UNCHANGED working /\ BudgetRaised(e)
      BY <1>2, <1>3, <2>2, <2>4 DEF BudgetRaised
    <2>5. QED
      BY <2>1, <2>3, <2>4
  <1>5. CASE EndNode(e, n)
    <2>1. working' = [working EXCEPT ![e] = @ \ {n}] /\ UNCHANGED <<batch, pc>>
      BY <1>5 DEF EndNode
    <2>2. QED
      BY <1>2, <2>1 DEF IInv, Types
  <1>6. QED
    BY <1>4, <1>5

\* Every step keeps the accounts; a cancellation ends what they say of the count.
LEMMA SettledNext == IInv /\ Settled /\ [Next]_vars => Settled'
  <1> SUFFICES ASSUME IInv, Settled, [Next]_vars PROVE Settled'
    OBVIOUS
  <1>1. ASSUME NEW e \in Execs, Start(e) PROVE Settled'
    <2>1. /\ pc[e] = "planning" /\ batch[e] = {} /\ working[e] = {}
          /\ UNCHANGED <<strategy, working>>
      BY <1>1 DEF Start, Settled, NoAgentLeftBehind
    <2>2. CASE Round(e, active)
      <3>1. active \in Nat /\ active - Agents(batch[e]) = active
        BY <2>1, NoAgents DEF IInv, Types
      <3>2. PICK S, x : Turns(e, S, x, active)
        BY <2>2, <3>1, RoundTurns DEF IInv
      <3>3. QED
        BY <2>1, <3>1, <3>2, TurnSettles
    <2>3. CASE pc' = [pc EXCEPT ![e] = "budget"] /\ UNCHANGED <<batch, active>>
      <3>1. Agents(Batched)' = Agents(Batched)
        BY <2>1, <2>3 DEF Agents, Batched, Sequential
      <3>2. \A u \in Execs : /\ pc'[u] # "executing" => working'[u] = {} /\ batch'[u] = {}
                             /\ pc'[u] # "cancelled" => pc[u] # "cancelled"
        BY <2>1, <2>3 DEF Settled, NoAgentLeftBehind, IInv, Types
      <3>3. QED
        BY <2>3, <3>1, <3>2 DEF Settled, NoAgentLeftBehind
    <2>4. QED
      BY <1>1, <2>2, <2>3 DEF Start
  <1>2. ASSUME NEW e \in Execs, EndBatch(e) PROVE Settled'
    <2>1. /\ pc[e] = "executing" /\ working[e] = {} /\ UNCHANGED <<strategy, working>>
          /\ Round(e, active - Agents(batch[e]))
      BY <1>2 DEF EndBatch
    <2>2. active - Agents(batch[e]) \in Nat
      BY EndBatchReleases DEF IInv
    <2>3. PICK S, x : Turns(e, S, x, active - Agents(batch[e]))
      BY <2>1, <2>2, RoundTurns DEF IInv
    <2>4. QED
      BY <2>1, <2>3, TurnSettles
  <1>3. ASSUME NEW e \in Execs, NEW n \in Nodes(e), StartNode(e, n) \/ EndNode(e, n) PROVE Settled'
    BY <1>3, NodeSettles
  <1>4. ASSUME NEW e \in Execs, Cancel(e) PROVE Settled'
    <2>1. /\ pc' = [pc EXCEPT ![e] = "cancelled"]
          /\ working' = [working EXCEPT ![e] = {}] /\ batch' = [batch EXCEPT ![e] = {}]
      BY <1>4 DEF Cancel
    <2>2. pc'[e] = "cancelled"
      BY <2>1 DEF IInv, Types
    <2>3. \A u \in Execs : pc'[u] # "executing" => working'[u] = {} /\ batch'[u] = {}
      BY <2>1 DEF Settled, NoAgentLeftBehind, IInv, Types
    <2>4. QED
      BY <2>2, <2>3 DEF Settled, NoAgentLeftBehind
  <1>5. CASE UNCHANGED <<strategy, working, batch, active, pc>>
    <2>1. Agents(Batched)' = Agents(Batched)
      BY <1>5 DEF Agents, Batched, Sequential
    <2>2. QED
      BY <1>5, <2>1 DEF Settled, NoAgentLeftBehind
  <1>6. QED
    BY <1>1, <1>2, <1>3, <1>4, <1>5 DEF Next, Step, RunOut, vars

LEMMA SettledInit == Init => Settled
  <1> SUFFICES ASSUME Init PROVE Settled
    OBVIOUS
  <1>1. \A e \in Execs : batch[e] = {} /\ working[e] = {}
    BY DEF Init
  <1>2. Batched = {}
    BY <1>1 DEF Batched
  <1>3. active = Agents(Batched)
    BY <1>2, NoAgents DEF Init
  <1>4. QED
    BY <1>1, <1>3 DEF Settled, NoAgentLeftBehind

----------------------------------------------------------------------------
(* The limits of the swarm *)

\* What is dispatched, and what is at work, is finite.
LEMMA BatchesFinite == Types => IsFiniteSet(Batched) /\ IsFiniteSet(Working)
  <1> SUFFICES ASSUME Types PROVE IsFiniteSet(Batched) /\ IsFiniteSet(Working)
    OBVIOUS
  <1>1. \A x \in Execs : IsFiniteSet(batch[x]) /\ IsFiniteSet(working[x])
    BY NodesFinite DEF Types
  <1>2. Execs \in SUBSET Execs
    OBVIOUS
  <1>3. QED
    BY <1>1, <1>2, UnionFinite, Zenon DEF Batched, Working

\* What the others have dispatched is within the limits without e.
LEMMA OthersCapped ==
    ASSUME Types, Capped, NEW e \in Execs, ~Sequential
    PROVE  LET o == Cardinality(OfOthers(batch, e))
               d == Cardinality(Dispatching \ {e})
           IN  o \in Nat /\ d \in Nat /\ (o = 0 \/ o + 1 <= MaxAgents + d)
  <1> DEFINE o == Cardinality(OfOthers(batch, e))
             d == Cardinality(Dispatching \ {e})
             b == Cardinality(batch[e])
  <1>1. \A x \in Execs : IsFiniteSet(batch[x])
    BY NodesFinite DEF Types
  <1>2. o \in Nat /\ b \in Nat /\ Cardinality(Batched) = o + b
    BY <1>1, CountOne DEF Batched, Of
  <1>3. IsFiniteSet(Dispatching) /\ Cardinality(Dispatching) \in Nat
    BY ExecsAssumption, FS_Subset, FS_CardinalityType DEF Dispatching
  <1>4. d \in Nat /\ d = IF e \in Dispatching THEN Cardinality(Dispatching) - 1 ELSE Cardinality(Dispatching)
    BY <1>3, FS_RemoveElement, FS_CardinalityType
  <1>5. (e \in Dispatching <=> batch[e] # {}) /\ (b = 0 <=> batch[e] = {})
    BY <1>1, FS_EmptySet DEF Dispatching
  <1>6. ASSUME o # 0 PROVE o + 1 <= MaxAgents + d
    <2>1. Batched # {}
      BY <1>2, <1>6, FS_EmptySet
    <2>2. (o + b) + 1 <= MaxAgents + Cardinality(Dispatching)
      BY <1>2, <2>1 DEF Capped
    <2> HIDE DEF o, d, b
    <2>3. QED
      BY <1>2, <1>3, <1>4, <1>5, <2>2, LimitAssumption
  <1>7. QED
    BY <1>2, <1>4, <1>6

\* A turn of the loop stays within them.
LEMMA TurnCapped ==
    ASSUME IInv, Capped, NEW e \in Execs, NEW S, NEW x, Turns(e, S, x, active - Agents(batch[e])),
           working[e] = {}, UNCHANGED <<strategy, working>>
    PROVE  Capped'
  <1> DEFINE o == Cardinality(OfOthers(batch, e))
             d == Cardinality(Dispatching \ {e})
             s == Cardinality(S)
  <1>1. S \in SUBSET Nodes(e) /\ batch' = [batch EXCEPT ![e] = S]
    BY DEF Turns, Ready, Pending
  <1>2. batch'[e] = S /\ \A u \in Execs \ {e} : batch'[u] = batch[u]
    BY <1>1 DEF IInv, Types
  <1>3. \A u \in Execs : working'[u] \subseteq batch'[u]
    BY <1>2 DEF Capped
  <1>4. Sequential' => \A u \in Execs : \A m, n \in working'[u] : m = n
    BY DEF Capped, Sequential
  <1>5. ASSUME ~Sequential
        PROVE  /\ \A u \in Execs : Cardinality(batch'[u]) <= MaxParallel
               /\ Batched' # {} => Cardinality(Batched') + 1 <= MaxAgents + Cardinality(Dispatching')
    <2>1. \A u \in Execs : IsFiniteSet(batch[u]) /\ IsFiniteSet(batch'[u])
      BY <1>1, <1>2, NodesFinite DEF IInv, Types
    <2>2. o \in Nat /\ d \in Nat /\ (o = 0 \/ o + 1 <= MaxAgents + d)
      BY <1>5, OthersCapped DEF IInv
    <2>3. OfOthers(batch', e) = OfOthers(batch, e)
      BY <1>2 DEF OfOthers
    <2>4. s \in Nat /\ (s = 0 <=> S = {}) /\ Cardinality(Batched') = o + s
      <3>1. /\ Cardinality(batch'[e]) \in Nat
            /\ Cardinality(Of(batch')) = Cardinality(OfOthers(batch', e)) + Cardinality(batch'[e])
        BY <2>1, CountOne, Zenon
      <3>2. Batched' = Of(batch')
        BY DEF Batched, Of
      <3>3. QED
        BY <1>2, <2>1, <2>3, <3>1, <3>2, FS_EmptySet
    <2>5. Cardinality(Dispatching') = IF S = {} THEN d ELSE d + 1
      <3>1. Dispatching' = IF S = {} THEN Dispatching \ {e} ELSE (Dispatching \ {e}) \cup {e}
        BY <1>2 DEF Dispatching
      <3>2. IsFiniteSet(Dispatching \ {e})
        BY ExecsAssumption, FS_Subset DEF Dispatching
      <3>3. QED
        BY <3>1, <3>2, FS_AddElement
    <2>6. /\ active - Cardinality(batch[e]) \in Nat
          /\ active - Cardinality(batch[e]) >= o
      <3>1. Cardinality(batch[e]) \in Nat /\ Cardinality(Batched) = o + Cardinality(batch[e])
        BY <2>1, CountOne DEF Batched, Of
      <3>2. active \in Nat /\ active >= Cardinality(Batched)
        BY <1>5 DEF IInv, Types, ActiveCoversBatches
      <3> HIDE DEF o
      <3>3. QED
        BY <2>2, <3>1, <3>2
    <2>7. s = 0 \/ (s <= MaxParallel /\ (s = 1 \/ s + (active - Cardinality(batch[e])) <= MaxAgents))
      BY <1>5, <2>4 DEF Turns, Agents
    <2> HIDE DEF o, d, s
    <2>8. \A u \in Execs : Cardinality(batch'[u]) <= MaxParallel
      <3>1. Cardinality(batch'[e]) <= MaxParallel
        BY <1>2, <2>4, <2>7, LimitAssumption DEF s
      <3>2. ASSUME NEW u \in Execs \ {e} PROVE Cardinality(batch'[u]) <= MaxParallel
        BY <1>2, <1>5 DEF Capped
      <3>3. QED
        BY <3>1, <3>2
    <2>9. ASSUME Batched' # {} PROVE Cardinality(Batched') + 1 <= MaxAgents + Cardinality(Dispatching')
      <3>1. CASE s = 0
        <4>1. o # 0
          <5>1. IsFiniteSet(Batched')
            <6>1. Execs \in SUBSET Execs
              OBVIOUS
            <6>2. QED
              BY <2>1, <6>1, UnionFinite, Zenon DEF Batched
          <5>2. QED
            BY <2>2, <2>4, <2>9, <3>1, <5>1, FS_EmptySet
        <4>2. QED
          BY <2>2, <2>4, <2>5, <3>1, <4>1
      <3>2. CASE s # 0
        <4>1. Cardinality(Dispatching') = d + 1
          BY <2>4, <2>5, <3>2
        <4>2. s = 1 \/ s + o <= MaxAgents
          BY <2>2, <2>4, <2>6, <2>7, <3>2, LimitAssumption
        <4>3. QED
          BY <2>2, <2>4, <4>1, <4>2, LimitAssumption
      <3>3. QED
        BY <3>1, <3>2
    <2>10. QED
      BY <2>8, <2>9
  <1>6. QED
    BY <1>3, <1>4, <1>5 DEF Capped, Sequential

\* A step that dispatches nothing and drops at most the batch of e stays within them.
LEMMA DropCapped ==
    ASSUME IInv, Capped, NEW e \in Execs, UNCHANGED strategy,
           batch' = batch \/ batch' = [batch EXCEPT ![e] = {}],
           \A u \in Execs : working'[u] \subseteq batch'[u],
           Sequential => \A u \in Execs : \A m, n \in working'[u] : m = n
    PROVE  Capped'
  <1>1. ASSUME ~Sequential
        PROVE  /\ \A u \in Execs : Cardinality(batch'[u]) <= MaxParallel
               /\ Batched' # {} => Cardinality(Batched') + 1 <= MaxAgents + Cardinality(Dispatching')
    <2>1. CASE batch' = batch
      BY <1>1, <2>1 DEF Capped, Batched, Dispatching
    <2>2. CASE batch' = [batch EXCEPT ![e] = {}]
      <3>1. batch'[e] = {} /\ \A u \in Execs \ {e} : batch'[u] = batch[u]
        BY <2>2 DEF IInv, Types
      <3>2. ASSUME NEW u \in Execs PROVE Cardinality(batch'[u]) <= MaxParallel
        <4>1. CASE u = e
          BY <3>1, <4>1, FS_EmptySet, LimitAssumption
        <4>2. CASE u # e
          BY <1>1, <3>1, <4>2 DEF Capped
        <4>3. QED
          BY <4>1, <4>2
      <3>3. Batched' = OfOthers(batch, e) /\ Dispatching' = Dispatching \ {e}
        BY <3>1 DEF Batched, OfOthers, Dispatching
      <3>4. /\ Cardinality(Batched') \in Nat
            /\ Cardinality(Batched') = 0 \/ Cardinality(Batched') + 1 <= MaxAgents + Cardinality(Dispatching')
        BY <1>1, <3>3, OthersCapped DEF IInv
      <3>5. IsFiniteSet(OfOthers(batch, e))
        <4>1. IsFiniteSet(Batched)
          BY BatchesFinite DEF IInv
        <4>2. OfOthers(batch, e) \subseteq Batched
          BY DEF Batched, OfOthers
        <4>3. QED
          BY <4>1, <4>2, FS_Subset
      <3>6. Batched' # {} => Cardinality(Batched') # 0
        BY <3>3, <3>5, FS_EmptySet
      <3>7. QED
        BY <3>2, <3>4, <3>6
    <2>3. QED
      BY <2>1, <2>2
  <1>2. QED
    BY <1>1 DEF Capped, Sequential

\* Every step stays within the limits of the swarm.
LEMMA CappedNext == IInv /\ Capped /\ [Next]_vars => Capped'
  <1> SUFFICES ASSUME IInv, Capped, [Next]_vars PROVE Capped'
    OBVIOUS
  <1>1. ASSUME UNCHANGED <<strategy, batch, working>> PROVE Capped'
    BY <1>1 DEF Capped, Sequential, Batched, Dispatching
  <1>2. ASSUME NEW e \in Execs, Start(e) PROVE Capped'
    <2>1. batch[e] = {} /\ working[e] = {} /\ UNCHANGED <<strategy, working>>
      BY <1>2 DEF Start, IInv, Orderly, Capped
    <2>2. CASE Round(e, active)
      <3>1. active \in Nat /\ active - Agents(batch[e]) = active
        BY <2>1, NoAgents DEF IInv, Types
      <3>2. PICK S, x : Turns(e, S, x, active)
        BY <2>2, <3>1, RoundTurns DEF IInv
      <3>3. Turns(e, S, x, active - Agents(batch[e]))
        BY <3>1, <3>2
      <3>4. QED
        BY <2>1, <3>3, TurnCapped
    <2>3. CASE UNCHANGED batch
      BY <1>1, <2>1, <2>3
    <2>4. QED
      BY <1>2, <2>2, <2>3 DEF Start
  <1>3. ASSUME NEW e \in Execs, EndBatch(e) PROVE Capped'
    <2>1. active - Agents(batch[e]) \in Nat
      <3>1. CASE Sequential
        BY <3>1 DEF Agents, IInv, Types
      <3>2. CASE ~Sequential
        <4>1. batch[e] \in SUBSET Nodes(e)
          BY DEF IInv, Types
        <4>2. QED
          BY <3>2, <4>1, Recount DEF Agents, IInv
      <3>3. QED
        BY <3>1, <3>2
    <2>2. PICK S, x : Turns(e, S, x, active - Agents(batch[e]))
      BY <1>3, <2>1, RoundTurns DEF EndBatch, IInv
    <2>3. QED
      BY <1>3, <2>2, TurnCapped DEF EndBatch
  <1>4. ASSUME NEW e \in Execs, NEW n \in Nodes(e), StartNode(e, n) PROVE Capped'
    <2>1. n \in batch[e] /\ (Sequential => working[e] = {}) /\ UNCHANGED strategy
      BY <1>4 DEF StartNode, MayStart
    <2>2. \/ working' = [working EXCEPT ![e] = @ \cup {n}] /\ UNCHANGED batch
          \/ /\ UNCHANGED working
             /\ \/ Sequential /\ batch' = [batch EXCEPT ![e] = {}]
                \/ UNCHANGED batch
      BY <1>4 DEF StartNode, BudgetRaised
    <2>3. CASE working' = [working EXCEPT ![e] = @ \cup {n}] /\ UNCHANGED batch
      <3>1. \A u \in Execs : working'[u] = IF u = e THEN working[e] \cup {n} ELSE working[u]
        BY <2>3 DEF IInv, Types
      <3>2. \A u \in Execs : working'[u] \subseteq batch'[u]
        BY <2>1, <2>3, <3>1 DEF Capped
      <3>3. Sequential => \A u \in Execs : \A k, m \in working'[u] : k = m
        BY <2>1, <3>1 DEF Capped
      <3>4. QED
        BY <2>1, <2>3, <3>2, <3>3, DropCapped
    <2>4. CASE UNCHANGED working /\ Sequential /\ batch' = [batch EXCEPT ![e] = {}]
      <3>1. \A u \in Execs : working'[u] \subseteq batch'[u]
        BY <2>1, <2>4 DEF Capped, IInv, Types
      <3>2. \A u \in Execs : \A k, m \in working'[u] : k = m
        BY <2>4 DEF Capped
      <3>3. QED
        BY <2>1, <2>4, <3>1, <3>2, DropCapped
    <2>5. CASE UNCHANGED working /\ UNCHANGED batch
      BY <1>1, <2>1, <2>5
    <2>6. QED
      BY <2>2, <2>3, <2>4, <2>5
  <1>5. ASSUME NEW e \in Execs, NEW n \in Nodes(e), EndNode(e, n) PROVE Capped'
    <2>1. working' = [working EXCEPT ![e] = @ \ {n}] /\ UNCHANGED <<strategy, batch>>
      BY <1>5 DEF EndNode
    <2>2. \A u \in Execs : working'[u] \subseteq working[u]
      BY <2>1 DEF IInv, Types
    <2>3. \A u \in Execs : working'[u] \subseteq batch'[u]
      BY <2>1, <2>2 DEF Capped
    <2>4. Sequential => \A u \in Execs : \A k, m \in working'[u] : k = m
      BY <2>2 DEF Capped
    <2>5. QED
      BY <2>1, <2>3, <2>4, DropCapped
  <1>6. ASSUME NEW e \in Execs, Cancel(e) PROVE Capped'
    <2>1. /\ working' = [working EXCEPT ![e] = {}]
          /\ batch' = [batch EXCEPT ![e] = {}]
          /\ UNCHANGED strategy
      BY <1>6 DEF Cancel
    <2>2. \A u \in Execs : /\ working'[u] = IF u = e THEN {} ELSE working[u]
                           /\ batch'[u] = IF u = e THEN {} ELSE batch[u]
      BY <2>1 DEF IInv, Types
    <2>3. \A u \in Execs : working'[u] \subseteq batch'[u]
      BY <2>2 DEF Capped
    <2>4. Sequential => \A u \in Execs : \A k, m \in working'[u] : k = m
      BY <2>2 DEF Capped
    <2>5. QED
      BY <2>1, <2>3, <2>4, DropCapped
  <1>7. ASSUME NEW e \in Execs, RunOut(e) PROVE Capped'
    BY <1>1, <1>7 DEF RunOut
  <1>8. CASE UNCHANGED vars
    BY <1>1, <1>8 DEF vars
  <1>9. QED
    BY <1>2, <1>3, <1>4, <1>5, <1>6, <1>7, <1>8 DEF Next, Step

LEMMA CappedInit == Init => Capped
  <1> SUFFICES ASSUME Init PROVE Capped
    OBVIOUS
  <1>1. \A e \in Execs : working[e] = {} /\ batch[e] = {}
    BY DEF Init
  <1>2. Batched = {}
    BY <1>1 DEF Batched
  <1>3. QED
    BY <1>1, <1>2, FS_EmptySet, LimitAssumption DEF Capped

\* Agents at work within what is dispatched are within its limits.
LEMMA CappedSuffices == IInv /\ Capped => WithinSwarmLimits
  <1> SUFFICES ASSUME IInv, Capped PROVE WithinSwarmLimits
    OBVIOUS
  <1>1. \A e \in Execs : /\ IsFiniteSet(batch[e]) /\ Cardinality(batch[e]) \in Nat
                         /\ IsFiniteSet(working[e]) /\ Cardinality(working[e]) \in Nat
    BY NodesFinite DEF IInv, Types
  <1>2. IsFiniteSet(Execs) /\ Cardinality(Execs) \in Nat
    BY ExecsAssumption, FS_CardinalityType
  <1>3. ASSUME ~Sequential, NEW e \in Execs PROVE Cardinality(working[e]) <= MaxParallel
    <2>1. Cardinality(working[e]) <= Cardinality(batch[e])
      BY <1>1, FS_Subset DEF Capped
    <2>2. QED
      BY <1>1, <1>3, <2>1, LimitAssumption DEF Capped
  <1>4. IsFiniteSet(Working) /\ IsFiniteSet(Batched)
    BY BatchesFinite DEF IInv
  <1>5. Cardinality(Working) \in Nat /\ Cardinality(Batched) \in Nat
    BY <1>4, FS_CardinalityType
  <1>6. CASE Sequential
    <2> DEFINE f == [w \in Working |-> w[1]]
    <2>1. f \in Injection(Working, Execs)
      <3>1. ASSUME NEW v \in Working, NEW w \in Working, v[1] = w[1] PROVE v = w
        <4>1. PICK x \in Execs : v \in {x} \X working[x]
          BY DEF Working
        <4>2. PICK y \in Execs : w \in {y} \X working[y]
          BY DEF Working
        <4>3. v[2] = w[2]
          BY <1>6, <3>1, <4>1, <4>2 DEF Capped
        <4>4. QED
          BY <3>1, <4>1, <4>2, <4>3
      <3>2. f \in [Working -> Execs]
        BY DEF Working
      <3>3. QED
        BY <3>1, <3>2 DEF Injection, IsInjective
    <2>2. Cardinality(Working) <= Cardinality(Execs)
      BY <1>2, <2>1, FS_Injection
    <2>3. QED
      BY <1>2, <1>5, <1>6, <2>2, LimitAssumption DEF WithinSwarmLimits
  <1>7. CASE ~Sequential
    <2>1. Working \subseteq Batched
      BY DEF Working, Batched, Capped
    <2>2. Cardinality(Working) <= Cardinality(Batched)
      BY <1>4, <2>1, FS_Subset
    <2>3. IsFiniteSet(Dispatching) /\ Cardinality(Dispatching) \in Nat
      BY <1>2, FS_Subset, FS_CardinalityType DEF Dispatching
    <2>4. Cardinality(Dispatching) <= Cardinality(Execs)
      BY <1>2, FS_Subset DEF Dispatching
    <2>5. Cardinality(Working) <= MaxAgents + Cardinality(Execs) - 1
      <3>1. CASE Batched = {}
        BY <1>2, <1>5, <2>2, <3>1, FS_EmptySet, LimitAssumption
      <3>2. CASE Batched # {}
        <4>1. Cardinality(Batched) + 1 <= MaxAgents + Cardinality(Dispatching)
          BY <1>7, <3>2 DEF Capped
        <4>2. QED
          BY <1>2, <1>5, <2>2, <2>3, <2>4, <4>1, LimitAssumption
      <3>3. QED
        BY <3>1, <3>2
    <2>6. QED
      BY <1>3, <1>7, <2>5 DEF WithinSwarmLimits
  <1>8. QED
    BY <1>6, <1>7

----------------------------------------------------------------------------
(* The budget of an execution that has the engine to itself *)

\* Once e is past its planning, no other execution has the engine to itself; and e
\* had it before if it has it now.
LEMMA AloneAgain ==
    ASSUME NEW e \in Execs, pc'[e] # "planning", \A u \in Execs \ {e} : pc'[u] = pc[u]
    PROVE  /\ \A u \in Execs \ {e} : ~Alone(u)'
           /\ Alone(e)' => Alone(e)
  BY DEF Alone

\* What e ran is finite.
LEMMA RanFinite ==
    ASSUME Types, NEW e \in Execs
    PROVE  /\ Ran(e) \subseteq Nodes(e)
           /\ \A S \in SUBSET Ran(e) : /\ IsFiniteSet(S) /\ Cardinality(S) \in Nat
                                       /\ Cardinality(S) <= Cardinality(Ran(e))
  <1>1. Ran(e) \subseteq Nodes(e)
    BY DEF Types, Ran
  <1>2. ASSUME NEW S \in SUBSET Ran(e)
        PROVE  IsFiniteSet(S) /\ Cardinality(S) \in Nat /\ Cardinality(S) <= Cardinality(Ran(e))
    BY <1>1, NodesFinite, FS_Subset
  <1>3. QED
    BY <1>1, <1>2

\* Running no more and counting no less keeps the count.
LEMMA SoloKept ==
    ASSUME IInv, NEW e \in Execs, Solo(e), Alone(e)' => Alone(e),
           Ran(e)' \subseteq Ran(e), toolNodes' = toolNodes,
           engineCtx' \in {e, NoExec}, iters'[e] \in Nat, iters'[e] >= iters[e],
           tools'[e] \in Nat, tools'[e] >= tools[e],
           pc'[e] = "executing" => iters'[e] >= 1,
           Alone(e) => partials'[e] = {e} \X Completed(e)'
    PROVE  Solo(e)'
  <1> SUFFICES ASSUME Alone(e)' PROVE Solo(e)'
    BY DEF Solo
  <1> DEFINE T == Ran(e) \cap toolNodes[e]
             U == Ran(e)' \cap toolNodes[e]
  <1>1. /\ IsFiniteSet(Ran(e)) /\ Cardinality(Ran(e)) \in Nat
        /\ Cardinality(Ran(e)') \in Nat /\ Cardinality(Ran(e)') <= Cardinality(Ran(e))
        /\ Cardinality(T) \in Nat /\ Cardinality(U) \in Nat
    BY RanFinite DEF IInv
  <1>2. Cardinality(U) <= Cardinality(T)
    <2>1. IsFiniteSet(T)
      BY RanFinite DEF IInv
    <2>2. QED
      BY <2>1, FS_Subset
  <1>3. iters[e] \in Nat /\ tools[e] \in Nat
    BY DEF IInv, Types
  <1>4. /\ Ran(e) # {} => /\ Cardinality(Ran(e)) + 1 <= iters[e]
                          /\ Cardinality(Ran(e)) + 1 < MaxIterations
        /\ Cardinality(T) <= tools[e]
        /\ T # {} => Cardinality(T) < MaxToolCalls
    BY DEF Solo
  <1>5. Ran(e)' # {} => Cardinality(Ran(e)') + 1 <= iters'[e] /\ Cardinality(Ran(e)') + 1 < MaxIterations
    BY <1>1, <1>3, <1>4, LimitAssumption
  <1>6. Cardinality(U) <= tools'[e] /\ (U # {} => Cardinality(U) < MaxToolCalls)
    <2>1. U # {} => T # {}
      OBVIOUS
    <2> HIDE DEF T, U
    <2>2. QED
      BY <1>1, <1>2, <1>3, <1>4, <2>1, LimitAssumption
  <1>7. QED
    BY <1>5, <1>6 DEF Solo

\* A node that is admitted has been counted.
LEMMA SoloAdmits ==
    ASSUME IInv, NEW e \in Execs, Alone(e), Solo(e), NEW n \in Nodes(e), n \notin Ran(e),
           pc[e] = "executing", Ran(e)' = Ran(e) \cup {n}, toolNodes' = toolNodes,
           NEW t \in Nat, t >= tools[e], n \in toolNodes[e] => t = tools[e] + 1,
           iters[e] + 1 < MaxIterations, t < MaxToolCalls,
           iters'[e] = iters[e] + 1, tools'[e] = t,
           engineCtx' = engineCtx, partials'[e] = partials[e], Completed(e)' = Completed(e)
    PROVE  Solo(e)'
  <1> DEFINE R == Ran(e)
             T == Ran(e) \cap toolNodes[e]
             U == Ran(e)' \cap toolNodes[e]
  <1>1. IsFiniteSet(R) /\ Cardinality(R) \in Nat /\ IsFiniteSet(T) /\ Cardinality(T) \in Nat
    BY RanFinite DEF IInv
  <1>2. /\ engineCtx \in {e, NoExec} /\ partials[e] = {e} \X Completed(e) /\ iters[e] >= 1
        /\ R # {} => Cardinality(R) + 1 <= iters[e]
        /\ Cardinality(T) <= tools[e]
        /\ T # {} => Cardinality(T) < MaxToolCalls
    BY DEF Solo
  <1>3. iters[e] \in Nat /\ tools[e] \in Nat
    BY DEF IInv, Types
  <1>4. Cardinality(Ran(e)') = Cardinality(R) + 1
    BY <1>1, FS_AddElement
  <1>5. R = {} => Cardinality(R) = 0
    BY FS_EmptySet
  <1>6. U = IF n \in toolNodes[e] THEN T \cup {n} ELSE T
    OBVIOUS
  <1>7. Cardinality(U) = IF n \in toolNodes[e] THEN Cardinality(T) + 1 ELSE Cardinality(T)
    <2>1. Cardinality(T \cup {n}) = Cardinality(T) + 1
      BY <1>1, FS_AddElement
    <2>2. QED
      BY <1>6, <2>1
  <1> HIDE DEF R, T, U
  <1>8. Cardinality(U) <= tools'[e] /\ Cardinality(U) < MaxToolCalls
    BY <1>1, <1>2, <1>3, <1>7, LimitAssumption
  <1>9. Cardinality(Ran(e)') + 1 <= iters'[e] /\ Cardinality(Ran(e)') + 1 < MaxIterations /\ iters'[e] >= 1
    BY <1>1, <1>2, <1>3, <1>4, <1>5, LimitAssumption
  <1>10. QED
    BY <1>2, <1>8, <1>9 DEF Solo, U

\* An execution that another's step does not concern.
LEMMA SoloElsewhere ==
    ASSUME NEW e \in Execs, pc'[e] # "planning", \A u \in Execs \ {e} : pc'[u] = pc[u]
    PROVE  \A u \in Execs \ {e} : Solo(u)'
  BY AloneAgain DEF Solo

LEMMA SoloStart ==
    ASSUME IInv, \A u \in Execs : Solo(u), NEW e \in Execs, Start(e)
    PROVE  \A u \in Execs : Solo(u)'
  <1>1. /\ pc[e] = "planning"
        /\ iters' = [iters EXCEPT ![e] = @ + 1]
        /\ UNCHANGED <<deps, toolNodes, status, working, tools, partials>>
        /\ engineCtx' = e \/ engineCtx' = engineCtx
    BY DEF Start
  <1>2. PICK x \in {"done", "error", "executing", "budget"} : pc' = [pc EXCEPT ![e] = x]
    BY DEF Start, Round
  <1>3. pc'[e] # "planning" /\ \A u \in Execs \ {e} : pc'[u] = pc[u]
    BY <1>2 DEF IInv, Types
  <1>4. Solo(e)'
    <2>1. Alone(e)' => Alone(e)
      BY <1>3, AloneAgain
    <2>2. CASE ~Alone(e)
      BY <2>1, <2>2 DEF Solo
    <2>3. CASE Alone(e)
      <3>1. engineCtx' \in {e, NoExec} /\ partials[e] = {e} \X Completed(e)
        BY <1>1, <2>3 DEF Solo
      <3>2. Ran(e)' = Ran(e) /\ Completed(e)' = Completed(e)
        BY <1>1 DEF Ran, Completed, Nodes
      <3>3. iters[e] \in Nat /\ iters'[e] = iters[e] + 1 /\ tools[e] \in Nat
        BY <1>1 DEF IInv, Types
      <3>4. iters'[e] \in Nat /\ iters'[e] >= iters[e] /\ iters'[e] >= 1 /\ tools[e] >= tools[e]
        BY <3>3
      <3>5. Solo(e)
        OBVIOUS
      <3>6. QED
        BY <1>1, <2>1, <3>1, <3>2, <3>3, <3>4, <3>5, SoloKept
    <2>4. QED
      BY <2>2, <2>3
  <1>5. QED
    BY <1>3, <1>4, SoloElsewhere

\* Neither the end of a batch, nor a cancellation, nor a deadline that passes counts
\* or runs anything.
LEMMA SoloUncounted ==
    ASSUME IInv, \A u \in Execs : Solo(u), NEW e \in Execs, EndBatch(e) \/ Cancel(e) \/ RunOut(e) \/ UNCHANGED vars
    PROVE  \A u \in Execs : Solo(u)'
  <1>1. UNCHANGED <<deps, toolNodes, status, engineCtx, iters, tools, partials>>
    BY DEF EndBatch, Cancel, RunOut, vars
  <1>2. \A u \in Execs : /\ working'[u] \subseteq working[u]
                         /\ pc'[u] = "planning" => pc[u] = "planning"
                         /\ pc'[u] = "executing" => pc[u] = "executing"
    <2>1. CASE EndBatch(e)
      <3>1. PICK x \in {"done", "error", "executing"} : pc' = [pc EXCEPT ![e] = x]
        BY <2>1 DEF EndBatch, Round
      <3>2. UNCHANGED working /\ pc[e] = "executing"
        BY <2>1 DEF EndBatch
      <3>3. QED
        BY <3>1, <3>2 DEF IInv, Types
    <2>2. CASE Cancel(e)
      BY <2>2 DEF Cancel, IInv, Types
    <2>3. CASE RunOut(e) \/ UNCHANGED vars
      BY <2>3 DEF RunOut, vars
    <2>4. QED
      BY <2>1, <2>2, <2>3
  <1>3. ASSUME NEW u \in Execs PROVE Solo(u)'
    <2>1. Alone(u)' => Alone(u)
      <3>1. \A x \in Execs \ {u} : pc'[x] = "planning" => pc[x] = "planning"
        BY <1>2
      <3>2. QED
        BY <3>1 DEF Alone
    <2>2. CASE ~Alone(u)
      BY <2>1, <2>2 DEF Solo
    <2>3. CASE Alone(u)
      <3>1. /\ engineCtx \in {u, NoExec} /\ partials[u] = {u} \X Completed(u)
            /\ pc[u] = "executing" => iters[u] >= 1
        BY <2>3 DEF Solo
      <3>2. Ran(u)' \subseteq Ran(u) /\ Completed(u)' = Completed(u)
        BY <1>1, <1>2 DEF Ran, Completed, Nodes
      <3>3. iters[u] \in Nat /\ tools[u] \in Nat /\ iters[u] >= iters[u] /\ tools[u] >= tools[u]
        BY DEF IInv, Types
      <3>4. Solo(u)
        OBVIOUS
      <3>5. pc'[u] = "executing" => iters'[u] >= 1
        BY <1>1, <1>2, <3>1
      <3>6. QED
        BY <1>1, <2>1, <3>1, <3>2, <3>3, <3>4, <3>5, SoloKept
    <2>4. QED
      BY <2>2, <2>3
  <1>4. QED
    BY <1>3

LEMMA SoloStartNode ==
    ASSUME IInv, Capped, \A u \in Execs : Solo(u), NEW e \in Execs, NEW n \in Nodes(e), StartNode(e, n)
    PROVE  \A u \in Execs : Solo(u)'
  <1> DEFINE x == engineCtx
             i == iters[x] + 1
             isTool == n \in toolNodes[e] /\ Within(x, i, tools[x])
             t == IF isTool THEN tools[x] + 1 ELSE tools[x]
             admitted == Within(x, i, tools[x]) /\ Within(x, i, t)
  <1>1. pc[e] = "executing" /\ status[e][n] = "PENDING"
    BY DEF StartNode, MayStart, Pending
  <1>2. /\ status' = [status EXCEPT ![e][n] = "RUNNING"]
        /\ iters' = [iters EXCEPT ![x] = i]
        /\ tools' = [tools EXCEPT ![x] = t]
        /\ IF admitted
           THEN working' = [working EXCEPT ![e] = @ \cup {n}] /\ UNCHANGED <<batch, pc>>
           ELSE UNCHANGED working /\ BudgetRaised(e)
        /\ UNCHANGED <<toolNodes, engineCtx, partials>>
    BY DEF StartNode
  <1>3. x \in Execs /\ iters[x] \in Nat /\ tools[x] \in Nat
    BY <1>1 DEF IInv, Types, Orderly
  <1>4. pc' = pc \/ pc' = [pc EXCEPT ![e] = "budget"]
    BY <1>2 DEF BudgetRaised
  <1>5. pc'[e] # "planning" /\ \A u \in Execs \ {e} : pc'[u] = pc[u]
    BY <1>1, <1>4 DEF IInv, Types
  <1>6. \A m \in Nodes(e) : status'[e][m] = IF m = n THEN "RUNNING" ELSE status[e][m]
    <2>1. "RUNNING" \in NodeStatus
      BY DEF NodeStatus
    <2>2. QED
      BY <1>2, <2>1, StatusMoves DEF IInv
  <1>7. Nodes(e)' = Nodes(e) /\ Completed(e)' = Completed(e)
    BY <1>1, <1>6 DEF Completed, Nodes
  <1>8. n \notin Ran(e)
    BY <1>1 DEF Ran, IInv, Orderly
  <1>9. Ran(e)' = IF admitted THEN Ran(e) \cup {n} ELSE Ran(e)
    <2>1. {m \in Nodes(e) : status[e][m] \in {"COMPLETED", "FAILED"}}'
             = {m \in Nodes(e) : status[e][m] \in {"COMPLETED", "FAILED"}}
      BY <1>1, <1>6, <1>7
    <2>2. working'[e] = IF admitted THEN working[e] \cup {n} ELSE working[e]
      BY <1>2 DEF IInv, Types
    <2> HIDE DEF admitted
    <2>3. QED
      BY <2>1, <2>2 DEF Ran
  <1>10. Solo(e)'
    <2>1. CASE ~Alone(e)
      BY <1>5, <2>1, AloneAgain DEF Solo
    <2>2. CASE Alone(e)
      <3>1. x = e /\ partials[e] = {e} \X Completed(e) /\ Solo(e)
        BY <1>3, <2>2, ExecsAssumption DEF Solo
      <3>2. t \in Nat /\ t >= tools[e]
        BY <1>3, <3>1
      <3>3. iters'[e] = iters[e] + 1 /\ tools'[e] = t
        BY <1>2, <1>3, <3>1 DEF IInv, Types
      <3>4. CASE admitted
        <4>1. iters[e] + 1 < MaxIterations /\ t < MaxToolCalls
          BY <3>1, <3>4 DEF Within
        <4>2. n \in toolNodes[e] => t = tools[e] + 1
          BY <3>1, <3>4
        <4>3. Ran(e)' = Ran(e) \cup {n}
          BY <1>9, <3>4
        <4> HIDE DEF t, admitted
        <4>4. QED
          BY <1>1, <1>2, <1>7, <1>8, <2>2, <3>1, <3>2, <3>3, <4>1, <4>2, <4>3, SoloAdmits
      <3>5. CASE ~admitted
        <4>1. Ran(e)' \subseteq Ran(e)
          BY <1>9, <3>5
        <4>2. iters'[e] \in Nat /\ iters'[e] >= iters[e] /\ iters'[e] >= 1
          BY <1>3, <3>1, <3>3
        <4>3. engineCtx' \in {e, NoExec}
          BY <1>2, <3>1
        <4> HIDE DEF t, admitted
        <4>4. Alone(e)' => Alone(e)
          BY <2>2
        <4>5. partials'[e] = {e} \X Completed(e)'
          BY <1>2, <1>7, <3>1
        <4>6. QED
          BY <1>2, <3>1, <3>2, <3>3, <4>1, <4>2, <4>3, <4>4, <4>5, SoloKept
      <3>6. QED
        BY <3>4, <3>5
    <2>3. QED
      BY <2>1, <2>2
  <1>11. QED
    BY <1>5, <1>10, SoloElsewhere

LEMMA SoloEndNode ==
    ASSUME IInv, \A u \in Execs : Solo(u), NEW e \in Execs, NEW n \in Nodes(e), EndNode(e, n)
    PROVE  \A u \in Execs : Solo(u)'
  <1>1. /\ pc[e] = "executing" /\ n \in working[e]
        /\ working' = [working EXCEPT ![e] = @ \ {n}]
        /\ UNCHANGED <<toolNodes, engineCtx, iters, tools, pc>>
    BY DEF EndNode
  <1>2. pc'[e] # "planning" /\ \A u \in Execs \ {e} : pc'[u] = pc[u]
    BY <1>1
  <1>3. engineCtx \in Execs /\ status[e][n] = "RUNNING"
    BY <1>1 DEF IInv, Types, Orderly
  <1>4. PICK s \in {"COMPLETED", "FAILED"} :
           /\ status' = [status EXCEPT ![e][n] = s]
           /\ partials' = IF s = "COMPLETED" THEN [partials EXCEPT ![engineCtx] = @ \cup {<<e, n>>}] ELSE partials
    BY DEF EndNode
  <1>5. \A m \in Nodes(e) : status'[e][m] = IF m = n THEN s ELSE status[e][m]
    <2>1. s \in NodeStatus
      BY DEF NodeStatus
    <2>2. QED
      BY <1>4, <2>1, StatusMoves DEF IInv
  <1>6. Nodes(e)' = Nodes(e)
    BY DEF Nodes
  <1>7. Ran(e)' \subseteq Ran(e)
    <2>1. working'[e] = working[e] \ {n}
      BY <1>1 DEF IInv, Types
    <2>2. QED
      BY <1>1, <1>5, <1>6, <2>1 DEF Ran
  <1>8. Completed(e)' = IF s = "COMPLETED" THEN Completed(e) \cup {n} ELSE Completed(e)
    <2>1. CASE s = "COMPLETED"
      BY <1>3, <1>5, <1>6, <2>1 DEF Completed
    <2>2. CASE s # "COMPLETED"
      BY <1>3, <1>5, <1>6, <2>2 DEF Completed
    <2>3. QED
      BY <2>1, <2>2
  <1>9. Solo(e)'
    <2>1. CASE ~Alone(e)
      BY <1>2, <2>1, AloneAgain DEF Solo
    <2>2. CASE Alone(e)
      <3>1. engineCtx = e /\ partials[e] = {e} \X Completed(e) /\ Solo(e) /\ iters[e] >= 1
        BY <1>1, <1>3, <2>2, ExecsAssumption DEF Solo
      <3>2. partials'[e] = {e} \X Completed(e)'
        <4>1. partials'[e] = IF s = "COMPLETED" THEN partials[e] \cup {<<e, n>>} ELSE partials[e]
          BY <1>4, <3>1 DEF IInv, Types
        <4>2. QED
          BY <1>8, <3>1, <4>1
      <3>3. iters[e] \in Nat /\ tools[e] \in Nat /\ iters[e] >= iters[e] /\ tools[e] >= tools[e]
        BY DEF IInv, Types
      <3>4. QED
        BY <1>1, <1>7, <2>2, <3>1, <3>2, <3>3, SoloKept
    <2>3. QED
      BY <2>1, <2>2
  <1>10. QED
    BY <1>2, <1>9, SoloElsewhere

\* Whatever moves, what an execution alone on its engine counts covers what it runs.
LEMMA SoloNext ==
    ASSUME IInv, Capped, \A u \in Execs : Solo(u), [Next]_vars
    PROVE  \A u \in Execs : Solo(u)'
  <1>1. ASSUME NEW e \in Execs, Start(e) PROVE \A u \in Execs : Solo(u)'
    BY <1>1, SoloStart
  <1>2. ASSUME NEW e \in Execs, EndBatch(e) \/ Cancel(e) \/ RunOut(e) PROVE \A u \in Execs : Solo(u)'
    BY <1>2, SoloUncounted
  <1>3. ASSUME NEW e \in Execs, NEW n \in Nodes(e), StartNode(e, n) PROVE \A u \in Execs : Solo(u)'
    BY <1>3, SoloStartNode
  <1>4. ASSUME NEW e \in Execs, NEW n \in Nodes(e), EndNode(e, n) PROVE \A u \in Execs : Solo(u)'
    BY <1>4, SoloEndNode
  <1>5. CASE UNCHANGED vars
    BY <1>5, SoloUncounted
  <1>6. QED
    BY <1>1, <1>2, <1>3, <1>4, <1>5 DEF Next, Step

LEMMA SoloInit == Init => \A e \in Execs : Solo(e)
  <1> SUFFICES ASSUME Init, NEW e \in Execs PROVE Solo(e)
    OBVIOUS
  <1>1. Completed(e) = {} /\ Ran(e) = {}
    BY DEF Init, Completed, Ran
  <1>2. QED
    BY <1>1, FS_EmptySet DEF Init, Solo

----------------------------------------------------------------------------
(* Theorems *)

\* The inductive invariant, from which the theorems below follow.
THEOREM Inductive == Spec => []IInv
  BY InvInit, InvNext, PTL DEF Spec

\* The variables keep their ranges; _active_agents never becomes negative.
THEOREM TypeCorrect == Spec => []TypeOK
  <1>1. IInv => TypeOK
    BY DEF IInv, Types, TypeOK
  <1>2. QED
    BY <1>1, Inductive, PTL

\* For every graph, cyclic ones and unknown ids included, a node runs only after
\* all its dependencies have completed (models.py:56-65, execution.py:81-107).
THEOREM DependenciesFirstAlways == Spec => []DependenciesFirst
  <1>1. IInv => DependenciesFirst
    BY DEF IInv, Orderly, DependenciesFirst
  <1>2. QED
    BY <1>1, Inductive, PTL

\* Whatever ends an execution leaves no node of it at work, and without cancellation
\* the shared count is what is dispatched (execution.py:87-107).
THEOREM NoAgentLeftBehindAlways == Spec => []NoAgentLeftBehind
  <1>1. Init => Settled
    BY SettledInit
  <1>2. IInv /\ Settled /\ [Next]_vars => Settled'
    BY SettledNext
  <1>3. Settled => NoAgentLeftBehind
    BY DEF Settled
  <1>4. QED
    BY <1>1, <1>2, <1>3, Inductive, PTL DEF Spec

\* The agents of every gather in progress are counted, whichever executions were
\* cancelled (execution.py:87-107).
THEOREM ActiveCoversBatchesAlways == Spec => []ActiveCoversBatches
  BY Inductive, PTL DEF IInv

\* The limits of the swarm are kept as far as the code can keep them, and what an
\* execution alone on its engine counts covers what it runs.
THEOREM BoundsAlways == Spec => [](Capped /\ \A e \in Execs : Solo(e))
  <1>1. Init => Capped /\ \A e \in Execs : Solo(e)
    BY CappedInit, SoloInit
  <1>2. IInv /\ (Capped /\ \A e \in Execs : Solo(e)) /\ [Next]_vars
           => (Capped /\ \A e \in Execs : Solo(e))'
    BY CappedNext, SoloNext
  <1>3. QED
    BY <1>1, <1>2, Inductive, PTL DEF Spec

\* No execution has more nodes at work than its limit of parallel tasks, and all
\* together exceed the limit of agents by one each at most (execution.py:69, 86-93).
THEOREM WithinSwarmLimitsAlways == Spec => []WithinSwarmLimits
  BY CappedSuffices, Inductive, BoundsAlways, PTL

\* An execution that has the engine to itself never does more work than its budget
\* allows (engine.py:78-80, 106-108, watchdog.py:123-154).
THEOREM WithinBudgetAlways == Spec => []WithinBudget
  <1>1. (Capped /\ \A e \in Execs : Solo(e)) => WithinBudget
    BY DEF Solo, WithinBudget
  <1>2. QED
    BY <1>1, BoundsAlways, PTL

\* What an interrupted execution that has the engine to itself can still return is
\* exactly what its nodes completed (engine.py:128-142, chat_orchestrator.py:226-229).
THEOREM PartialsExactAlways == Spec => []PartialsExact
  <1>1. (Capped /\ \A e \in Execs : Solo(e)) => PartialsExact
    BY DEF Solo, PartialsExact
  <1>2. QED
    BY <1>1, BoundsAlways, PTL

\* A sequential execution never goes on after a node met its budget
\* (engine.py:144-149, execution.py:59-61).
THEOREM BudgetStopsSequentialAlways == Spec => []BudgetStopsSequential
  <1>1. IInv => BudgetStopsSequential
    BY DEF IInv, Orderly, BudgetStopsSequential
  <1>2. QED
    BY <1>1, Inductive, PTL

=============================================================================
