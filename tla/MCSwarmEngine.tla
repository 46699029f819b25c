--------------------------- MODULE MCSwarmEngine ---------------------------
(* Small instances of SwarmEngine. *)
EXTENDS SwarmEngine

CONSTANTS e1, e2

MCExecs    == {e1, e2}
MCNumNodes == [e \in MCExecs |-> IF e = e1 THEN 3 ELSE 1]

\* Tools to exceed their budget with, or none.
MCToolPlans == {{1, 2, 3}, {}}

\* Any graph of two nodes, the first of which may also name one that does not exist,
\* beside a third node that is ready at once.
MCGraphs == {<<d1, d2, {}>> : d1 \in SUBSET {Unknown, 1, 2} \ {{Unknown}}, d2 \in SUBSET {1, 2}}

\* One execution of such a graph, next to one of a single node.
MCInit ==
    /\ deps \in {[e \in Execs |-> IF e = e1 THEN g ELSE <<{}>>] : g \in MCGraphs}
    /\ Init
    /\ toolNodes[e2] = toolNodes[e1]

MCSpec == MCInit /\ [][Next]_vars /\ \A e \in Execs : WF_vars(Step(e))
=============================================================================
