----------------------------- MODULE MCRequests -----------------------------
(* Small instances of Gateway and of Turn, one of them at work in each run. *)
EXTENDS Requests, TLC

CONSTANTS q1, q2, key, t1, t2

----------------------------------------------------------------------------
(* Gateway: two tiers that fill in the same time, the agent tier's token twice *)
(* the general one's price.                                                    *)
MCRequestSet == {q1, q2}
MCIdentities == {key}
MCTiers      == {"general", "agent"}
MCCost       == [t \in MCTiers |-> IF t = "general" THEN 1 ELSE 2]

P(path, jwt, k, large) == [path |-> path, who |-> key, jwt |-> jwt, key |-> k, large |-> large]

\* A health probe, a question by key, and a request that JWT turns away after the
\* limiter charged it.
MCProfiles ==
    {P("public", "none", "none", FALSE), P("chat", "none", "right", FALSE),
     P("api", "bad", "right", FALSE)}

GatewaySpec == /\ Init /\ Chat!Init /\ [][Next /\ UNCHANGED turn]_<<vars, turn>>
               /\ Fairness

----------------------------------------------------------------------------
(* Turn: both ask the same.  A prompt that was never scored, and one whose *)
(* candidate is about to be judged.                                        *)
MCTurns == {t1, t2}

MCQuestion == [t \in MCTurns |-> "q"]

Scores(sum, hits, parent) == [sum |-> sum, hits |-> hits, parent |-> parent]

Untried == [versions |-> <<Scores(0, 0, 0)>>, active |-> 1, baseline |-> 1, candidate |-> 0]
Tried   == [versions |-> <<Scores(1, 2, 0), Scores(1, 1, 1)>>, active |-> 1, baseline |-> 1, candidate |-> 2]

MCOldPrompts == {Untried, Tried}
OnlyFresh    == {Untried}

\* The turns are alike.
MCAlike == Permutations(MCTurns)

ChatSpec == Chat!Init /\ Init /\ [][Chat!Next /\ UNCHANGED vars]_<<turn, vars>>
=============================================================================
