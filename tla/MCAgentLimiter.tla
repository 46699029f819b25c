--------------------------- MODULE MCAgentLimiter ---------------------------
(* Small instances of AgentLimiter. *)
EXTENDS AgentLimiter

CONSTANTS r1, r2, r3, r4, r5

FiveRequests == {r1, r2, r3, r4, r5}

\* One orchestrator for all sessions, as tests/integration share it.
Shared == {"shared"}
AllShareOne == [r \in Requests |-> "shared"]

\* get_chat_orchestrator: every request builds its own.
Own == [r \in Requests |-> r]
=============================================================================
