------------------------------ MODULE ToolStream ------------------------------
(***************************************************************************)
(* Tool calls in a streamed answer: StreamingToolRunner.wrap_stream and    *)
(* run_tool (app/orchestrator/tool_runner.py), with the tool run by the    *)
(* registry's functions or, for plugins, by module PluginRun.              *)
(*                                                                         *)
(* An answer is a sequence of tokens: "text"; "<tool_" and "call:", the    *)
(* two halves of an opening tag; "name(", which must follow it; and ")>".  *)
(* A stream is known by the positions of its tokens.                       *)
(***************************************************************************)
EXTENDS Naturals, Sequences, FiniteSetsExt

CONSTANTS
    Streams,    \* answers being streamed on one event loop
    Answers,    \* what the model may say
    MaxChunk,   \* bound: tokens per chunk of the provider
    MaxBuffer,  \* max_buffer, in tokens
    NoCall

Token == {"text", "<tool_", "call:", "name(", ")>"}

VARIABLES
    answer,  \* what each stream's model says
    pc,      \* where each stream is
    fed,     \* how many tokens have come from the provider
    buffer,  \* wrap_stream's buffer, as positions
    out,     \* positions passed on to the client
    spans,   \* the spans of tokens that were executed as calls
    run, child, result, loop

Plugin == INSTANCE PluginRun WITH Calls <- Streams

plugin == <<run, child, result, loop>>
stream == <<answer, pc, fed, buffer, out, spans>>
vars   == <<answer, pc, fed, buffer, out, spans, run, child, result, loop>>

\* "builtin", "plugin": in run_tool.  "gone": the client went away.
StreamState == {"reading", "builtin", "plugin", "done", "gone"}

Init ==
    /\ answer \in [Streams -> Answers]
    /\ pc = [s \in Streams |-> "reading"]
    /\ fed = [s \in Streams |-> 0]
    /\ buffer = [s \in Streams |-> <<>>]
    /\ out = [s \in Streams |-> <<>>]
    /\ spans = [s \in Streams |-> {}]
    /\ Plugin!Init

----------------------------------------------------------------------------
(* Text *)

\* The token at place i of b, a sequence of positions of s's answer.
At(s, b, i) == answer[s][b[i]]

\* Places of the buffer b where "<tool_call:" stands.
Tags(s, b) == {i \in 1..Len(b) - 1 : At(s, b, i) = "<tool_" /\ At(s, b, i + 1) = "call:"}

\* TOOL_PATTERN: its `.*` is greedy, so a match goes on to the last ")>" there is.
Matches(s, b) ==
    {m \in Tags(s, b) \X (1..Len(b)) :
        /\ m[1] + 2 < m[2] /\ At(s, b, m[1] + 2) = "name(" /\ At(s, b, m[2]) = ")>"
        /\ \A k \in m[2] + 1..Len(b) : At(s, b, k) # ")>"}

\* search: the leftmost.
Match(s, b) == CHOOSE m \in Matches(s, b) : \A x \in Matches(s, b) : m[1] <= x[1]

PassOn(s, b, rest) ==
    /\ out' = [out EXCEPT ![s] = @ \o b]
    /\ buffer' = [buffer EXCEPT ![s] = rest]

----------------------------------------------------------------------------
(* wrap_stream *)

\* Mutant: the buffer is emptied without its rest being passed on.
EndToolDropsRest(s) ==
    /\ pc' = [pc EXCEPT ![s] = "reading"]
    /\ PassOn(s, <<>>, <<>>)

\* run_tool has a result or an error text: the rest of the buffer follows, unread.
EndTool(s) ==
    /\ pc' = [pc EXCEPT ![s] = "reading"]
    /\ PassOn(s, buffer[s], <<>>)

\* A tool of the registry, or a plugin's.
StartTool(s) ==
    \/ pc' = [pc EXCEPT ![s] = "builtin"] /\ UNCHANGED plugin
    \/ pc' = [pc EXCEPT ![s] = "plugin"] /\ Plugin!Invoke(s)

\* A tag has begun and is not finished: wait for more, up to max_buffer.
Holds(s, b) == Tags(s, b) # {} /\ Len(b) <= MaxBuffer

\* The next k tokens arrive in one chunk.
Chunk(s, k) ==
    LET b == buffer[s] \o [i \in 1..k |-> fed[s] + i]
        m == Match(s, b)
    IN  /\ Plugin!LoopFree /\ pc[s] = "reading" /\ fed[s] + k <= Len(answer[s])
        /\ fed' = [fed EXCEPT ![s] = @ + k]
        /\ \/ /\ Matches(s, b) # {}
              /\ PassOn(s, SubSeq(b, 1, m[1] - 1), SubSeq(b, m[2] + 1, Len(b)))
              /\ spans' = [spans EXCEPT ![s] = @ \cup {b[m[1]]..b[m[2]]}]
              /\ StartTool(s)
           \/ /\ Matches(s, b) = {}
              /\ IF Holds(s, b) THEN PassOn(s, <<>>, b) ELSE PassOn(s, b, <<>>)
              /\ UNCHANGED <<pc, spans, plugin>>
        /\ UNCHANGED answer

\* The tool's coroutine returns, raises, or is not in the registry.
BuiltinEnds(s) ==
    /\ Plugin!LoopFree /\ pc[s] = "builtin"
    /\ EndTool(s)
    /\ UNCHANGED <<answer, fed, spans, plugin>>

\* _isolated_tool makes text of the runner's result.
PluginEnds(s) ==
    /\ Plugin!LoopFree /\ pc[s] = "plugin" /\ run[s] = "idle" /\ result[s] # "none"
    /\ EndTool(s)
    /\ result' = [result EXCEPT ![s] = "none"]
    /\ UNCHANGED <<answer, fed, spans, run, child, loop>>

EndOfStream(s) ==
    /\ Plugin!LoopFree /\ pc[s] = "reading" /\ fed[s] = Len(answer[s])
    /\ PassOn(s, buffer[s], <<>>)
    /\ pc' = [pc EXCEPT ![s] = "done"]
    /\ UNCHANGED <<answer, fed, spans, plugin>>

\* The client disconnects: the task is cancelled at the await it is at.
Leave(s) ==
    /\ Plugin!LoopFree /\ pc[s] \in {"reading", "builtin", "plugin"}
    /\ IF run[s] # "idle" THEN Plugin!Cancel(s) ELSE UNCHANGED plugin
    /\ pc' = [pc EXCEPT ![s] = "gone"]
    /\ UNCHANGED <<answer, fed, buffer, out, spans>>

Process(s) == (Plugin!Outside(s) \/ Plugin!Resume(s)) /\ UNCHANGED stream

Read(s) == \E k \in 1..MaxChunk : Chunk(s, k)

Next ==
    \E s \in Streams :
        Read(s) \/ BuiltinEnds(s) \/ PluginEnds(s) \/ EndOfStream(s) \/ Leave(s) \/ Process(s)

Spec == Init /\ [][Next]_vars

\* The loop runs what is ready when it is free, and a tool of the registry ends.
Fairness ==
    /\ Plugin!Fairness
    /\ \A s \in Streams : WF_vars(BuiltinEnds(s)) /\ WF_vars(PluginEnds(s))

FairSpec == Spec /\ Fairness

----------------------------------------------------------------------------
(* Properties *)

\* However the provider cuts its chunks, the client gets every token of the answer
\* once and in order, except those that were executed as a call
\* (tool_runner.py:76-119).
TextConserved ==
    \A s \in Streams :
        LET all == out[s] \o buffer[s]
        IN  /\ {all[i] : i \in 1..Len(all)} = 1..fed[s] \ UNION spans[s]
            /\ \A i, j \in 1..Len(all) : i < j => all[i] < all[j]

\* A tool call ends even if the plugin never does and other calls keep the event
\* loop to themselves in turn (registry.py:136-203).
EveryToolCallEnds == \A s \in Streams : pc[s] \in {"builtin", "plugin"} ~> pc[s] \notin {"builtin", "plugin"}

\* No subprocess stays behind, whatever its plugin does, be it alive or dead and not
\* waited for: but the one of a request that was cancelled while it was being started,
\* which has been given nothing to do (registry.py:136-203).
NoChildStays == \A s \in Streams : child[s] # "none" ~> child[s] \in {"none", "abandoned"}

\* "Detects and executes tool calls within a streaming LLM response"
\* (tool_runner.py:16): every complete call of an answer that was sent is executed.
EveryCallExecuted ==
    \A s \in Streams : pc[s] = "done" =>
        Cardinality(spans[s]) = Cardinality({i \in 1..Len(answer[s]) : answer[s][i] = "name("})

=============================================================================
