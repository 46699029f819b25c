---------------------------- MODULE MCAnswering ----------------------------
(* Small instances of LLMCall and of ToolStream, one of them at work in each run. *)
EXTENDS Answering

CONSTANTS g, d, s, s1, s2

----------------------------------------------------------------------------
(* LLMCall: the primary turns a broken stream into text, as both providers of *)
(* the application do, the fallback raises.                                   *)
MCCallers    == {g, d, s}
MCGuarded    == {g}
MCStreaming  == {s}
MCSwallowing == {1}

LLMSpec == Init /\ Stream!Init /\ [][Next /\ UNCHANGED stream]_<<vars, stream>>

----------------------------------------------------------------------------
(* ToolStream: answers with a call between texts, with two calls, and with a tag *)
(* that is never closed.                                                         *)
MCStreams == {s1, s2}
NoStream  == {}

Tag      == <<"<tool_", "call:", "name(">>
OneCall  == <<"text">> \o Tag \o <<")>", "text">>
TwoCalls == Tag \o <<")>">> \o Tag \o <<")>">>
Unclosed == Tag \o <<"text", "text">>

MCAnswers == {OneCall, TwoCalls, Unclosed}

StreamSpec == /\ Stream!Init /\ Init /\ [][Stream!Next /\ UNCHANGED vars]_<<stream, vars>>
              /\ Stream!Fairness
=============================================================================
