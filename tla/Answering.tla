----------------------------- MODULE Answering -----------------------------
(***************************************************************************)
(* How an answer is had from the language model (LLMCall) and how one that *)
(* is streamed has its tools called (ToolStream).  The two share no state. *)
(***************************************************************************)
EXTENDS LLMCall, Sequences

CONSTANTS Streams, Answers, MaxChunk, MaxBuffer, NoCall
VARIABLES answer, stage, fed, buffer, out, spans, run, child, result, loop

Stream == INSTANCE ToolStream WITH pc <- stage

stream == <<answer, stage, fed, buffer, out, spans, run, child, result, loop>>

ASSUME NoCallAssumption == NoCall \notin Streams
ASSUME AnswersAssumption == Answers \subseteq Seq(Stream!Token)
ASSUME BufferAssumption == MaxChunk \in Nat \ {0} /\ MaxBuffer \in Nat

----------------------------------------------------------------------------

\* Of ToolStream: the client gets every token once and in order, but for the calls.
TextConserved == Stream!TextConserved

\* Of ToolStream: a call ends even if the plugin does not.
EveryToolCallEnds == Stream!EveryToolCallEnds

\* Of PluginRun: no subprocess stays behind but an abandoned one.
NoChildStays == Stream!NoChildStays
=============================================================================
