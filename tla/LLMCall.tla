------------------------------- MODULE LLMCall -------------------------------
(***************************************************************************)
(* Questions to the language model: FallbackProvider with its small        *)
(* breaker per provider (app/llm/providers/fallback_provider.py), the      *)
(* providers' own retries (tenacity around openai_provider.py and          *)
(* huggingface_provider.py), and the retry policy and timeout that         *)
(* _safe_llm_ask of app/orchestrator/chat_orchestrator.py puts around      *)
(* both.  The callers share one FallbackProvider, as the planner, the      *)
(* agents, the grader and the answer of one request do.                    *)
(*                                                                         *)
(* The CircuitBreaker around the guarded call is module CircuitBreaker; it *)
(* sees one call, and one outcome, per guarded question.                   *)
(***************************************************************************)
EXTENDS Naturals

CONSTANTS
    Callers,
    Guarded,       \* those that ask through _safe_llm_ask
    Streaming,     \* those that use ask_stream; the others call ask directly
    NumProviders,  \* the primary and the fallbacks, in order
    Swallowing,    \* providers whose ask_stream turns an exception into text
    Threshold,     \* failure_threshold of a provider's breaker
    Recovery,      \* its recovery_timeout, in ticks
    Tries,         \* LLM_RETRY_ATTEMPTS as tenacity reads it: calls in all
    MaxRetries     \* LLM_RETRY_ATTEMPTS as RetryPolicy reads it: after the first

Providers == 1..NumProviders

ASSUME CallerAssumption == Guarded \subseteq Callers /\ Streaming \subseteq Callers \ Guarded
ASSUME ProviderAssumption == NumProviders \in Nat \ {0} /\ Swallowing \subseteq Providers
ASSUME LimitAssumption ==
    /\ Threshold \in Nat \ {0} /\ Recovery \in Nat
    /\ Tries \in Nat \ {0} /\ MaxRetries \in Nat

VARIABLES
    pc,       \* where each caller is
    at,       \* the provider it is at
    tries,    \* calls of that provider so far, in this round
    attempt,  \* RetryPolicy's attempt
    calls,    \* upstream calls made for this question
    breaker   \* of each provider

vars == <<pc, at, tries, attempt, calls, breaker>>

\* "waiting": tenacity's pause before the same provider is called again.
\* "sleeping": RetryPolicy's pause before the whole chain is tried again.
CallerState == {"idle", "calling", "waiting", "sleeping", "answered", "failed"}

\* failure_count is only compared with the threshold, and the time since the last
\* failure only with the recovery timeout: both stop where they decide.
Breaker == [state : {"CLOSED", "OPEN", "HALF-OPEN"}, count : 0..Threshold, since : 0..Recovery + 1]

InChain(c) == pc[c] \in {"calling", "waiting"}
Busy(c)    == InChain(c) \/ pc[c] = "sleeping"

Init ==
    /\ pc = [c \in Callers |-> "idle"]
    /\ at = [c \in Callers |-> 0]
    /\ tries = [c \in Callers |-> 0]
    /\ attempt = [c \in Callers |-> 0]
    /\ calls = [c \in Callers |-> 0]
    /\ breaker = [p \in Providers |-> [state |-> "CLOSED", count |-> 0, since |-> Recovery + 1]]

----------------------------------------------------------------------------
(* A provider's breaker *)

\* is_available
Available(b) == b.state # "OPEN" \/ b.since > Recovery

\* What is_available leaves behind when it lets a call through.
Admitted(b) == [b EXCEPT !.state = IF @ = "OPEN" THEN "HALF-OPEN" ELSE @]

\* Mutant: a success closes the breaker and keeps the count.
SuccessKeepsCount(b) == [b EXCEPT !.state = "CLOSED"]

\* record_success
Success(b) == [state |-> "CLOSED", count |-> 0, since |-> b.since]

\* record_failure
Failure(b) ==
    LET n == IF b.count < Threshold THEN b.count + 1 ELSE Threshold
    IN  [state |-> IF n >= Threshold THEN "OPEN" ELSE b.state, count |-> n, since |-> 0]

----------------------------------------------------------------------------
(* FallbackProvider *)

\* The question is over, one way or the other, after n upstream calls.
Ended(c, outcome, n) ==
    /\ pc' = [pc EXCEPT ![c] = outcome]
    /\ at' = [at EXCEPT ![c] = 0]
    /\ tries' = [tries EXCEPT ![c] = 0]
    /\ attempt' = [attempt EXCEPT ![c] = 0]
    /\ calls' = [calls EXCEPT ![c] = n]

\* The chain from provider i on, in attempt k, after n upstream calls and with these
\* breakers: the first available provider is called.  If there is none RuntimeError
\* is raised, which nobody retries (a stream ends with an error text instead).
CallFrom(c, i, b, k, n) ==
    LET available == {p \in i..NumProviders : Available(b[p])}
    IN  IF available = {}
        THEN Ended(c, "failed", n) /\ breaker' = b
        ELSE \E p \in available :
             /\ \A q \in available : p <= q
             /\ pc' = [pc EXCEPT ![c] = "calling"]
             /\ at' = [at EXCEPT ![c] = p]
             /\ tries' = [tries EXCEPT ![c] = 1]
             /\ attempt' = [attempt EXCEPT ![c] = k]
             /\ calls' = [calls EXCEPT ![c] = n + 1]
             /\ breaker' = [b EXCEPT ![p] = Admitted(@)]

Ask(c) == ~Busy(c) /\ CallFrom(c, 1, breaker, 1, 0)

\* The provider answers (a stream, having been read to its end).
Succeed(c) ==
    /\ pc[c] = "calling"
    /\ breaker' = [breaker EXCEPT ![at[c]] = Success(@)]
    /\ Ended(c, "answered", calls[c])

\* The provider raises for the last time: on to the next one.
GiveUpOn(c) == CallFrom(c, at[c] + 1, [breaker EXCEPT ![at[c]] = Failure(@)], attempt[c], calls[c])

\* ask raises: tenacity waits and tries the same provider again, whatever its
\* breaker says by then, or has tried often enough.
Fail(c) ==
    /\ pc[c] = "calling" /\ c \notin Streaming
    /\ \/ /\ tries[c] < Tries
          /\ pc' = [pc EXCEPT ![c] = "waiting"]
          /\ UNCHANGED <<at, tries, attempt, calls, breaker>>
       \/ tries[c] >= Tries /\ GiveUpOn(c)

Again(c) ==
    /\ pc[c] = "waiting"
    /\ pc' = [pc EXCEPT ![c] = "calling"]
    /\ tries' = [tries EXCEPT ![c] = @ + 1]
    /\ calls' = [calls EXCEPT ![c] = @ + 1]
    /\ UNCHANGED <<at, attempt, breaker>>

\* A stream breaks.  The providers of the application turn the exception into a last
\* chunk of text, which FallbackProvider takes for an answer; one that raises makes
\* it start the answer anew with the next provider.
StreamBreaks(c) ==
    /\ pc[c] = "calling" /\ c \in Streaming
    /\ IF at[c] \in Swallowing
       THEN /\ breaker' = [breaker EXCEPT ![at[c]] = Success(@)]
            /\ Ended(c, "answered", calls[c])
       ELSE GiveUpOn(c)

----------------------------------------------------------------------------
(* RetryPolicy around TimeoutController *)

\* wait_for cancels the chain where it is, so no breaker hears of it.  A timeout is
\* what RetryPolicy retries.
TimeOut(c) ==
    /\ c \in Guarded /\ InChain(c)
    /\ IF attempt[c] > MaxRetries
       THEN Ended(c, "failed", calls[c])
       ELSE /\ pc' = [pc EXCEPT ![c] = "sleeping"]
            /\ at' = [at EXCEPT ![c] = 0]
            /\ tries' = [tries EXCEPT ![c] = 0]
            /\ UNCHANGED <<attempt, calls>>
    /\ UNCHANGED breaker

\* Mutant: each retry starts counting afresh.
WakeAfresh(c) ==
    /\ pc[c] = "sleeping"
    /\ CallFrom(c, 1, breaker, 1, calls[c])

\* The pause is over: the whole chain again, from the primary.
Wake(c) ==
    /\ pc[c] = "sleeping"
    /\ CallFrom(c, 1, breaker, attempt[c] + 1, calls[c])

\* The caller is cancelled (or the stream's reader goes away): nothing is recorded.
Cancel(c) ==
    /\ Busy(c)
    /\ Ended(c, "idle", 0)
    /\ UNCHANGED breaker

Tick ==
    /\ breaker' = [p \in Providers |->
           [breaker[p] EXCEPT !.since = IF @ <= Recovery THEN @ + 1 ELSE @]]
    /\ UNCHANGED <<pc, at, tries, attempt, calls>>

Next ==
    \/ \E c \in Callers :
          \/ Ask(c) \/ Succeed(c) \/ Fail(c) \/ Again(c) \/ StreamBreaks(c)
          \/ TimeOut(c) \/ Wake(c) \/ Cancel(c)
    \/ Tick

Spec == Init /\ [][Next]_vars

----------------------------------------------------------------------------
(* Properties *)

\* The variables keep their ranges.
TypeOK ==
    /\ pc \in [Callers -> CallerState]
    /\ at \in [Callers -> 0..NumProviders]
    /\ tries \in [Callers -> 0..Tries]
    /\ attempt \in [Callers -> 0..MaxRetries + 1]
    /\ calls \in [Callers -> Nat]
    /\ breaker \in [Providers -> Breaker]

\* However late answers, failures and probes of several callers mix, a provider is
\* shunned exactly because of as many failures as it takes since its last success:
\* a success that comes in late never leaves a breaker closed that a single failure
\* would open, nor does a late failure open one early
\* (fallback_provider.py:20-37, 46-68).
TrippedIffThreshold ==
    \A p \in Providers : breaker[p].state # "CLOSED" <=> breaker[p].count = Threshold

\* Three layers repeat a question: tenacity, the chain of providers, the retry
\* policy.  Together they make no more upstream calls for one guarded question than
\* the product of their limits, and none of them repeats what another has given up
\* (retry_policy.py:99-139, fallback_provider.py:46-68).
CallsBounded ==
    \A c \in Callers :
        calls[c] <= (IF c \in Guarded THEN MaxRetries + 1 ELSE 1) * NumProviders * Tries

=============================================================================
