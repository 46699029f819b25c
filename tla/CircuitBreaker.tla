--------------------------- MODULE CircuitBreaker ---------------------------
(***************************************************************************)
(* app/reliability/circuit_breaker.py with the FailureTracker it owns      *)
(* (app/reliability/failure_tracker.py).                                   *)
(*                                                                         *)
(* The callers are asyncio tasks on one event loop, so a step runs from    *)
(* one await to the next: everything `call` does before it awaits the      *)
(* protected coroutine is one action, everything it does once the          *)
(* coroutine ends is another.  Time is kept as ages (of the last trip, of  *)
(* every recorded failure), saturating just beyond the timeout they are    *)
(* compared with, so that no bound on the clock is needed.                 *)
(***************************************************************************)
EXTENDS Naturals, FiniteSets

CONSTANTS
    Callers,           \* the tasks that use the breaker
    Threshold,         \* failure_threshold
    RecoveryTimeout,   \* recovery_timeout, in ticks
    HalfOpenMax,       \* half_open_max_calls
    Window,            \* FailureTracker.window_seconds, in ticks
    MaxRecords,        \* FailureTracker.max_records (the deque's maxlen)
    FallbackSuspends   \* there is a fallback, and it awaits something

ASSUME CallersAssumption == IsFiniteSet(Callers)
ASSUME LimitsAssumption ==
    /\ Threshold \in Nat
    /\ RecoveryTimeout \in Nat
    /\ HalfOpenMax \in Nat
    /\ Window \in Nat
    /\ MaxRecords \in Nat \ {0}
    /\ FallbackSuspends \in BOOLEAN

VARIABLES
    circuit,        \* _state
    openAge,        \* ticks since _opened_at, saturating beyond RecoveryTimeout
    halfOpenCalls,  \* _half_open_calls
    failureAge,     \* _failures, newest first; Expired: empty, or out of the window
    pc,             \* where each caller is
    loopStuck       \* the loop's thread is blocked on _lock

vars == <<circuit, openAge, halfOpenCalls, failureAge, pc, loopStuck>>

CircuitState == {"CLOSED", "OPEN", "HALF_OPEN"}

\* "call": in the coroutine, admitted while CLOSED.  "probe": in the coroutine,
\* admitted since _half_open_calls was last reset.  "stale": a probe from before
\* that reset.  "fallback", "lockedFallback": in a suspended fallback, the
\* second one inside `with self._lock`.
CallerState == {"idle", "call", "probe", "stale", "fallback", "lockedFallback"}

InFlight == {c \in Callers : pc[c] \in {"call", "probe", "stale"}}
Probes   == {c \in Callers : pc[c] = "probe"}

----------------------------------------------------------------------------
(* The failure tracker *)

Slots   == 1..MaxRecords
Expired == Window + 1

NoFailures == [i \in Slots |-> Expired]

\* record_failure: the bounded deque drops its oldest record when it is full.
RecordFailure(ages) == [i \in Slots |-> IF i = 1 THEN 0 ELSE ages[i - 1]]

\* window_failures of get_stats
WindowFailures(ages) == Cardinality({i \in Slots : ages[i] <= Window})

----------------------------------------------------------------------------
(* The state property and the lock *)

RecoveryElapsed == openAge >= RecoveryTimeout

\* Reading `state` starts the HALF_OPEN period once its time has come: the
\* state, _half_open_calls and the callers as the reader finds them.
PeriodStarts == circuit = "OPEN" /\ RecoveryElapsed
SeenState    == IF PeriodStarts THEN "HALF_OPEN" ELSE circuit

SeenCalls    == IF PeriodStarts THEN 0 ELSE halfOpenCalls

SeenPc ==
    IF PeriodStarts
    THEN [c \in Callers |-> IF pc[c] = "probe" THEN "stale" ELSE pc[c]]
    ELSE pc

LockHeld == \E c \in Callers : pc[c] = "lockedFallback"

\* `with self._lock` goes through: no suspended task owns the lock.
LockFree == ~loopStuck /\ ~LockHeld

Init ==
    /\ circuit = "CLOSED"
    /\ openAge = 0
    /\ halfOpenCalls = 0
    /\ failureAge = NoFailures
    /\ pc = [c \in Callers |-> "idle"]
    /\ loopStuck = FALSE

----------------------------------------------------------------------------
(* call() up to its first await *)

CallClosed(c) ==
    /\ LockFree
    /\ pc[c] = "idle"
    /\ SeenState = "CLOSED"
    /\ pc' = [pc EXCEPT ![c] = "call"]
    /\ UNCHANGED <<circuit, openAge, halfOpenCalls, failureAge, loopStuck>>

CallProbe(c) ==
    /\ LockFree
    /\ pc[c] = "idle"
    /\ SeenState = "HALF_OPEN"
    /\ SeenCalls < HalfOpenMax
    /\ circuit' = "HALF_OPEN"
    /\ halfOpenCalls' = SeenCalls + 1
    /\ pc' = [SeenPc EXCEPT ![c] = "probe"]
    /\ UNCHANGED <<openAge, failureAge, loopStuck>>

\* Mutant: a call that is turned away counts as a new trip.
CallOpenRestarts(c) ==
    /\ LockFree
    /\ pc[c] = "idle"
    /\ SeenState = "OPEN"
    /\ openAge' = 0
    /\ pc' = IF FallbackSuspends THEN [pc EXCEPT ![c] = "fallback"] ELSE pc
    /\ UNCHANGED <<circuit, halfOpenCalls, failureAge, loopStuck>>

\* _handle_open raises CircuitOpenError or runs the fallback, where the caller
\* stays only if the fallback suspends.
CallOpen(c) ==
    /\ LockFree
    /\ pc[c] = "idle"
    /\ SeenState = "OPEN"
    /\ pc' = IF FallbackSuspends THEN [pc EXCEPT ![c] = "fallback"] ELSE pc
    /\ UNCHANGED <<circuit, openAge, halfOpenCalls, failureAge, loopStuck>>

\* No probe slot is left; here _handle_open is awaited inside `with self._lock`.
CallSaturated(c) ==
    /\ LockFree
    /\ pc[c] = "idle"
    /\ SeenState = "HALF_OPEN"
    /\ SeenCalls >= HalfOpenMax
    /\ circuit' = "HALF_OPEN"
    /\ halfOpenCalls' = SeenCalls
    /\ pc' = IF FallbackSuspends THEN [SeenPc EXCEPT ![c] = "lockedFallback"] ELSE SeenPc
    /\ UNCHANGED <<openAge, failureAge, loopStuck>>

----------------------------------------------------------------------------
(* call() after its await *)

\* Mutant: a success closes the circuit whatever its state.
SucceedAlwaysCloses(c) ==
    /\ LockFree
    /\ c \in InFlight
    /\ circuit' = "CLOSED"
    /\ pc' = [pc EXCEPT ![c] = "idle"]
    /\ UNCHANGED <<openAge, halfOpenCalls, failureAge, loopStuck>>

\* _on_success
Succeed(c) ==
    /\ LockFree
    /\ c \in InFlight
    /\ circuit' = IF circuit = "HALF_OPEN" THEN "CLOSED" ELSE circuit
    /\ pc' = [pc EXCEPT ![c] = "idle"]
    /\ UNCHANGED <<openAge, halfOpenCalls, failureAge, loopStuck>>

\* Mutant: _on_failure does not test the state.
FailReopensOpen(c) ==
    /\ LockFree
    /\ c \in InFlight
    /\ failureAge' = RecordFailure(failureAge)
    /\ IF WindowFailures(failureAge') >= Threshold
       THEN circuit' = "OPEN" /\ openAge' = 0
       ELSE UNCHANGED <<circuit, openAge>>
    /\ pc' = [pc EXCEPT ![c] = "idle"]
    /\ UNCHANGED <<halfOpenCalls, loopStuck>>

\* _on_failure
Fail(c) ==
    /\ LockFree
    /\ c \in InFlight
    /\ failureAge' = RecordFailure(failureAge)
    /\ IF circuit # "OPEN" /\ WindowFailures(failureAge') >= Threshold
       THEN circuit' = "OPEN" /\ openAge' = 0
       ELSE UNCHANGED <<circuit, openAge>>
    /\ pc' = [pc EXCEPT ![c] = "idle"]
    /\ UNCHANGED <<halfOpenCalls, loopStuck>>

\* Mutant: a cancelled call gives back a slot, if it ever took one or not.
CancelledReturnsSlot(c) ==
    /\ ~loopStuck
    /\ c \in InFlight
    /\ pc' = [pc EXCEPT ![c] = "idle"]
    /\ halfOpenCalls' = IF halfOpenCalls > 0 THEN halfOpenCalls - 1 ELSE 0
    /\ UNCHANGED <<circuit, openAge, failureAge, loopStuck>>

\* The task is cancelled inside the coroutine.  CancelledError is no Exception:
\* neither _on_success nor _on_failure runs.
Cancelled(c) ==
    /\ ~loopStuck
    /\ c \in InFlight
    /\ pc' = [pc EXCEPT ![c] = "idle"]
    /\ UNCHANGED <<circuit, openAge, halfOpenCalls, failureAge, loopStuck>>

\* A suspended fallback ends and, if it was entered so, leaves `with self._lock`.
FallbackEnds(c) ==
    /\ ~loopStuck
    /\ pc[c] \in {"fallback", "lockedFallback"}
    /\ pc' = [pc EXCEPT ![c] = "idle"]
    /\ UNCHANGED <<circuit, openAge, halfOpenCalls, failureAge, loopStuck>>

\* A task reaches `with self._lock` while a suspended task owns it: the loop's
\* thread waits for a lock whose owner only that thread could resume.
BlockLoop(c) ==
    /\ ~loopStuck
    /\ LockHeld
    /\ pc[c] = "idle" \/ c \in InFlight
    /\ loopStuck' = TRUE
    /\ UNCHANGED <<circuit, openAge, halfOpenCalls, failureAge, pc>>

----------------------------------------------------------------------------
(* The other entry points, and time *)

\* The `state` property read by anything but call().
InspectState ==
    /\ LockFree
    /\ circuit' = SeenState
    /\ halfOpenCalls' = SeenCalls
    /\ pc' = SeenPc
    /\ UNCHANGED <<openAge, failureAge, loopStuck>>

ForceOpen ==
    /\ LockFree
    /\ circuit' = "OPEN"
    /\ openAge' = 0
    /\ UNCHANGED <<halfOpenCalls, failureAge, pc, loopStuck>>

ForceClose ==
    /\ LockFree
    /\ circuit' = "CLOSED"
    /\ failureAge' = NoFailures
    /\ UNCHANGED <<openAge, halfOpenCalls, pc, loopStuck>>

Tick ==
    /\ openAge' = IF openAge <= RecoveryTimeout THEN openAge + 1 ELSE openAge
    /\ failureAge' = [i \in Slots |->
                        IF failureAge[i] < Expired THEN failureAge[i] + 1 ELSE Expired]
    /\ UNCHANGED <<circuit, halfOpenCalls, pc, loopStuck>>

----------------------------------------------------------------------------

Calling(c)   == CallClosed(c) \/ CallProbe(c) \/ CallOpen(c) \/ CallSaturated(c)
Returning(c) == Succeed(c) \/ Fail(c) \/ Cancelled(c) \/ FallbackEnds(c)

Serve == \E c \in Callers : Calling(c) \/ Returning(c) \/ BlockLoop(c)
Forced == ForceOpen \/ ForceClose

Next == Serve \/ InspectState \/ Forced \/ Tick

Spec == Init /\ [][Next]_vars

\* The clock runs, what is under the breaker ends (the timeout inside it sees to
\* that) and there is always a next call.
FairSpec ==
    /\ Spec
    /\ WF_vars(Tick)
    /\ \A c \in Callers : WF_vars(Returning(c)) /\ WF_vars(Calling(c))

\* Nobody forces the circuit.
ServingSpec == Init /\ [][Serve \/ InspectState \/ Tick]_vars

----------------------------------------------------------------------------
(* Properties *)

\* The variables keep their ranges; _half_open_calls never passes its limit.
TypeOK ==
    /\ circuit \in CircuitState
    /\ openAge \in 0..(RecoveryTimeout + 1)
    /\ halfOpenCalls \in 0..HalfOpenMax
    /\ failureAge \in [Slots -> 0..Expired]
    /\ pc \in [Callers -> CallerState]
    /\ loopStuck \in BOOLEAN

\* Whatever mix of successes, failures and cancellations ends the probes, the
\* coroutines admitted by one HALF_OPEN period never outnumber the slots it has
\* handed out (circuit_breaker.py:133-137).
ProbesAccounted ==
    /\ Cardinality(Probes) <= halfOpenCalls
    /\ halfOpenCalls <= HalfOpenMax

\* From a trip until recovery_timeout the upstream is shielded: no coroutine is
\* started, and no answer to a call made before the trip closes the circuit or
\* prolongs the outage; only the operator does (circuit_breaker.py:104-172).
OpenShields ==
    [][circuit = "OPEN" /\ ~RecoveryElapsed =>
          /\ InFlight' \subseteq InFlight
          /\ circuit' = "OPEN" \/ ForceClose
          /\ openAge' >= openAge \/ ForceOpen]_vars

Eager == INSTANCE Breaker WITH
    state <- SeenState,
    left <- IF SeenState = "OPEN" THEN RecoveryTimeout - openAge ELSE 0,
    used <- IF SeenState = "HALF_OPEN" THEN SeenCalls ELSE 0,
    inside <- InFlight

\* A breaker that notices the end of an outage only when it is asked, that answers
\* reach in any order and at any time, and whose slots outlive a period, lets in
\* whom one that ends its outages by the clock would (circuit_breaker.py:104-193).
LazyBreakerIsEager == Eager!Spec

\* With calls coming in an outage ends, though no timer ends it: the circuit
\* leaves OPEN, unless the operator forces it open for ever or a suspended
\* fallback has blocked the loop (circuit_breaker.py:107-110, 128).
OutageEnds ==
    \/ circuit = "OPEN" ~> circuit # "OPEN" \/ loopStuck
    \/ []<><<ForceOpen>>_vars

\* Documented, and not so: half_open_max_calls is "Max probe calls allowed in
\* HALF_OPEN before deciding" (circuit_breaker.py:62).  Slots are not given back
\* by a cancelled probe, so all may be spent with nothing left that can decide.
HalfOpenDecides ==
    circuit = "HALF_OPEN" /\ halfOpenCalls >= HalfOpenMax => InFlight # {}

=============================================================================
