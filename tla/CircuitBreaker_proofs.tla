----------------------- MODULE CircuitBreaker_proofs -----------------------
(***************************************************************************)
(* Proofs about CircuitBreaker for every set of callers and every value of *)
(* the limits: its type invariant, the accounting of probes, the shielding *)
(* of the upstream during an outage, and that it implements Breaker.       *)
(***************************************************************************)
EXTENDS CircuitBreaker, FiniteSetTheorems, TLAPS

\* Reading `state` keeps the types of what it may change, whether or not it
\* starts a HALF_OPEN period.
LEMMA SeenType ==
    ASSUME TypeOK
    PROVE  /\ SeenState \in CircuitState
           /\ SeenCalls \in 0..HalfOpenMax
           /\ SeenPc \in [Callers -> CallerState]
  <1>1. SeenState \in CircuitState
    BY DEF TypeOK, SeenState, CircuitState
  <1>2. SeenCalls \in 0..HalfOpenMax
    BY LimitsAssumption DEF TypeOK, SeenCalls
  <1>3. SeenPc \in [Callers -> CallerState]
    BY DEF TypeOK, SeenPc, CallerState
  <1>4. QED
    BY <1>1, <1>2, <1>3

\* A recorded failure leaves MaxRecords ages in range: the newest is zero and
\* the oldest is gone.
LEMMA RecordFailureType ==
    ASSUME NEW ages \in [Slots -> 0..Expired]
    PROVE  RecordFailure(ages) \in [Slots -> 0..Expired]
  <1>1. ASSUME NEW i \in Slots, i # 1
        PROVE  i - 1 \in Slots
    BY <1>1, LimitsAssumption DEF Slots
  <1>2. 0 \in 0..Expired
    BY LimitsAssumption DEF Expired
  <1>3. QED
    BY <1>1, <1>2 DEF RecordFailure

\* Every variable of the breaker keeps its range, _half_open_calls within
\* 0..half_open_max_calls included (circuit_breaker.py:94-97, 133-137).
THEOREM TypeCorrect == Spec => []TypeOK
  <1>1. Init => TypeOK
    <2>1. NoFailures \in [Slots -> 0..Expired]
      BY LimitsAssumption DEF NoFailures, Expired
    <2>2. 0 \in 0..(RecoveryTimeout + 1) /\ 0 \in 0..HalfOpenMax
      BY LimitsAssumption
    <2>3. QED
      BY <2>1, <2>2 DEF Init, TypeOK, CircuitState, CallerState
  <1>2. TypeOK /\ [Next]_vars => TypeOK'
    <2> SUFFICES ASSUME TypeOK, [Next]_vars
                 PROVE  TypeOK'
      OBVIOUS
    <2>0. /\ SeenState \in CircuitState
          /\ SeenCalls \in 0..HalfOpenMax
          /\ SeenPc \in [Callers -> CallerState]
      BY SeenType
    <2>1. ASSUME NEW c \in Callers, CallClosed(c) PROVE TypeOK'
      BY <2>1 DEF CallClosed, TypeOK, CallerState
    <2>2. ASSUME NEW c \in Callers, CallProbe(c) PROVE TypeOK'
      <3>1. halfOpenCalls' \in 0..HalfOpenMax
        BY <2>0, <2>2, LimitsAssumption DEF CallProbe
      <3>2. QED
        BY <2>0, <2>2, <3>1 DEF CallProbe, TypeOK, CallerState, CircuitState
    <2>3. ASSUME NEW c \in Callers, CallOpen(c) PROVE TypeOK'
      BY <2>3 DEF CallOpen, TypeOK, CallerState
    <2>4. ASSUME NEW c \in Callers, CallSaturated(c) PROVE TypeOK'
      BY <2>0, <2>4 DEF CallSaturated, TypeOK, CallerState, CircuitState
    <2>5. ASSUME NEW c \in Callers, Succeed(c) PROVE TypeOK'
      BY <2>5 DEF Succeed, TypeOK, CallerState, CircuitState
    <2>6. ASSUME NEW c \in Callers, Fail(c) PROVE TypeOK'
      <3>1. failureAge' \in [Slots -> 0..Expired]
        BY <2>6, RecordFailureType DEF Fail, TypeOK
      <3>2. circuit' \in CircuitState /\ openAge' \in 0..(RecoveryTimeout + 1)
        BY <2>6, LimitsAssumption DEF Fail, TypeOK, CircuitState
      <3>3. pc' \in [Callers -> CallerState]
        BY <2>6 DEF Fail, TypeOK, CallerState
      <3>4. QED
        BY <2>6, <3>1, <3>2, <3>3 DEF Fail, TypeOK
    <2>7. ASSUME NEW c \in Callers, Cancelled(c) PROVE TypeOK'
      BY <2>7 DEF Cancelled, TypeOK, CallerState
    <2>8. ASSUME NEW c \in Callers, FallbackEnds(c) PROVE TypeOK'
      BY <2>8 DEF FallbackEnds, TypeOK, CallerState
    <2>9. ASSUME NEW c \in Callers, BlockLoop(c) PROVE TypeOK'
      BY <2>9 DEF BlockLoop, TypeOK
    <2>10. CASE InspectState
      BY <2>0, <2>10 DEF InspectState, TypeOK
    <2>11. CASE ForceOpen
      BY <2>11, LimitsAssumption DEF ForceOpen, TypeOK, CircuitState
    <2>12. CASE ForceClose
      BY <2>12, LimitsAssumption
         DEF ForceClose, TypeOK, CircuitState, NoFailures, Expired
    <2>13. CASE Tick
      <3>1. openAge' \in 0..(RecoveryTimeout + 1)
        BY <2>13, LimitsAssumption DEF Tick, TypeOK
      <3>2. failureAge' \in [Slots -> 0..Expired]
        BY <2>13, LimitsAssumption DEF Tick, TypeOK, Expired
      <3>3. QED
        BY <2>13, <3>1, <3>2 DEF Tick, TypeOK
    <2>14. CASE UNCHANGED vars
      BY <2>14 DEF vars, TypeOK
    <2>15. QED
      BY <2>1, <2>2, <2>3, <2>4, <2>5, <2>6, <2>7, <2>8, <2>9, <2>10, <2>11,
         <2>12, <2>13, <2>14 DEF Next, Serve, Calling, Returning, Forced
  <1>3. QED
    BY <1>1, <1>2, PTL DEF Spec

----------------------------------------------------------------------------
(* Accounting of probes *)

\* Fewer probes and no fewer handed-out slots keep the accounts.
LEMMA FewerProbes ==
    ASSUME TypeOK, TypeOK', ProbesAccounted,
           Probes' \subseteq Probes, halfOpenCalls' = halfOpenCalls
    PROVE  ProbesAccounted'
  <1>1. IsFiniteSet(Probes)
    BY CallersAssumption, FS_Subset DEF Probes
  <1>2. /\ Cardinality(Probes') <= Cardinality(Probes)
        /\ Cardinality(Probes) \in Nat /\ Cardinality(Probes') \in Nat
    BY <1>1, FS_Subset, FS_CardinalityType
  <1>3. QED
    BY <1>2, LimitsAssumption DEF ProbesAccounted, TypeOK

\* The callers that the reader of `state` sees as probes: none, if it starts a
\* HALF_OPEN period.
SeenProbes == {c \in Callers : SeenPc[c] = "probe"}

\* What the reader of `state` sees is accounted for as what it found was.
LEMMA SeenAccounted ==
    ASSUME TypeOK, ProbesAccounted
    PROVE  /\ IsFiniteSet(SeenProbes)
           /\ Cardinality(SeenProbes) \in Nat
           /\ Cardinality(SeenProbes) <= SeenCalls
  <1>1. IsFiniteSet(SeenProbes) /\ Cardinality(SeenProbes) \in Nat
    BY CallersAssumption, FS_Subset, FS_CardinalityType DEF SeenProbes
  <1>2. CASE PeriodStarts
    <2>1. SeenProbes = {}
      BY <1>2 DEF SeenProbes, SeenPc
    <2>2. QED
      BY <1>1, <1>2, <2>1, FS_EmptySet DEF SeenCalls
  <1>3. CASE ~PeriodStarts
    <2>1. SeenProbes = Probes
      BY <1>3 DEF SeenProbes, SeenPc, Probes
    <2>2. QED
      BY <1>1, <1>3, <2>1 DEF SeenCalls, ProbesAccounted
  <1>4. QED
    BY <1>1, <1>2, <1>3

\* No interleaving of calls, answers, cancellations and forced transitions lets
\* more probes run in a HALF_OPEN period than it has handed out slots for
\* (circuit_breaker.py:133-137, 181-182).
THEOREM ProbesAccountedAlways == Spec => []ProbesAccounted
  <1>1. Init => ProbesAccounted
    <2> SUFFICES ASSUME Init PROVE ProbesAccounted
      OBVIOUS
    <2>1. Probes = {}
      BY DEF Init, Probes
    <2>2. QED
      BY <2>1, FS_EmptySet, LimitsAssumption DEF Init, ProbesAccounted
  <1>2. TypeOK /\ TypeOK' /\ ProbesAccounted /\ [Next]_vars => ProbesAccounted'
    <2> SUFFICES ASSUME TypeOK, TypeOK', ProbesAccounted, [Next]_vars
                 PROVE  ProbesAccounted'
      OBVIOUS
    <2>0. /\ IsFiniteSet(SeenProbes)
          /\ Cardinality(SeenProbes) \in Nat
          /\ Cardinality(SeenProbes) <= SeenCalls
          /\ SeenCalls \in 0..HalfOpenMax
      BY SeenAccounted, SeenType
    <2>1. ASSUME NEW c \in Callers, CallClosed(c) PROVE ProbesAccounted'
      <3>1. Probes' \subseteq Probes /\ halfOpenCalls' = halfOpenCalls
        BY <2>1 DEF CallClosed, Probes, TypeOK
      <3>2. QED
        BY <3>1, FewerProbes
    <2>2. ASSUME NEW c \in Callers, CallProbe(c) PROVE ProbesAccounted'
      <3>1. Probes' \subseteq SeenProbes \cup {c}
        BY <2>2, SeenType DEF CallProbe, Probes, SeenProbes
      <3>2. /\ IsFiniteSet(SeenProbes \cup {c})
            /\ Cardinality(SeenProbes \cup {c}) <= Cardinality(SeenProbes) + 1
            /\ Cardinality(SeenProbes \cup {c}) \in Nat
        <4>1. /\ IsFiniteSet(SeenProbes \cup {c})
              /\ Cardinality(SeenProbes \cup {c}) =
                   IF c \in SeenProbes THEN Cardinality(SeenProbes)
                   ELSE Cardinality(SeenProbes) + 1
          BY <2>0, FS_AddElement
        <4>2. QED
          BY <2>0, <4>1
      <3>3. /\ Cardinality(Probes') <= Cardinality(SeenProbes \cup {c})
            /\ Cardinality(Probes') \in Nat
        BY <3>1, <3>2, FS_Subset, FS_CardinalityType
      <3>4. halfOpenCalls' = SeenCalls + 1 /\ halfOpenCalls' <= HalfOpenMax
        BY <2>0, <2>2, LimitsAssumption DEF CallProbe
      <3>5. QED
        BY <2>0, <3>2, <3>3, <3>4, LimitsAssumption DEF ProbesAccounted
    <2>3. ASSUME NEW c \in Callers, CallOpen(c) PROVE ProbesAccounted'
      <3>1. Probes' \subseteq Probes /\ halfOpenCalls' = halfOpenCalls
        BY <2>3 DEF CallOpen, Probes, TypeOK
      <3>2. QED
        BY <3>1, FewerProbes
    <2>4. ASSUME NEW c \in Callers, CallSaturated(c) PROVE ProbesAccounted'
      <3>1. Probes' \subseteq SeenProbes
        BY <2>4, SeenType DEF CallSaturated, Probes, SeenProbes
      <3>2. Cardinality(Probes') <= Cardinality(SeenProbes) /\ Cardinality(Probes') \in Nat
        BY <2>0, <3>1, FS_Subset, FS_CardinalityType
      <3>3. QED
        BY <2>0, <2>4, <3>2, LimitsAssumption DEF CallSaturated, ProbesAccounted
    <2>5. ASSUME NEW c \in Callers, Returning(c) \/ BlockLoop(c) PROVE ProbesAccounted'
      <3>1. Probes' \subseteq Probes /\ halfOpenCalls' = halfOpenCalls
        BY <2>5
           DEF Returning, Succeed, Fail, Cancelled, FallbackEnds, BlockLoop, Probes, TypeOK
      <3>2. QED
        BY <3>1, FewerProbes
    <2>6. CASE InspectState
      <3>1. Probes' = SeenProbes
        BY <2>6 DEF InspectState, Probes, SeenProbes
      <3>2. QED
        BY <2>0, <2>6, <3>1, LimitsAssumption DEF InspectState, ProbesAccounted
    <2>7. CASE Forced \/ Tick \/ UNCHANGED vars
      <3>1. Probes' \subseteq Probes /\ halfOpenCalls' = halfOpenCalls
        BY <2>7 DEF Forced, ForceOpen, ForceClose, Tick, vars, Probes
      <3>2. QED
        BY <3>1, FewerProbes
    <2>8. QED
      BY <2>1, <2>2, <2>3, <2>4, <2>5, <2>6, <2>7 DEF Next, Serve, Calling
  <1>3. QED
    BY <1>1, <1>2, TypeCorrect, PTL DEF Spec

----------------------------------------------------------------------------
(* The outage *)

\* Until recovery_timeout has elapsed nothing but the operator ends or prolongs
\* an outage, and no coroutine is started (circuit_breaker.py:104-172).
THEOREM OutageShieldsUpstream == Spec => OpenShields
  <1> DEFINE Shielded ==
        circuit = "OPEN" /\ ~RecoveryElapsed =>
          /\ InFlight' \subseteq InFlight
          /\ circuit' = "OPEN" \/ ForceClose
          /\ openAge' >= openAge \/ ForceOpen
  <1>1. TypeOK /\ [Next]_vars => [Shielded]_vars
    <2> SUFFICES ASSUME TypeOK, Next, circuit = "OPEN", ~RecoveryElapsed
                 PROVE  /\ InFlight' \subseteq InFlight
                        /\ circuit' = "OPEN" \/ ForceClose
                        /\ openAge' >= openAge \/ ForceOpen
      OBVIOUS
    <2>0. /\ SeenState = "OPEN" /\ SeenPc = pc
          /\ openAge \in Nat /\ openAge >= openAge /\ openAge + 1 >= openAge
      BY LimitsAssumption DEF SeenState, SeenPc, PeriodStarts, TypeOK
    <2>1. ASSUME NEW c \in Callers, Calling(c)
          PROVE  InFlight' \subseteq InFlight /\ circuit' = "OPEN" /\ openAge' >= openAge
      BY <2>0, <2>1
         DEF Calling, CallClosed, CallProbe, CallOpen, CallSaturated, InFlight, TypeOK
    <2>2. ASSUME NEW c \in Callers, Returning(c) \/ BlockLoop(c)
          PROVE  InFlight' \subseteq InFlight /\ circuit' = "OPEN" /\ openAge' >= openAge
      BY <2>0, <2>2
         DEF Returning, Succeed, Fail, Cancelled, FallbackEnds, BlockLoop, InFlight, TypeOK
    <2>3. CASE InspectState
      BY <2>0, <2>3 DEF InspectState, InFlight
    <2>4. CASE Forced
      BY <2>0, <2>4 DEF Forced, ForceOpen, ForceClose, InFlight
    <2>5. CASE Tick
      BY <2>0, <2>5 DEF Tick, InFlight
    <2>6. QED
      BY <2>1, <2>2, <2>3, <2>4, <2>5 DEF Next, Serve
  <1>2. QED
    BY <1>1, TypeCorrect, PTL DEF Spec, OpenShields

----------------------------------------------------------------------------
(* The breaker without a timer, and the one with it *)

Left == IF SeenState = "OPEN" THEN RecoveryTimeout - openAge ELSE 0
Used == IF SeenState = "HALF_OPEN" THEN SeenCalls ELSE 0

Seen == <<SeenState, Left, Used>>

\* Whether the reader of `state` starts the period of probing or finds it begun,
\* he finds the same.
LEMMA ReadingChangesNothing ==
    ASSUME openAge' = openAge, circuit' = SeenState, halfOpenCalls' = SeenCalls
    PROVE  UNCHANGED Seen
  <1>1. CASE PeriodStarts
    BY <1>1 DEF Seen, Left, Used, PeriodStarts, RecoveryElapsed, SeenState, SeenCalls
  <1>2. CASE ~PeriodStarts
    BY <1>2 DEF Seen, Left, Used, PeriodStarts, RecoveryElapsed, SeenState, SeenCalls
  <1>3. QED
    BY <1>1, <1>2

LEMMA NothingRead ==
    ASSUME UNCHANGED <<circuit, openAge, halfOpenCalls>>
    PROVE  UNCHANGED Seen
  BY DEF Seen, Left, Used, PeriodStarts, RecoveryElapsed, SeenState, SeenCalls

\* Closing the circuit and tripping it are Closes and Trips of the abstract breaker.
LEMMA ClosingCloses == ASSUME circuit' = "CLOSED" PROVE Eager!Closes
  BY DEF Eager!Closes, PeriodStarts, SeenState

LEMMA TrippingTrips ==
    ASSUME circuit' = "OPEN", openAge' = 0
    PROVE  Eager!Trips
  BY LimitsAssumption DEF Eager!Trips, PeriodStarts, RecoveryElapsed, SeenState, SeenCalls

LEMMA SameSeen == ASSUME UNCHANGED Seen PROVE Eager!Same
  BY DEF Eager!Same, Seen, Left, Used

\* Calls: a caller who goes in is admitted, or takes a slot; whoever is turned away
\* leaves the abstract breaker as it is.
LEMMA CallingRefines ==
    ASSUME TypeOK, NEW c \in Callers, Calling(c)
    PROVE  \/ Eager!Admit(c) \/ Eager!Probe(c)
           \/ UNCHANGED <<Seen, InFlight>>
  <1>1. CASE CallClosed(c)
    <2>1. InFlight' = InFlight \cup {c}
      BY <1>1 DEF CallClosed, InFlight, TypeOK
    <2>2. Eager!Same
      BY <1>1, NothingRead, SameSeen DEF CallClosed
    <2>3. QED
      BY <1>1, <2>1, <2>2 DEF CallClosed, Eager!Admit, Eager!Same
  <1>2. CASE CallProbe(c)
    <2>1. InFlight' = InFlight \cup {c}
      BY <1>2 DEF CallProbe, InFlight, SeenPc, TypeOK
    <2>2. SeenState' = "HALF_OPEN" /\ SeenCalls' = SeenCalls + 1
      BY <1>2 DEF CallProbe, SeenState, SeenCalls, PeriodStarts
    <2>3. QED
      BY <1>2, <2>1, <2>2 DEF CallProbe, Eager!Probe
  <1>3. CASE CallOpen(c)
    <2>1. InFlight' = InFlight
      BY <1>3 DEF CallOpen, InFlight, TypeOK
    <2>2. QED
      BY <1>3, <2>1, NothingRead DEF CallOpen
  <1>4. CASE CallSaturated(c)
    <2>1. InFlight' = InFlight
      BY <1>4 DEF CallSaturated, InFlight, SeenPc, TypeOK
    <2>2. QED
      BY <1>4, <2>1, ReadingChangesNothing DEF CallSaturated
  <1>5. QED
    BY <1>1, <1>2, <1>3, <1>4 DEF Calling

\* Whatever ends a call, however late, is an Answer.  One that comes when the
\* outage is over and nobody has noticed finds the circuit OPEN: it decides
\* nothing.
LEMMA ReturningRefines ==
    ASSUME TypeOK, NEW c \in Callers, Returning(c)
    PROVE  Eager!Answer(c) \/ UNCHANGED <<Seen, InFlight>>
  <1>1. CASE FallbackEnds(c)
    <2>1. InFlight' = InFlight
      BY <1>1 DEF FallbackEnds, InFlight, TypeOK
    <2>2. QED
      BY <1>1, <2>1, NothingRead DEF FallbackEnds
  <1>2. ASSUME Succeed(c) \/ Fail(c) \/ Cancelled(c)
        PROVE  c \in InFlight /\ InFlight' = InFlight \ {c}
    BY <1>2 DEF Succeed, Fail, Cancelled, InFlight, TypeOK
  <1>3. CASE Succeed(c)
    <2>1. CASE circuit = "HALF_OPEN"
      <3>1. SeenState = "HALF_OPEN" /\ Eager!Closes
        BY <1>3, <2>1, ClosingCloses DEF Succeed, SeenState, PeriodStarts
      <3>2. QED
        BY <1>2, <1>3, <3>1 DEF Eager!Answer
    <2>2. CASE circuit # "HALF_OPEN"
      <3>1. Eager!Same
        BY <1>3, <2>2, NothingRead, SameSeen DEF Succeed
      <3>2. QED
        BY <1>2, <1>3, <3>1 DEF Eager!Answer
    <2>3. QED
      BY <2>1, <2>2
  <1>4. CASE Fail(c)
    <2>1. CASE circuit # "OPEN" /\ WindowFailures(failureAge') >= Threshold
      <3>1. SeenState # "OPEN" /\ Eager!Trips
        BY <1>4, <2>1, TrippingTrips DEF Fail, SeenState, PeriodStarts
      <3>2. QED
        BY <1>2, <1>4, <3>1 DEF Eager!Answer
    <2>2. CASE ~(circuit # "OPEN" /\ WindowFailures(failureAge') >= Threshold)
      <3>1. Eager!Same
        BY <1>4, <2>2, NothingRead, SameSeen DEF Fail
      <3>2. QED
        BY <1>2, <1>4, <3>1 DEF Eager!Answer
    <2>3. QED
      BY <2>1, <2>2
  <1>5. CASE Cancelled(c)
    <2>1. Eager!Same
      BY <1>5, NothingRead, SameSeen DEF Cancelled
    <2>2. QED
      BY <1>2, <1>5, <2>1 DEF Eager!Answer
  <1>6. QED
    BY <1>1, <1>3, <1>4, <1>5 DEF Returning

\* The clock counts an outage down; at its end the period begins, with all slots.
LEMMA TickRefines ==
    ASSUME TypeOK, Tick
    PROVE  Eager!Elapse \/ UNCHANGED <<Seen, InFlight>>
  <1>0. InFlight' = InFlight
    BY DEF Tick, InFlight
  <1>1. CASE SeenState = "OPEN"
    <2>1. /\ circuit = "OPEN" /\ circuit' = "OPEN"
          /\ openAge \in Nat /\ openAge < RecoveryTimeout /\ openAge' = openAge + 1
      BY <1>1, LimitsAssumption DEF SeenState, PeriodStarts, RecoveryElapsed, Tick, TypeOK
    <2>2. CASE openAge' = RecoveryTimeout
      <3>1. SeenState' = "HALF_OPEN" /\ SeenCalls' = 0
        BY <2>1, <2>2, LimitsAssumption DEF SeenState, SeenCalls, PeriodStarts, RecoveryElapsed
      <3>2. QED
        BY <1>0, <1>1, <2>1, <2>2, <3>1, LimitsAssumption DEF Eager!Elapse
    <2>3. CASE openAge' # RecoveryTimeout
      <3>1. SeenState' = "OPEN"
        BY <2>1, <2>3, LimitsAssumption DEF SeenState, PeriodStarts, RecoveryElapsed
      <3>2. QED
        BY <1>0, <1>1, <2>1, <2>3, <3>1, LimitsAssumption DEF Eager!Elapse
    <2>4. QED
      BY <2>2, <2>3
  <1>2. CASE SeenState # "OPEN"
    <2>1. PeriodStarts' = PeriodStarts /\ UNCHANGED <<circuit, halfOpenCalls>>
      BY <1>2, LimitsAssumption DEF SeenState, PeriodStarts, RecoveryElapsed, Tick, TypeOK
    <2>2. UNCHANGED <<SeenState, SeenCalls>>
      BY <2>1 DEF SeenState, SeenCalls
    <2>3. QED
      BY <1>0, <1>2, <2>2 DEF Seen, Left, Used
  <1>3. QED
    BY <1>1, <1>2

\* For every timeout and number of slots, and with answers coming in any order and
\* at any time, the breaker that looks at the time only when it is asked implements
\* the one that ends its outages by the clock (circuit_breaker.py:104-193).
THEOREM Refinement == Spec => LazyBreakerIsEager
  <1>1. Init => Eager!Init
    BY DEF Init, Eager!Init, InFlight, SeenState, PeriodStarts
  <1>2. TypeOK /\ [Next]_vars
          => [Eager!Next]_<<SeenState, Left, Used, InFlight>>
    <2> SUFFICES ASSUME TypeOK, [Next]_vars
                 PROVE  Eager!Next \/ UNCHANGED <<Seen, InFlight>>
      BY DEF Seen
    <2>1. ASSUME NEW c \in Callers, Calling(c)
          PROVE  Eager!Next \/ UNCHANGED <<Seen, InFlight>>
      BY <2>1, CallingRefines DEF Eager!Next
    <2>2. ASSUME NEW c \in Callers, Returning(c)
          PROVE  Eager!Next \/ UNCHANGED <<Seen, InFlight>>
      BY <2>2, ReturningRefines DEF Eager!Next
    <2>3. ASSUME NEW c \in Callers, BlockLoop(c)
          PROVE  UNCHANGED <<Seen, InFlight>>
      <3>1. InFlight' = InFlight
        BY <2>3 DEF BlockLoop, InFlight
      <3>2. QED
        BY <2>3, <3>1, NothingRead DEF BlockLoop
    <2>4. CASE InspectState
      <3>1. InFlight' = InFlight
        BY <2>4 DEF InspectState, InFlight, SeenPc, TypeOK
      <3>2. QED
        BY <2>4, <3>1, ReadingChangesNothing DEF InspectState
    <2>5. CASE Forced
      <3>1. InFlight' = InFlight
        BY <2>5 DEF Forced, ForceOpen, ForceClose, InFlight
      <3>2. Eager!Closes \/ Eager!Trips
        BY <2>5, ClosingCloses, TrippingTrips DEF Forced, ForceOpen, ForceClose
      <3>3. QED
        BY <3>1, <3>2 DEF Eager!Next, Eager!Force
    <2>6. CASE Tick
      BY <2>6, TickRefines DEF Eager!Next
    <2>7. CASE UNCHANGED vars
      <3>1. InFlight' = InFlight
        BY <2>7 DEF vars, InFlight
      <3>2. QED
        BY <2>7, <3>1, NothingRead DEF vars
    <2>8. QED
      BY <2>1, <2>2, <2>3, <2>4, <2>5, <2>6, <2>7 DEF Next, Serve
  <1>3. [Eager!Next]_<<SeenState, Left, Used, InFlight>>
          <=> [Eager!Next]_<<SeenState, IF SeenState = "OPEN" THEN RecoveryTimeout - openAge ELSE 0,
                             IF SeenState = "HALF_OPEN" THEN SeenCalls ELSE 0, InFlight>>
    BY DEF Left, Used
  <1>4. QED
    BY <1>1, <1>2, <1>3, TypeCorrect, PTL DEF Spec, LazyBreakerIsEager, Eager!Spec

=============================================================================
