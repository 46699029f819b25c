-------------------------- MODULE Watchdog_proofs --------------------------
(***************************************************************************)
(* Proofs about Watchdog without shutdown(), for every set of executions,  *)
(* runtime limit and poll interval: nothing runs unsupervised or too long, *)
(* and the reported reason fits the result.                                *)
(***************************************************************************)
EXTENDS Watchdog, TLAPS

\* Nobody shuts the watchdog down.
Open == ~closing /\ monitor # "cancelling"

\* What runs was younger than MaxRuntime when the monitor last polled, or has been
\* registered since; the rest of the nap is all it can still age.
Timed ==
    /\ monitor = "sleeping" => nap # 0
    /\ \A e \in Execs : pc[e] = "running" =>
          elapsed[e] < IF monitor = "sleeping" THEN LastAge - nap ELSE LastAge

\* A wrapper that ended has an outcome, and a reason if the budget ended it; what
\* was returned has its final reason.
Reasoned(e) ==
    /\ pc[e] = "ended" => outcome[e] # "none" /\ (outcome[e] = "budget" => reason[e] # "COMPLETED")
    /\ pc[e] = "returned" => (reason[e] = "COMPLETED" <=> outcome[e] = "result")

IInv == TypeOK /\ Open /\ Supervised /\ Timed /\ \A e \in Execs : Reasoned(e)

----------------------------------------------------------------------------

\* The invariant holds initially.
LEMMA InvInit == Init => IInv
  <1> SUFFICES ASSUME Init PROVE IInv
    OBVIOUS
  <1>1. TypeOK
    <2>1. 0 \in 0..LastAge /\ 0 \in 0..PollInterval
      BY TimesAssumption DEF LastAge
    <2>2. QED
      BY <2>1 DEF Init, TypeOK, ExecState, Outcome, Reason, MonitorState
  <1>2. Open /\ Supervised
    BY DEF Init, Open, Supervised, Guarded
  <1>3. Timed /\ \A e \in Execs : Reasoned(e)
    BY DEF Init, Timed, Reasoned
  <1>4. QED
    BY <1>1, <1>2, <1>3 DEF IInv

\* A step that leaves time, the monitor and what is watched alone, and moves one
\* execution among the guarded states, keeps all but what it says of that execution.
LEMMA MovesGuarded ==
    ASSUME IInv, NEW e \in Execs, pc[e] \in {"running", "stopping", "ended"},
           NEW x \in {"running", "stopping", "ended"}, NEW o \in Outcome, NEW r \in Reason,
           pc' = [pc EXCEPT ![e] = x],
           x = "running" => pc[e] = "running",
           outcome' = [outcome EXCEPT ![e] = o],
           reason' = [reason EXCEPT ![e] = r],
           x = "ended" => o # "none" /\ (o = "budget" => r # "COMPLETED"),
           UNCHANGED <<flagged, elapsed, watched, monitor, nap, closing>>
    PROVE  IInv'
  <1>1. TypeOK'
    BY DEF IInv, TypeOK, ExecState
  <1>2. Guarded' = Guarded
    BY DEF IInv, TypeOK, Guarded
  <1>3. Open' /\ Supervised'
    BY <1>2 DEF IInv, Open, Supervised
  <1>4. Timed'
    BY DEF IInv, TypeOK, Timed, LastAge
  <1>5. \A k \in Execs : Reasoned(k)'
    BY DEF IInv, TypeOK, Reasoned
  <1>6. QED
    BY <1>1, <1>3, <1>4, <1>5 DEF IInv

\* A new execution is younger than any limit and finds or starts a monitor.
LEMMA RegisterInv ==
    ASSUME IInv, NEW e \in Execs, Register(e)
    PROVE  IInv'
  <1>1. TypeOK'
    BY TimesAssumption
       DEF IInv, TypeOK, Register, EnsureMonitor, ExecState, Outcome, Reason, MonitorState, LastAge
  <1>2. Guarded' = Guarded \cup {e}
    BY DEF IInv, TypeOK, Register, Guarded
  <1>3. Open' /\ Supervised'
    BY <1>2 DEF IInv, TypeOK, Open, Supervised, Register, EnsureMonitor, MonitorState
  <1>4. Timed'
    <2>1. monitor = "none" => Guarded = {}
      BY DEF IInv, Supervised
    <2>2. /\ (monitor' = "sleeping") = (monitor = "sleeping")
          /\ nap' = nap
      BY DEF Register, EnsureMonitor
    <2>3. ASSUME NEW k \in Execs, pc'[k] = "running"
          PROVE  elapsed'[k] < IF monitor' = "sleeping" THEN LastAge - nap' ELSE LastAge
      <3>1. CASE k = e
        BY <2>2, <3>1, TimesAssumption DEF Register, IInv, TypeOK, LastAge
      <3>2. CASE k # e
        BY <2>2, <2>3, <3>2 DEF Register, IInv, TypeOK, Timed
      <3>3. QED
        BY <3>1, <3>2
    <2>4. QED
      BY <2>2, <2>3 DEF IInv, Timed
  <1>5. \A k \in Execs : Reasoned(k)'
    BY DEF IInv, TypeOK, Register, Reasoned
  <1>6. QED
    BY <1>1, <1>3, <1>4, <1>5 DEF IInv

\* What returns has its reason and is no longer watched.
LEMMA ReturnInv ==
    ASSUME IInv, NEW e \in Execs, Return(e)
    PROVE  IInv'
  <1>1. outcome[e] \in Outcome /\ outcome[e] # "none"
    BY DEF IInv, TypeOK, Return, Reasoned
  <1>2. /\ FinalReason(e) \in Reason
        /\ FinalReason(e) = "COMPLETED" <=> outcome[e] = "result"
    BY <1>1 DEF IInv, TypeOK, Return, Reasoned, FinalReason, Outcome, Reason
  <1>3. TypeOK'
    BY <1>2 DEF IInv, TypeOK, Return, ExecState
  <1>4. Guarded' = Guarded \ {e}
    BY DEF IInv, TypeOK, Return, Guarded
  <1>5. Open' /\ Supervised'
    BY <1>4 DEF IInv, Open, Supervised, Return
  <1>6. Timed'
    BY DEF IInv, TypeOK, Timed, Return, LastAge
  <1>7. \A k \in Execs : Reasoned(k)'
    BY <1>2 DEF IInv, TypeOK, Return, Reasoned
  <1>8. QED
    BY <1>3, <1>5, <1>6, <1>7 DEF IInv

\* Polling ends what is overdue, so that what still runs is younger.
LEMMA PollInv ==
    ASSUME IInv, Poll
    PROVE  IInv'
  <1>1. TypeOK'
    BY TimesAssumption DEF IInv, TypeOK, Poll, Terminate, ExecState, Reason, MonitorState
  <1>2. Guarded' = Guarded
    BY DEF IInv, TypeOK, Poll, Terminate, Guarded
  <1>3. Open' /\ Supervised'
    BY <1>2 DEF IInv, Open, Supervised, Poll
  <1>4. Timed'
    <2>1. ASSUME NEW k \in Execs, pc'[k] = "running"
          PROVE  elapsed'[k] < LastAge - nap'
      <3>1. pc[k] = "running" /\ k \notin Overdue
        BY <2>1 DEF Poll, Terminate
      <3>2. k \in watched
        BY <3>1 DEF IInv, Supervised, Guarded
      <3>3. elapsed[k] \in Nat /\ ~(elapsed[k] >= MaxRuntime)
        BY <3>1, <3>2 DEF Overdue, IInv, TypeOK
      <3>4. QED
        BY <3>3, TimesAssumption DEF Poll, LastAge
    <2>2. QED
      BY <2>1, TimesAssumption DEF Poll, Timed
  <1>5. ASSUME NEW k \in Execs PROVE Reasoned(k)'
    <2>1. pc[k] = "returned" => k \notin Overdue
      BY DEF IInv, Supervised, Guarded, Overdue
    <2>2. QED
      BY <2>1 DEF IInv, TypeOK, Poll, Terminate, Reasoned
  <1>6. QED
    BY <1>1, <1>3, <1>4, <1>5 DEF IInv

\* A tick takes from the nap what it adds to the ages.
LEMMA TickInv ==
    ASSUME IInv, Tick
    PROVE  IInv'
  <1>1. nap \in 0..PollInterval /\ (monitor = "sleeping" => nap # 0)
    BY DEF IInv, TypeOK, Timed
  <1>2. \A e \in Execs : elapsed[e] \in 0..LastAge /\ elapsed'[e] \in 0..LastAge
    BY TimesAssumption DEF IInv, TypeOK, Tick, LastAge
  <1>3. TypeOK'
    <2>1. elapsed' \in [Execs -> 0..LastAge]
      BY <1>2 DEF Tick
    <2>2. nap' \in 0..PollInterval
      BY <1>1, TimesAssumption DEF Tick
    <2>3. monitor' \in MonitorState
      BY DEF Tick, IInv, TypeOK, MonitorState
    <2>4. QED
      BY <2>1, <2>2, <2>3 DEF Tick, IInv, TypeOK
  <1>4. Guarded' = Guarded
    BY DEF Tick, Guarded
  <1>5. Open' /\ Supervised'
    BY <1>4 DEF IInv, Open, Supervised, Tick
  <1>6. Timed'
    <2>1. ASSUME NEW k \in Execs, pc'[k] = "running"
          PROVE  elapsed'[k] < IF monitor' = "sleeping" THEN LastAge - nap' ELSE LastAge
      <3>1. pc[k] = "running" /\ k \in watched /\ monitor = "sleeping"
        BY <2>1 DEF Tick, IInv, Supervised, Guarded
      <3>2. elapsed[k] < LastAge - nap
        BY <3>1 DEF IInv, Timed
      <3>3. elapsed'[k] <= elapsed[k] + 1 /\ nap' = nap - 1
        BY <1>2, <3>1 DEF Tick
      <3>4. LastAge \in Nat
        BY TimesAssumption DEF LastAge
      <3>5. elapsed'[k] < LastAge - nap' /\ LastAge - nap' <= LastAge
        BY <1>1, <1>2, <3>1, <3>2, <3>3, <3>4
      <3>6. QED
        BY <1>2, <3>4, <3>5, <1>1, <3>1, <3>3
    <2>2. monitor' = "sleeping" => nap' # 0
      BY <1>1, TimesAssumption DEF Tick
    <2>3. QED
      BY <2>1, <2>2 DEF Timed
  <1>7. \A k \in Execs : Reasoned(k)'
    BY DEF IInv, Tick, Reasoned
  <1>8. QED
    BY <1>3, <1>5, <1>6, <1>7 DEF IInv

\* Every step keeps the invariant.
LEMMA InvNext == IInv /\ [Next]_vars => IInv'
  <1> SUFFICES ASSUME IInv, [Next]_vars PROVE IInv'
    OBVIOUS
  <1>0. /\ pc \in [Execs -> ExecState] /\ outcome \in [Execs -> Outcome]
        /\ reason \in [Execs -> Reason]
    BY DEF IInv, TypeOK
  <1>1. ASSUME NEW e \in Execs, Register(e) PROVE IInv'
    BY <1>1, RegisterInv
  <1>2. ASSUME NEW e \in Execs, Check(e) PROVE IInv'
    <2>1. PICK r \in Reason : CheckFails(e, r) /\ reason' = [reason EXCEPT ![e] = r]
      BY <1>2 DEF Check
    <2>2. r # "COMPLETED"
      BY <2>1 DEF CheckFails
    <2>3. CASE pc' = [pc EXCEPT ![e] = "ended"] /\ outcome' = [outcome EXCEPT ![e] = "budget"]
      <3>1. "budget" \in Outcome
        BY DEF Outcome
      <3>2. QED
        BY <1>2, <2>1, <2>2, <2>3, <3>1, MovesGuarded DEF Check
    <2>4. CASE UNCHANGED <<pc, outcome>>
      <3>1. pc' = [pc EXCEPT ![e] = pc[e]] /\ outcome' = [outcome EXCEPT ![e] = outcome[e]]
        BY <1>0, <2>4
      <3>2. pc[e] = "running" /\ outcome[e] \in Outcome
        BY <1>0, <1>2 DEF Check
      <3>3. QED
        BY <1>2, <2>1, <3>1, <3>2, MovesGuarded DEF Check
    <2>5. QED
      BY <1>2, <2>3, <2>4 DEF Check
  <1>3. ASSUME NEW e \in Execs, End(e) PROVE IInv'
    <2>1. PICK o \in {"result", "error"} : outcome' = [outcome EXCEPT ![e] = o]
      BY <1>3 DEF End
    <2>2. o \in Outcome /\ reason' = [reason EXCEPT ![e] = reason[e]] /\ reason[e] \in Reason
      BY <1>0, <1>3 DEF End, Outcome
    <2>3. QED
      BY <1>3, <2>1, <2>2, MovesGuarded DEF End
  <1>4. ASSUME NEW e \in Execs, Unwind(e) PROVE IInv'
    <2>1. "cancelled" \in Outcome /\ reason' = [reason EXCEPT ![e] = reason[e]] /\ reason[e] \in Reason
      BY <1>0, <1>4 DEF Unwind, Outcome
    <2>2. QED
      BY <1>4, <2>1, MovesGuarded DEF Unwind
  <1>5. ASSUME NEW e \in Execs, CallerCancels(e) PROVE IInv'
    <2>1. reason' = [reason EXCEPT ![e] = reason[e]] /\ reason[e] \in Reason
      BY <1>0, <1>5 DEF CallerCancels
    <2>2. CASE pc[e] = "running"
      <3>1. outcome' = [outcome EXCEPT ![e] = outcome[e]] /\ outcome[e] \in Outcome
        BY <1>0, <1>5, <2>2 DEF CallerCancels
      <3>2. QED
        BY <1>5, <2>1, <2>2, <3>1, MovesGuarded DEF CallerCancels
    <2>3. CASE pc[e] = "ended"
      <3>1. pc' = [pc EXCEPT ![e] = "ended"] /\ "cancelled" \in Outcome
        BY <1>0, <1>5, <2>3 DEF CallerCancels, Outcome
      <3>2. QED
        BY <1>5, <2>1, <2>3, <3>1, MovesGuarded DEF CallerCancels
    <2>4. QED
      BY <1>5, <2>2, <2>3 DEF CallerCancels
  <1>6. ASSUME NEW e \in Execs, Return(e) PROVE IInv'
    BY <1>6, ReturnInv
  <1>7. CASE Poll
    BY <1>7, PollInv
  <1>8. CASE MonitorExits
    <2>1. monitor = "ready" /\ watched = {}
      BY <1>8 DEF MonitorExits, IInv, Open
    <2>2. TypeOK' /\ Open'
      BY <1>8 DEF MonitorExits, IInv, TypeOK, Open, MonitorState
    <2>3. Supervised'
      BY <1>8, <2>1 DEF MonitorExits, IInv, Supervised, Guarded
    <2>4. Timed' /\ \A e \in Execs : Reasoned(e)'
      BY <1>8, <2>1 DEF MonitorExits, IInv, Timed, Reasoned
    <2>5. QED
      BY <2>2, <2>3, <2>4 DEF IInv
  <1>9. CASE Tick
    BY <1>9, TickInv
  <1>10. CASE UNCHANGED vars
    BY <1>10 DEF vars, IInv, TypeOK, Open, Supervised, Guarded, Timed, Reasoned
  <1>11. QED
    BY <1>1, <1>2, <1>3, <1>4, <1>5, <1>6, <1>7, <1>8, <1>9, <1>10 DEF Next, Loop, Coroutine

----------------------------------------------------------------------------
(* Theorems *)

\* The inductive invariant, from which the theorems below follow.
THEOREM Inductive == Spec => []IInv
  BY InvInit, InvNext, PTL DEF Spec

\* The variables keep their ranges (watchdog.py:83-121, 220-238).
THEOREM TypeCorrect == Spec => []TypeOK
  BY Inductive, PTL DEF IInv

\* No execution is ever left without a live monitor (watchdog.py:238, 260-272).
THEOREM SupervisedAlways == Spec => []Supervised
  BY Inductive, PTL DEF IInv

\* Nothing runs longer than its limit and one poll interval (watchdog.py:203).
THEOREM PunctualAlways == Spec => []Punctual
  <1>1. IInv => Punctual
    <2> SUFFICES ASSUME IInv, NEW e \in Execs, pc[e] = "running" PROVE elapsed[e] < LastAge
      BY DEF Punctual
    <2>1. elapsed[e] < IF monitor = "sleeping" THEN LastAge - nap ELSE LastAge
      BY DEF IInv, Timed
    <2>2. elapsed[e] \in Nat /\ nap \in Nat /\ LastAge \in Nat
      BY TimesAssumption DEF IInv, TypeOK, LastAge
    <2>3. QED
      BY <2>1, <2>2
  <1>2. QED
    BY <1>1, Inductive, PTL

\* COMPLETED is reported exactly with a result (watchdog.py:294, 357-384).
THEOREM ReasonMatchesAlways == Spec => []ReasonMatchesResult
  <1>1. IInv => ReasonMatchesResult
    BY DEF IInv, Reasoned, ReasonMatchesResult
  <1>2. QED
    BY <1>1, Inductive, PTL

=============================================================================
