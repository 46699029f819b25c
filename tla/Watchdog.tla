------------------------------ MODULE Watchdog ------------------------------
(***************************************************************************)
(* AgentWatchdog of app/orchestrator/watchdog.py: guarded executions, the  *)
(* monitor task that polls them, and shutdown().  Every execution runs     *)
(* through guarded_execute, in a wrapper task of its own; the coroutine it *)
(* guards is arbitrary (it may never end of itself).                       *)
(*                                                                         *)
(* Time passes in ticks.  The loop runs the monitor within the tick in     *)
(* which it wakes (nothing blocks the loop that long) and is as late as it *)
(* likes for any other task.  Ages saturate at the last value that is told *)
(* apart.                                                                  *)
(***************************************************************************)
EXTENDS Naturals, FiniteSets

CONSTANTS
    Execs,         \* execution ids; one is used again after it returned
    MaxRuntime,    \* max_runtime_seconds, in ticks
    PollInterval   \* poll_interval, in ticks

ASSUME ExecsAssumption == IsFiniteSet(Execs)
ASSUME TimesAssumption == MaxRuntime \in Nat \ {0} /\ PollInterval \in Nat \ {0}

VARIABLES
    pc,       \* where each execution's guarded_execute is
    outcome,  \* how its wrapper task ended
    reason,   \* termination_reason of its context
    flagged,  \* _cancelled of its context
    elapsed,  \* elapsed_seconds of its context
    watched,  \* _executions
    monitor,  \* _monitor_task
    nap,      \* ticks left of the monitor's sleep
    closing   \* shutdown() awaits the monitor task

vars == <<pc, outcome, reason, flagged, elapsed, watched, monitor, nap, closing>>

\* "stopping": the wrapper task is cancelled and has yet to run.  "ended": it is
\* done and guarded_execute has yet to run.
ExecState == {"idle", "running", "stopping", "ended", "returned"}
Outcome == {"none", "result", "budget", "error", "cancelled"}
Reason == {"COMPLETED", "ITERATION_LIMIT", "TOOL_CALL_LIMIT", "RUNTIME_LIMIT", "CANCELLED", "ERROR"}

\* "none": there is no task, or it is done.  "ready": it is about to run.
\* "cancelling": it is cancelled and has yet to run.
MonitorState == {"none", "ready", "sleeping", "cancelling"}

LastAge == MaxRuntime + PollInterval

Guarded == {e \in Execs : pc[e] \in {"running", "stopping", "ended"}}
Overdue == {e \in watched : elapsed[e] >= MaxRuntime}

Init ==
    /\ pc = [e \in Execs |-> "idle"]
    /\ outcome = [e \in Execs |-> "none"]
    /\ reason = [e \in Execs |-> "COMPLETED"]
    /\ flagged = [e \in Execs |-> FALSE]
    /\ elapsed = [e \in Execs |-> 0]
    /\ watched = {}
    /\ monitor = "none"
    /\ nap = 0
    /\ closing = FALSE

----------------------------------------------------------------------------
(* guarded_execute *)

\* Mutant: the first monitor task is taken to live for ever; it ended when the
\* last execution of an earlier burst was unregistered.
EnsureMonitorOnce ==
    monitor' = IF monitor = "none" /\ \A e \in Execs : pc[e] = "idle" THEN "ready" ELSE monitor

\* _ensure_monitor_running
EnsureMonitor == monitor' = IF monitor = "none" THEN "ready" ELSE monitor

\* register(), then the wrapper task is created and attached.
Register(e) ==
    /\ pc[e] \in {"idle", "returned"}
    /\ pc' = [pc EXCEPT ![e] = "running"]
    /\ outcome' = [outcome EXCEPT ![e] = "none"]
    /\ reason' = [reason EXCEPT ![e] = "COMPLETED"]
    /\ flagged' = [flagged EXCEPT ![e] = FALSE]
    /\ elapsed' = [elapsed EXCEPT ![e] = 0]
    /\ watched' = watched \cup {e}
    /\ EnsureMonitor
    /\ UNCHANGED <<nap, closing>>

\* What check() finds wrong, in its order.
CheckFails(e, r) ==
    IF flagged[e] THEN r = "CANCELLED"
    ELSE \/ r \in {"ITERATION_LIMIT", "TOOL_CALL_LIMIT"}
         \/ r = "RUNTIME_LIMIT" /\ elapsed[e] >= MaxRuntime

\* The guarded coroutine runs a failing check(): AgentBudgetExceededError ends it,
\* or is swallowed below it (as SwarmExecution's gather does).
Check(e) ==
    /\ pc[e] = "running"
    /\ \E r \in Reason :
          /\ CheckFails(e, r)
          /\ reason' = [reason EXCEPT ![e] = r]
    /\ \/ /\ pc' = [pc EXCEPT ![e] = "ended"]
          /\ outcome' = [outcome EXCEPT ![e] = "budget"]
       \/ UNCHANGED <<pc, outcome>>
    /\ UNCHANGED <<flagged, elapsed, watched, monitor, nap, closing>>

\* The guarded coroutine returns or raises something else.
End(e) ==
    /\ pc[e] = "running"
    /\ pc' = [pc EXCEPT ![e] = "ended"]
    /\ \E o \in {"result", "error"} : outcome' = [outcome EXCEPT ![e] = o]
    /\ UNCHANGED <<reason, flagged, elapsed, watched, monitor, nap, closing>>

\* The cancelled wrapper task runs: CancelledError ends it.
Unwind(e) ==
    /\ pc[e] = "stopping"
    /\ pc' = [pc EXCEPT ![e] = "ended"]
    /\ outcome' = [outcome EXCEPT ![e] = "cancelled"]
    /\ UNCHANGED <<reason, flagged, elapsed, watched, monitor, nap, closing>>

\* The task that awaits guarded_execute is cancelled (a client that went away, a
\* request timeout): so is the wrapper, and a wrapper that is done counts as
\* cancelled too.
CallerCancels(e) ==
    /\ pc[e] \in {"running", "ended"}
    /\ IF pc[e] = "running"
       THEN pc' = [pc EXCEPT ![e] = "stopping"] /\ UNCHANGED outcome
       ELSE outcome' = [outcome EXCEPT ![e] = "cancelled"] /\ UNCHANGED pc
    /\ UNCHANGED <<reason, flagged, elapsed, watched, monitor, nap, closing>>

\* Mutant: a result does not reset the reason a swallowed check() left behind.
FinalReasonKept(e) ==
    CASE outcome[e] = "cancelled" -> "RUNTIME_LIMIT"
      [] outcome[e] = "error" -> "ERROR"
      [] OTHER -> reason[e]

\* The reason guarded_execute reports.
FinalReason(e) ==
    CASE outcome[e] = "result" -> "COMPLETED"
      [] outcome[e] = "cancelled" -> "RUNTIME_LIMIT"
      [] outcome[e] = "error" -> "ERROR"
      [] outcome[e] = "budget" -> reason[e]

\* guarded_execute runs again: it sets the reason, unregisters and returns.
Return(e) ==
    /\ pc[e] = "ended"
    /\ pc' = [pc EXCEPT ![e] = "returned"]
    /\ reason' = [reason EXCEPT ![e] = FinalReason(e)]
    /\ watched' = watched \ {e}
    /\ UNCHANGED <<outcome, flagged, elapsed, monitor, nap, closing>>

----------------------------------------------------------------------------
(* The monitor task *)

\* _terminate of each execution in E.
Terminate(E) ==
    /\ reason' = [e \in Execs |-> IF e \in E THEN "RUNTIME_LIMIT" ELSE reason[e]]
    /\ flagged' = [e \in Execs |-> flagged[e] \/ e \in E]
    /\ pc' = [e \in Execs |-> IF e \in E /\ pc[e] = "running" THEN "stopping" ELSE pc[e]]

\* Mutant: the limit is compared with > .
PollStrictly ==
    /\ monitor = "ready"
    /\ watched # {}
    /\ Terminate({e \in watched : elapsed[e] > MaxRuntime})
    /\ monitor' = "sleeping"
    /\ nap' = PollInterval
    /\ UNCHANGED <<outcome, elapsed, watched, closing>>

\* One turn of _monitor_loop up to its sleep.
Poll ==
    /\ monitor = "ready"
    /\ watched # {}
    /\ Terminate(Overdue)
    /\ monitor' = "sleeping"
    /\ nap' = PollInterval
    /\ UNCHANGED <<outcome, elapsed, watched, closing>>

\* _monitor_loop finds nothing to watch, or is cancelled.
MonitorExits ==
    /\ \/ monitor = "ready" /\ watched = {}
       \/ monitor = "cancelling"
    /\ monitor' = "none"
    /\ UNCHANGED <<pc, outcome, reason, flagged, elapsed, watched, nap, closing>>

----------------------------------------------------------------------------
(* shutdown *)

\* Every execution is terminated and the monitor task, if there is one, cancelled
\* and awaited; without one shutdown() is over at once.
ShutdownStarts ==
    /\ ~closing
    /\ Terminate(watched)
    /\ monitor' = IF monitor = "none" THEN "none" ELSE "cancelling"
    /\ watched' = IF monitor = "none" THEN {} ELSE watched
    /\ closing' = (monitor # "none")
    /\ UNCHANGED <<outcome, elapsed, nap>>

\* The monitor task has ended.
ShutdownEnds ==
    /\ closing
    /\ monitor # "cancelling"
    /\ watched' = {}
    /\ closing' = FALSE
    /\ UNCHANGED <<pc, outcome, reason, flagged, elapsed, monitor, nap>>

----------------------------------------------------------------------------

\* A tick passes; the loop is late for any task but the monitor.
Tick ==
    /\ monitor \in {"none", "sleeping"}
    /\ ~closing
    /\ elapsed' = [e \in Execs |->
                     IF e \in Guarded /\ elapsed[e] < LastAge THEN elapsed[e] + 1 ELSE elapsed[e]]
    /\ IF monitor = "sleeping"
       THEN /\ nap' = nap - 1
            /\ monitor' = IF nap = 1 THEN "ready" ELSE "sleeping"
       ELSE UNCHANGED <<nap, monitor>>
    /\ UNCHANGED <<pc, outcome, reason, flagged, watched, closing>>

Coroutine(e) == Check(e) \/ End(e) \/ CallerCancels(e)
Loop == Poll \/ MonitorExits \/ \E e \in Execs : Unwind(e) \/ Return(e)

Next == Loop \/ Tick \/ \E e \in Execs : Register(e) \/ Coroutine(e)

Spec == Init /\ [][Next]_vars

\* The event loop runs what is ready and time passes; nothing is assumed of the
\* guarded coroutines.
FairSpec ==
    /\ Spec
    /\ WF_vars(Tick) /\ WF_vars(Poll) /\ WF_vars(MonitorExits)
    /\ \A e \in Execs : WF_vars(Unwind(e)) /\ WF_vars(Return(e))

ShutdownSpec == Init /\ [][Next \/ ShutdownStarts \/ ShutdownEnds]_vars

----------------------------------------------------------------------------
(* Properties *)

\* The variables keep their ranges.
TypeOK ==
    /\ pc \in [Execs -> ExecState]
    /\ outcome \in [Execs -> Outcome]
    /\ reason \in [Execs -> Reason]
    /\ flagged \in [Execs -> BOOLEAN]
    /\ elapsed \in [Execs -> 0..LastAge]
    /\ watched \subseteq Execs
    /\ monitor \in MonitorState
    /\ nap \in 0..PollInterval
    /\ closing \in BOOLEAN

\* No execution is ever left without a live monitor, though the monitor ends with
\* every burst of executions and the next may begin at that moment
\* (watchdog.py:238, 260-266, 272).
Supervised ==
    /\ watched = Guarded
    /\ watched # {} => monitor \in {"ready", "sleeping"}

\* "cancels any that have exceeded their wall-clock budget" (watchdog.py:203)
\* within one poll interval, whatever else is polled, registered or returning.
Punctual == \A e \in Execs : pc[e] = "running" => elapsed[e] < LastAge

\* A caller is told COMPLETED exactly when it gets a result, even if the deadline
\* passed, or a check() was swallowed, before the result came
\* (watchdog.py:294, 357-384).
ReasonMatchesResult ==
    \A e \in Execs : pc[e] = "returned" => (reason[e] = "COMPLETED" <=> outcome[e] = "result")

\* Every guarded call returns, even of a coroutine that would run for ever
\* (watchdog.py:268-299).
EveryCallReturns == \A e \in Execs : pc[e] = "running" ~> pc[e] = "returned"

\* Documented, and not so: shutdown() will "Cancel the monitor loop and all tracked
\* executions" (watchdog.py:418).  One that is registered while it awaits the
\* monitor is dropped from the tracked ones without being cancelled.
ShutdownCancelsAll ==
    [][closing /\ ~closing' => \A e \in watched : pc[e] # "running"]_vars

=============================================================================
