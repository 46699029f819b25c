---------------------------- MODULE AgentLimiter ----------------------------
(***************************************************************************)
(* AgentExecutionLimiter of app/reliability/load_guard.py over the         *)
(* asyncio.Semaphore it relies on (CPython 3.12), and the way requests are *)
(* wired to limiters: LimiterOf gives every request the limiter of the     *)
(* orchestrator that serves it.                                            *)
(*                                                                         *)
(* release() hands its slot to the first waiter whose future is pending;   *)
(* that waiter runs later, and may be timed out or cancelled in between.   *)
(***************************************************************************)
EXTENDS Naturals, FiniteSets, SequencesExt

CONSTANTS
    Requests,   \* the requests that ask for an agent execution
    Limiters,   \* the AgentExecutionLimiter objects
    LimiterOf,  \* the limiter of each request's orchestrator
    MaxAgents   \* max_agents

ASSUME RequestsAssumption == IsFiniteSet(Requests)
ASSUME WiringAssumption   == LimiterOf \in [Requests -> Limiters]
ASSUME MaxAgentsAssumption == MaxAgents \in Nat

VARIABLES
    value,   \* Semaphore._value of each limiter
    queue,   \* the requests whose futures are pending in Semaphore._waiters
    active,  \* _active
    pc       \* where each request is

vars == <<value, queue, active, pc>>

\* "waiting": its future is pending.  "granted": its future has a slot, the task
\* has not run yet.  "dropped": the wait was interrupted (queue_timeout or a
\* cancellation of the task) before a slot came; "grantedDropped": after.
RequestState == {"idle", "waiting", "granted", "dropped", "grantedDropped", "running"}

On(l, states) == {r \in Requests : LimiterOf[r] = l /\ pc[r] \in states}

Granted(l) == On(l, {"granted", "grantedDropped"})
Running(l) == On(l, {"running"})

\* Semaphore.locked: no free slot, or somebody is ahead in the queue.
Locked(l) == value[l] = 0 \/ queue[l] # <<>> \/ Granted(l) # {}

Init ==
    /\ value = [l \in Limiters |-> MaxAgents]
    /\ queue = [l \in Limiters |-> <<>>]
    /\ active = [l \in Limiters |-> 0]
    /\ pc = [r \in Requests |-> "idle"]

----------------------------------------------------------------------------
(* Waking waiters *)

\* The first n waiters of l, whose futures _wake_up_next completes.
First(l, n) == {queue[l][i] : i \in 1..n}

\* Mutant: the interrupted acquire() does not pass on the slots it finds.
PassOnNothing(l, free, was) ==
    /\ value' = [value EXCEPT ![l] = free]
    /\ pc' = was
    /\ UNCHANGED queue

\* `while self._value > 0: if not self._wake_up_next(): break`, with free slots.
PassOn(l, free, was) ==
    LET n == IF free < Len(queue[l]) THEN free ELSE Len(queue[l])
    IN  /\ value' = [value EXCEPT ![l] = free - n]
        /\ queue' = [queue EXCEPT ![l] = SubSeq(@, n + 1, Len(@))]
        /\ pc' = [r \in Requests |-> IF r \in First(l, n) THEN "granted" ELSE was[r]]

\* Mutant: release() wakes nobody.
ReleaseSilently(l, was) ==
    /\ value' = [value EXCEPT ![l] = @ + 1]
    /\ pc' = was
    /\ UNCHANGED queue

\* Semaphore.release: one more slot, handed to the first waiter if there is one.
Release(l, was) ==
    IF queue[l] = <<>>
    THEN value' = [value EXCEPT ![l] = @ + 1] /\ pc' = was /\ UNCHANGED queue
    ELSE /\ pc' = [was EXCEPT ![Head(queue[l])] = "granted"]
         /\ queue' = [queue EXCEPT ![l] = Tail(@)]
         /\ UNCHANGED value

----------------------------------------------------------------------------
(* execute() *)

\* acquire() finds a slot; _active += 1 and the coroutine starts.
StartAtOnce(r) ==
    LET l == LimiterOf[r]
    IN  /\ pc[r] = "idle"
        /\ ~Locked(l)
        /\ value' = [value EXCEPT ![l] = @ - 1]
        /\ active' = [active EXCEPT ![l] = @ + 1]
        /\ pc' = [pc EXCEPT ![r] = "running"]
        /\ UNCHANGED queue

Wait(r) ==
    LET l == LimiterOf[r]
    IN  /\ pc[r] = "idle"
        /\ Locked(l)
        /\ queue' = [queue EXCEPT ![l] = Append(@, r)]
        /\ pc' = [pc EXCEPT ![r] = "waiting"]
        /\ UNCHANGED <<value, active>>

\* The granted task runs: acquire() returns, after passing on what is free.
StartGranted(r) ==
    LET l == LimiterOf[r]
    IN  /\ pc[r] = "granted"
        /\ PassOn(l, value[l], [pc EXCEPT ![r] = "running"])
        /\ active' = [active EXCEPT ![l] = @ + 1]

\* queue_timeout expires, or the task is cancelled: a pending future is
\* cancelled, a completed one keeps its slot until the task runs.
Interrupt(r) ==
    LET l == LimiterOf[r]
    IN  /\ \/ /\ pc[r] = "waiting"
              /\ pc' = [pc EXCEPT ![r] = "dropped"]
              /\ \E i \in DOMAIN queue[l] :
                    queue[l][i] = r /\ queue' = [queue EXCEPT ![l] = RemoveAt(@, i)]
           \/ /\ pc[r] = "granted"
              /\ pc' = [pc EXCEPT ![r] = "grantedDropped"]
              /\ UNCHANGED queue
        /\ UNCHANGED <<value, active>>

\* Mutant: the interrupted task forgets the slot it had been granted.
RejectKeepingSlot(r) ==
    LET l == LimiterOf[r]
    IN  /\ pc[r] \in {"dropped", "grantedDropped"}
        /\ PassOn(l, value[l], [pc EXCEPT ![r] = "idle"])
        /\ UNCHANGED active

\* The interrupted task runs: acquire() gives back a slot it was granted, wakes
\* others, and the request is rejected (LoadGuardRejectionError) or cancelled.
Reject(r) ==
    LET l == LimiterOf[r]
    IN  /\ pc[r] \in {"dropped", "grantedDropped"}
        /\ PassOn(l, IF pc[r] = "dropped" THEN value[l] ELSE value[l] + 1,
                  [pc EXCEPT ![r] = "idle"])
        /\ UNCHANGED active

\* The coroutine returns, raises or is cancelled: the finally clause.
Finish(r) ==
    LET l == LimiterOf[r]
    IN  /\ pc[r] = "running"
        /\ active' = [active EXCEPT ![l] = IF @ > 0 THEN @ - 1 ELSE 0]
        /\ Release(l, [pc EXCEPT ![r] = "idle"])

Next ==
    \E r \in Requests :
        StartAtOnce(r) \/ Wait(r) \/ StartGranted(r) \/ Interrupt(r) \/ Reject(r) \/ Finish(r)

Spec == Init /\ [][Next]_vars

\* The event loop runs every task that is ready, and every execution ends (the
\* watchdog sees to that).  Nothing is assumed of queue_timeout.
FairSpec ==
    /\ Spec
    /\ \A r \in Requests :
          WF_vars(StartGranted(r)) /\ WF_vars(Reject(r)) /\ WF_vars(Finish(r))

----------------------------------------------------------------------------
(* Properties *)

\* The variables keep their ranges.
TypeOK ==
    /\ value \in [Limiters -> 0..MaxAgents]
    /\ queue \in [Limiters -> Seq(Requests)]
    /\ active \in [Limiters -> Nat]
    /\ pc \in [Requests -> RequestState]

\* Every slot is free, granted or in use, whatever timeouts and cancellations
\* meet the hand-over, and _active counts the executions that run
\* (load_guard.py:137-151).
SlotsConserved ==
    \A l \in Limiters :
        /\ value[l] + Cardinality(Granted(l)) + Cardinality(Running(l)) = MaxAgents
        /\ active[l] = Cardinality(Running(l))

\* A request waits beside a free slot only while a task that will pass the slot
\* on has yet to run (load_guard.py:138, 151).
NoLostWakeup ==
    \A l \in Limiters :
        value[l] > 0 /\ queue[l] # <<>> =>
            On(l, {"granted", "dropped", "grantedDropped"}) # {}

\* No starvation, even if queue_timeout never fires: executions end and slots go
\* round in order of arrival (load_guard.py:137-151).
EveryWaitEnds == \A r \in Requests : pc[r] = "waiting" ~> pc[r] # "waiting"

\* Documented, and not so: "Bounds total concurrent agent executions across all
\* sessions" (load_guard.py:110).  It does for the sessions that share one
\* limiter; providers.py:30-35 builds an orchestrator, so a limiter, per request.
BoundedAcrossSessions ==
    Cardinality({r \in Requests : pc[r] = "running"}) <= MaxAgents

=============================================================================
