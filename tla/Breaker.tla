------------------------------- MODULE Breaker -------------------------------
(***************************************************************************)
(* What a circuit breaker promises, without how its outage ends: a clock   *)
(* that counts an outage down and starts the probing by itself.            *)
(* CircuitBreaker implements it with no timer, by looking at the time of   *)
(* the last trip whenever somebody asks, and with a lock.                  *)
(***************************************************************************)
EXTENDS Naturals

CONSTANTS
    Callers,          \* who asks the upstream
    RecoveryTimeout,  \* how long an outage lasts
    HalfOpenMax       \* how many may ask in one period of probing

VARIABLES
    state,   \* CLOSED, OPEN or HALF_OPEN
    left,    \* what is left of the outage
    used,    \* how many were admitted in this period of probing
    inside   \* who is asking the upstream

Init ==
    /\ state = "CLOSED"
    /\ left = 0
    /\ used = 0
    /\ inside = {}

Admit(c) ==
    /\ state = "CLOSED"
    /\ inside' = inside \cup {c}
    /\ UNCHANGED <<state, left, used>>

Probe(c) ==
    /\ state = "HALF_OPEN"
    /\ used < HalfOpenMax
    /\ used' = used + 1
    /\ inside' = inside \cup {c}
    /\ UNCHANGED <<state, left>>

Same == UNCHANGED <<state, left, used>>

Closes == state' = "CLOSED" /\ left' = 0 /\ used' = 0

\* An outage of no length is a period of probing.
Trips ==
    /\ state' = IF RecoveryTimeout = 0 THEN "HALF_OPEN" ELSE "OPEN"
    /\ left' = RecoveryTimeout
    /\ used' = 0

\* An answer ends the probing or starts an outage, or leaves all as it is; it
\* never ends an outage or starts it anew.
Answer(c) ==
    /\ c \in inside
    /\ inside' = inside \ {c}
    /\ \/ Same
       \/ state = "HALF_OPEN" /\ Closes
       \/ state # "OPEN" /\ Trips

\* The operator's.
Force == (Closes \/ Trips) /\ UNCHANGED inside

Elapse ==
    /\ state = "OPEN"
    /\ left' = left - 1
    /\ state' = IF left = 1 THEN "HALF_OPEN" ELSE "OPEN"
    /\ UNCHANGED <<used, inside>>

Next == Force \/ Elapse \/ \E c \in Callers : Admit(c) \/ Probe(c) \/ Answer(c)

Spec == Init /\ [][Next]_<<state, left, used, inside>>

=============================================================================
