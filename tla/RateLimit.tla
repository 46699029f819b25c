------------------------------ MODULE RateLimit ------------------------------
(***************************************************************************)
(* What a token bucket promises, without how it is stored: a level that    *)
(* rises with every tick of the clock and that requests draw on.  Gateway  *)
(* implements it with a bucket that is only brought up to date when it is  *)
(* used, and that Redis forgets when it is not.                            *)
(***************************************************************************)
EXTENDS Naturals

CONSTANTS
    Buckets,  \* one for each tier and identity
    Cost,     \* what a request takes from a bucket, in ticks of refill
    Full      \* a full bucket, in ticks of refill

VARIABLES
    level,    \* what each bucket holds
    verdict,  \* its last answer
    losses    \* how often the buckets were lost

Verdict == {"none", "granted", "refused"}

Init ==
    /\ level = [b \in Buckets |-> Full]
    /\ verdict = [b \in Buckets |-> "none"]
    /\ losses = 0

Grant(b) ==
    /\ level[b] >= Cost[b]
    /\ level' = [level EXCEPT ![b] = @ - Cost[b]]
    /\ verdict' = [verdict EXCEPT ![b] = "granted"]
    /\ UNCHANGED losses

Refuse(b) ==
    /\ level[b] < Cost[b]
    /\ verdict' = [verdict EXCEPT ![b] = "refused"]
    /\ UNCHANGED <<level, losses>>

Refill ==
    /\ level' = [b \in Buckets |-> IF level[b] < Full THEN level[b] + 1 ELSE Full]
    /\ UNCHANGED <<verdict, losses>>

\* The store lost its data: every client starts with a full bucket again.
Lose ==
    /\ level' = [b \in Buckets |-> Full]
    /\ losses' = losses + 1
    /\ UNCHANGED verdict

Next == Refill \/ Lose \/ \E b \in Buckets : Grant(b) \/ Refuse(b)

Spec == Init /\ [][Next]_<<level, verdict, losses>>

=============================================================================
