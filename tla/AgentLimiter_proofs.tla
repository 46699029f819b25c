------------------------ MODULE AgentLimiter_proofs ------------------------
(***************************************************************************)
(* Proofs about AgentLimiter for every set of requests, every wiring of    *)
(* requests to limiters and every max_agents: slots are conserved, and no  *)
(* wake-up is lost.                                                        *)
(***************************************************************************)
EXTENDS AgentLimiter, FiniteSetTheorems, SequenceTheorems, TLAPS

Waiting(l) == On(l, {"waiting"})
Queued(l)  == {queue[l][i] : i \in 1..Len(queue[l])}

\* The queue of a limiter holds its waiting requests, each of them once.
QueueExact ==
    \A l \in Limiters :
        /\ Queued(l) = Waiting(l)
        /\ \A i, j \in 1..Len(queue[l]) : queue[l][i] = queue[l][j] => i = j

\* What TypeOK says, but for the upper bound of value, which follows from
\* SlotsConserved.
Types ==
    /\ value \in [Limiters -> Nat]
    /\ queue \in [Limiters -> Seq(Requests)]
    /\ active \in [Limiters -> Nat]
    /\ pc \in [Requests -> RequestState]

IInv == Types /\ QueueExact /\ SlotsConserved /\ NoLostWakeup

----------------------------------------------------------------------------
(* Removing from a sequence without repetitions *)

\* The first n elements of such a sequence are n, and the rest are the others.
LEMMA CutFront ==
    ASSUME NEW S, NEW q \in Seq(S), NEW n \in 0..Len(q),
           \A i, j \in 1..Len(q) : q[i] = q[j] => i = j
    PROVE  LET F    == {q[i] : i \in 1..n}
               rest == SubSeq(q, n + 1, Len(q))
           IN  /\ IsFiniteSet(F) /\ Cardinality(F) = n
               /\ rest \in Seq(S) /\ Len(rest) = Len(q) - n
               /\ {rest[i] : i \in 1..Len(rest)} = {q[i] : i \in 1..Len(q)} \ F
               /\ \A i, j \in 1..Len(rest) : rest[i] = rest[j] => i = j
  <1> DEFINE F    == {q[i] : i \in 1..n}
             rest == SubSeq(q, n + 1, Len(q))
             f    == [i \in 1..n |-> q[i]]
  <1>1. IsFiniteSet(F) /\ Cardinality(F) = n
    <2>1. f \in Bijection(1..n, F)
      BY DEF Bijection, Injection, Surjection, IsInjective
    <2>2. IsFiniteSet(1..n) /\ Cardinality(1..n) = n
      BY FS_Interval
    <2>3. QED
      BY <2>1, <2>2, FS_Bijection DEF ExistsBijection
  <1>2. rest \in Seq(S) /\ Len(rest) = Len(q) - n
    BY SubSeqProperties, LenProperties, ElementOfSeq
  <1>3. \A i \in 1..Len(rest) : rest[i] = q[i + n]
    BY <1>2, SubSeqProperties, LenProperties, ElementOfSeq
  <1> HIDE DEF rest
  <1>4. {rest[i] : i \in 1..Len(rest)} = {q[i] : i \in 1..Len(q)} \ F
    <2>1. ASSUME NEW i \in 1..Len(rest)
          PROVE  rest[i] \in {q[k] : k \in 1..Len(q)} \ F
      <3>1. i + n \in 1..Len(q) /\ rest[i] = q[i + n]
        BY <1>2, <1>3, LenProperties
      <3>2. ASSUME NEW k \in 1..n PROVE q[k] # q[i + n]
        BY <3>1, LenProperties
      <3>3. QED
        BY <3>1, <3>2
    <2>2. ASSUME NEW k \in 1..Len(q), q[k] \notin F
          PROVE  q[k] \in {rest[i] : i \in 1..Len(rest)}
      <3>1. k \notin 1..n
        BY <2>2
      <3>2. k - n \in 1..Len(rest) /\ rest[k - n] = q[k]
        BY <3>1, <1>2, <1>3, LenProperties
      <3>3. QED
        BY <3>2
    <2> DEFINE R == {rest[i] : i \in 1..Len(rest)}
               Q == {q[i] : i \in 1..Len(q)}
    <2>3. \A y \in R : y \in Q \ F
      BY <2>1
    <2>4. \A y \in Q \ F : y \in R
      BY <2>2
    <2> HIDE DEF R, Q, F
    <2>5. R = Q \ F
      BY <2>3, <2>4
    <2>6. QED
      BY <2>5 DEF R, Q
  <1>5. \A i, j \in 1..Len(rest) : rest[i] = rest[j] => i = j
    BY <1>2, <1>3, LenProperties
  <1>6. QED
    BY <1>1, <1>2, <1>4, <1>5 DEF rest

\* Removing the element at i leaves all the others.
LEMMA CutOne ==
    ASSUME NEW S, NEW q \in Seq(S), NEW i \in 1..Len(q),
           \A j, k \in 1..Len(q) : q[j] = q[k] => j = k
    PROVE  LET rest == RemoveAt(q, i)
           IN  /\ rest \in Seq(S)
               /\ {rest[j] : j \in 1..Len(rest)} = {q[j] : j \in 1..Len(q)} \ {q[i]}
               /\ \A j, k \in 1..Len(rest) : rest[j] = rest[k] => j = k
  <1> DEFINE a    == SubSeq(q, 1, i - 1)
             b    == SubSeq(q, i + 1, Len(q))
             rest == RemoveAt(q, i)
             at(j) == IF j < i THEN j ELSE j + 1
  <1>1. /\ a \in Seq(S) /\ Len(a) = i - 1
        /\ \A j \in 1..Len(a) : a[j] = q[j]
    BY SubSeqProperties, LenProperties, ElementOfSeq
  <1>2. /\ b \in Seq(S) /\ Len(b) = Len(q) - i
        /\ \A j \in 1..Len(b) : b[j] = q[j + i]
    BY SubSeqProperties, LenProperties, ElementOfSeq
  <1>0. rest = a \o b
    BY DEF RemoveAt
  <1> HIDE DEF a, b, rest
  <1>3. /\ rest \in Seq(S)
        /\ Len(rest) = Len(q) - 1
    <2>1. rest \in Seq(S) /\ Len(rest) = Len(a) + Len(b)
      BY <1>0, <1>1, <1>2, ConcatProperties
    <2>2. Len(q) \in Nat
      BY LenProperties
    <2>3. (i - 1) + (Len(q) - i) = Len(q) - 1
      BY <2>2
    <2>4. QED
      BY <1>1, <1>2, <2>1, <2>3
  <1>4. ASSUME NEW j \in 1..Len(rest)
        PROVE  at(j) \in 1..Len(q) \ {i} /\ rest[j] = q[at(j)]
    <2>1. rest[j] = IF j <= Len(a) THEN a[j] ELSE b[j - Len(a)]
      BY <1>0, <1>1, <1>2, <1>3, ConcatProperties, LenProperties
    <2>2. CASE j < i
      BY <2>1, <2>2, <1>1, <1>3, LenProperties
    <2>3. CASE j >= i
      <3>1. rest[j] = b[j - (i - 1)] /\ j - (i - 1) \in 1..Len(b)
        BY <2>1, <2>3, <1>1, <1>2, <1>3, LenProperties
      <3>2. QED
        BY <3>1, <2>3, <1>2, <1>3, LenProperties
    <2>4. QED
      BY <2>2, <2>3, LenProperties
  <1>5. {rest[j] : j \in 1..Len(rest)} = {q[j] : j \in 1..Len(q)} \ {q[i]}
    <2>1. ASSUME NEW k \in 1..Len(q), k # i
          PROVE  \E j \in 1..Len(rest) : rest[j] = q[k]
      <3>1. CASE k < i
        <4>1. k \in 1..Len(rest) /\ at(k) = k
          BY <3>1, <1>3, LenProperties
        <4>2. QED
          BY <4>1, <1>4
      <3>2. CASE k > i
        <4>1. k - 1 \in 1..Len(rest) /\ at(k - 1) = k
          BY <3>2, <1>3, LenProperties
        <4>2. QED
          BY <4>1, <1>4
      <3>3. QED
        BY <2>1, <3>1, <3>2, LenProperties
    <2> DEFINE R == {rest[j] : j \in 1..Len(rest)}
               Q == {q[j] : j \in 1..Len(q)}
    <2>2. \A y \in R : y \in Q \ {q[i]}
      BY <1>4
    <2>3. \A y \in Q \ {q[i]} : y \in R
      BY <2>1
    <2> HIDE DEF R, Q
    <2>4. R = Q \ {q[i]}
      BY <2>2, <2>3
    <2>5. QED
      BY <2>4 DEF R, Q
  <1>6. \A j, k \in 1..Len(rest) : rest[j] = rest[k] => j = k
    BY <1>3, <1>4, LenProperties
  <1>7. QED
    BY <1>3, <1>5, <1>6 DEF rest

----------------------------------------------------------------------------
(* Counting requests *)

\* The requests on l that p puts in one of these states.
In(p, l, states) == {r \in Requests : LimiterOf[r] = l /\ p[r] \in states}

\* The requests of a limiter in given states are finitely many.
LEMMA InFinite ==
    ASSUME NEW p, NEW l, NEW states
    PROVE  IsFiniteSet(In(p, l, states)) /\ Cardinality(In(p, l, states)) \in Nat
  <1>1. In(p, l, states) \in SUBSET Requests
    BY DEF In
  <1>2. IsFiniteSet(In(p, l, states))
    BY <1>1, RequestsAssumption, FS_Subset
  <1>3. QED
    BY <1>2, FS_CardinalityType

\* How a count changes when r alone changes its state.
Moved(p, q, r, l, states) ==
    LET was  == LimiterOf[r] = l /\ p[r] \in states
        is   == LimiterOf[r] = l /\ q[r] \in states
        now  == Cardinality(In(q, l, states))
        then == Cardinality(In(p, l, states))
    IN  /\ then \in Nat
        /\ is /\ ~was => now = then + 1
        /\ was /\ ~is => now = then - 1
        /\ (was <=> is) => now = then

\* When one request changes its state, a limiter's count changes by that one.
LEMMA OneMoves ==
    ASSUME NEW p, NEW q, NEW r \in Requests, NEW l, NEW states,
           \A s \in Requests \ {r} : q[s] = p[s]
    PROVE  Moved(p, q, r, l, states)
  <1> DEFINE was == LimiterOf[r] = l /\ p[r] \in states
             is  == LimiterOf[r] = l /\ q[r] \in states
             P == In(p, l, states)
             Q == In(q, l, states)
  <1>1. IsFiniteSet(P) /\ Cardinality(P) \in Nat
    BY InFinite
  <1>2. CASE was <=> is
    <2>1. Q = P
      BY <1>2 DEF In
    <2>2. QED
      BY <2>1, <1>1, <1>2 DEF Moved
  <1>3. CASE is /\ ~was
    <2>1. Q = P \cup {r} /\ r \notin P
      BY <1>3 DEF In
    <2>2. Cardinality(Q) = Cardinality(P) + 1
      BY <2>1, <1>1, FS_AddElement
    <2>3. QED
      BY <2>2, <1>1, <1>3 DEF Moved
  <1>4. CASE was /\ ~is
    <2>1. Q = P \ {r} /\ r \in P
      BY <1>4 DEF In
    <2>2. Cardinality(Q) = Cardinality(P) - 1
      BY <2>1, <1>1, FS_RemoveElement
    <2>3. QED
      BY <2>2, <1>1, <1>4 DEF Moved
  <1>5. QED
    BY <1>2, <1>3, <1>4 DEF Moved

\* How they change when a set of waiting requests is granted slots.
LEMMA SomeGranted ==
    ASSUME NEW p \in [Requests -> RequestState], NEW l, NEW F \in SUBSET In(p, l, {"waiting"}),
           NEW k
    PROVE  LET q == [r \in Requests |-> IF r \in F THEN "granted" ELSE p[r]]
               held == {"granted", "grantedDropped"}
           IN  /\ Cardinality(In(q, k, held)) =
                     Cardinality(In(p, k, held)) + (IF k = l THEN Cardinality(F) ELSE 0)
               /\ In(q, k, {"running"}) = In(p, k, {"running"})
               /\ Cardinality(F) \in Nat
  <1> DEFINE q == [r \in Requests |-> IF r \in F THEN "granted" ELSE p[r]]
             held == {"granted", "grantedDropped"}
             H == In(p, k, held)
  <1>1. IsFiniteSet(F) /\ Cardinality(F) \in Nat
    BY InFinite, FS_Subset, FS_CardinalityType
  <1>2. In(q, k, {"running"}) = In(p, k, {"running"})
    BY DEF In
  <1>3. IsFiniteSet(H) /\ Cardinality(H) \in Nat
    BY InFinite
  <1>4. Cardinality(In(q, k, held)) = Cardinality(H) + (IF k = l THEN Cardinality(F) ELSE 0)
    <2>1. CASE k = l
      <3>1. In(q, k, held) = H \cup F /\ H \cap F = {}
        BY <2>1 DEF In
      <3>2. Cardinality(H \cup F) = Cardinality(H) + Cardinality(F) - Cardinality(H \cap F)
        BY <1>1, <1>3, FS_Union
      <3>3. Cardinality(H \cap F) = 0
        BY <3>1, FS_EmptySet
      <3> HIDE DEF H, q, held
      <3>4. Cardinality(In(q, k, held)) = Cardinality(H) + Cardinality(F)
        BY <1>1, <1>3, <3>1, <3>2, <3>3
      <3>5. QED
        BY <2>1, <3>4
    <2>2. CASE k # l
      <3>1. In(q, k, held) = H
        BY <2>2 DEF In
      <3>2. QED
        BY <1>3, <2>2, <3>1
    <2>3. QED
      BY <2>1, <2>2
  <1>5. QED
    BY <1>1, <1>2, <1>4

----------------------------------------------------------------------------
(* Waking waiters *)

\* A wake-up takes the requests F off l's queue, whose order is otherwise kept.
Wakes(l, F, was) ==
    /\ F \in SUBSET Waiting(l)
    /\ queue' \in [Limiters -> Seq(Requests)]
    /\ pc' = [r \in Requests |-> IF r \in F THEN "granted" ELSE was[r]]
    /\ Queued(l)' = Queued(l) \ F
    /\ \A i, j \in 1..Len(queue'[l]) : queue'[l][i] = queue'[l][j] => i = j
    /\ \A k \in Limiters \ {l} : queue'[k] = queue[k]

\* The same requests wait in pc and in was.
SameWait(was) == /\ was \in [Requests -> RequestState]
                 /\ \A r \in Requests : was[r] = "waiting" <=> pc[r] = "waiting"

\* A wake-up keeps the queues exact.
LEMMA WakesExact ==
    ASSUME Types, QueueExact, NEW l \in Limiters, NEW F, NEW was, SameWait(was), Wakes(l, F, was)
    PROVE  QueueExact' /\ pc' \in [Requests -> RequestState]
  <1>1. pc' \in [Requests -> RequestState]
    BY DEF Wakes, SameWait, RequestState
  <1>2. ASSUME NEW k \in Limiters
        PROVE  /\ Queued(k)' = Waiting(k)'
               /\ \A i, j \in 1..Len(queue'[k]) : queue'[k][i] = queue'[k][j] => i = j
    <2>1. CASE k = l
      <3>1. Waiting(l)' = Waiting(l) \ F
        BY DEF Wakes, SameWait, Waiting, On
      <3>2. QED
        BY <2>1, <3>1 DEF Wakes, QueueExact
    <2>2. CASE k # l
      <3>1. Waiting(k)' = Waiting(k)
        BY <2>2 DEF Wakes, SameWait, Waiting, On
      <3>2. queue'[k] = queue[k]
        BY <2>2 DEF Wakes
      <3>3. QED
        BY <3>1, <3>2 DEF Queued, QueueExact
    <2>3. QED
      BY <2>1, <2>2
  <1>3. QED
    BY <1>1, <1>2 DEF QueueExact

\* PassOn hands out free slots until none is left or nobody waits.
LEMMA PassOnWakes ==
    ASSUME Types, QueueExact, NEW l \in Limiters, NEW free \in Nat, NEW was,
           SameWait(was), PassOn(l, free, was)
    PROVE  \E F : /\ Wakes(l, F, was)
                  /\ Cardinality(F) \in 0..free
                  /\ value' = [value EXCEPT ![l] = free - Cardinality(F)]
                  /\ Cardinality(F) = free \/ queue'[l] = <<>>
  <1> DEFINE q == queue[l]
             n == IF free < Len(q) THEN free ELSE Len(q)
             F == {q[i] : i \in 1..n}
             rest == SubSeq(q, n + 1, Len(q))
  <1>1. q \in Seq(Requests) /\ Len(q) \in Nat
    BY LenProperties DEF Types
  <1>2. n \in 0..Len(q) /\ n \in 0..free
    BY <1>1
  <1>3. \A i, j \in 1..Len(q) : q[i] = q[j] => i = j
    BY DEF QueueExact
  <1> HIDE DEF n
  <1>4. /\ Cardinality(F) = n
        /\ rest \in Seq(Requests) /\ Len(rest) = Len(q) - n
        /\ {rest[i] : i \in 1..Len(rest)} = Queued(l) \ F
        /\ \A i, j \in 1..Len(rest) : rest[i] = rest[j] => i = j
    <2>1. Queued(l) = {q[i] : i \in 1..Len(q)}
      BY DEF Queued
    <2>2. LET G == {q[i] : i \in 1..n}
              s == SubSeq(q, n + 1, Len(q))
          IN  /\ IsFiniteSet(G) /\ Cardinality(G) = n
              /\ s \in Seq(Requests) /\ Len(s) = Len(q) - n
              /\ {s[i] : i \in 1..Len(s)} = {q[i] : i \in 1..Len(q)} \ G
              /\ \A i, j \in 1..Len(s) : s[i] = s[j] => i = j
      <3> HIDE DEF q
      <3>1. QED
        BY <1>1, <1>2, <1>3, CutFront
    <2>3. QED
      BY <2>1, <2>2
  <1>5. /\ value' = [value EXCEPT ![l] = free - n]
        /\ queue' = [queue EXCEPT ![l] = rest]
        /\ pc' = [r \in Requests |-> IF r \in F THEN "granted" ELSE was[r]]
    BY DEF PassOn, First, n
  <1>6. F \in SUBSET Waiting(l)
    BY <1>1, <1>2 DEF QueueExact, Queued
  <1>7. queue'[l] = rest /\ \A k \in Limiters \ {l} : queue'[k] = queue[k]
    BY <1>5 DEF Types
  <1> HIDE DEF F, rest
  <1>8. Wakes(l, F, was)
    <2>1. queue' \in [Limiters -> Seq(Requests)]
      BY <1>4, <1>5 DEF Types
    <2>2. Queued(l)' = {rest[i] : i \in 1..Len(rest)}
      BY <1>7 DEF Queued
    <2>3. QED
      BY <1>4, <1>5, <1>6, <1>7, <2>1, <2>2 DEF Wakes
  <1>9. n = free \/ queue'[l] = <<>>
    <2>1. CASE n = Len(q)
      <3>1. Len(rest) = 0
        BY <2>1, <1>1, <1>4
      <3>2. QED
        BY <3>1, <1>4, <1>7, EmptySeq
    <2>2. QED
      BY <2>1 DEF n
  <1>10. QED
    BY <1>2, <1>4, <1>5, <1>8, <1>9

\* Release frees one slot, or hands it to one waiter.
LEMMA ReleaseWakes ==
    ASSUME Types, QueueExact, NEW l \in Limiters, NEW was, SameWait(was), Release(l, was)
    PROVE  \E F : /\ Wakes(l, F, was)
                  /\ Cardinality(F) \in 0..1
                  /\ value' = [value EXCEPT ![l] = (@ + 1) - Cardinality(F)]
                  /\ IF F = {} THEN queue'[l] = <<>> ELSE Cardinality(F) = 1
  <1> DEFINE q == queue[l]
  <1>1. q \in Seq(Requests) /\ value[l] \in Nat
    BY DEF Types
  <1>2. CASE q = <<>>
    <2>1. value' = [value EXCEPT ![l] = @ + 1] /\ pc' = was /\ queue' = queue
      BY <1>2 DEF Release
    <2>2. Cardinality({}) = 0
      BY FS_EmptySet
    <2>3. Wakes(l, {}, was)
      BY <2>1 DEF Wakes, SameWait, Types, QueueExact, Queued
    <2>4. value' = [value EXCEPT ![l] = (@ + 1) - Cardinality({})]
      <3>1. (value[l] + 1) - Cardinality({}) = value[l] + 1
        BY <2>2, <1>1
      <3>2. QED
        BY <2>1, <3>1
    <2>5. queue'[l] = <<>> /\ Cardinality({}) \in 0..1
      BY <1>2, <2>1, <2>2
    <2>6. WITNESS {}
    <2>7. QED
      BY <2>3, <2>4, <2>5
  <1>3. CASE q # <<>>
    <2> DEFINE h == Head(q)
               F == {q[i] : i \in 1..1}
               rest == SubSeq(q, 1 + 1, Len(q))
    <2>1. /\ Len(q) \in Nat /\ 1 \in 0..Len(q) /\ 1 \in 1..Len(q)
          /\ h = q[1] /\ Tail(q) = rest
      BY <1>1, <1>3, HeadTailProperties, TailIsSubSeq, EmptySeq, LenProperties
    <2>2. \A i, j \in 1..Len(q) : q[i] = q[j] => i = j
      BY DEF QueueExact
    <2>3. /\ Cardinality(F) = 1
          /\ rest \in Seq(Requests)
          /\ {rest[i] : i \in 1..Len(rest)} = Queued(l) \ F
          /\ \A i, j \in 1..Len(rest) : rest[i] = rest[j] => i = j
      BY <1>1, <2>1, <2>2, CutFront DEF Queued
    <2>4. F = {h}
      BY <2>1
    <2>5. h \in Waiting(l)
      BY <2>1 DEF QueueExact, Queued
    <2>6. /\ pc' = [was EXCEPT ![h] = "granted"]
          /\ queue' = [queue EXCEPT ![l] = rest]
          /\ value' = value
      BY <1>3, <2>1 DEF Release
    <2>7. queue'[l] = rest /\ \A k \in Limiters \ {l} : queue'[k] = queue[k]
      BY <2>6 DEF Types
    <2> HIDE DEF F, rest, h
    <2>8. pc' = [r \in Requests |-> IF r \in F THEN "granted" ELSE was[r]]
      BY <2>4, <2>6 DEF SameWait
    <2>9. queue' \in [Limiters -> Seq(Requests)]
      BY <2>3, <2>6 DEF Types
    <2>10. Queued(l)' = {rest[i] : i \in 1..Len(rest)}
      BY <2>7 DEF Queued
    <2>11. Wakes(l, F, was)
      BY <2>3, <2>4, <2>5, <2>7, <2>8, <2>9, <2>10 DEF Wakes
    <2>12. value' = [value EXCEPT ![l] = (@ + 1) - Cardinality(F)]
      BY <1>1, <2>3, <2>6 DEF Types
    <2>13. F # {} /\ Cardinality(F) = 1 /\ Cardinality(F) \in 0..1
      BY <2>3, <2>4
    <2>14. WITNESS F
    <2>15. QED
      BY <2>11, <2>12, <2>13
  <1>4. QED
    BY <1>2, <1>3

----------------------------------------------------------------------------
(* The invariant *)

Held == {"granted", "grantedDropped"}
Leaving == {"granted", "dropped", "grantedDropped"}

\* The sets of the specification as instances of In.
LEMMA OnIsIn == \A l : /\ Granted(l) = In(pc, l, Held)
                       /\ Running(l) = In(pc, l, {"running"})
                       /\ On(l, Leaving) = In(pc, l, Leaving)
  BY DEF Granted, Running, On, In, Held, Leaving

\* r alone moves, to a state in which it does not wait, and its limiter wakes F.
LEMMA WakesCounts ==
    ASSUME Types, QueueExact, NEW r \in Requests, NEW x \in RequestState, NEW F,
           pc[r] # "waiting", x # "waiting",
           Wakes(LimiterOf[r], F, [pc EXCEPT ![r] = x])
    PROVE  /\ SameWait([pc EXCEPT ![r] = x])
           /\ Cardinality(F) \in Nat
           /\ \A k \in Limiters :
                 LET mine == k = LimiterOf[r]
                 IN  /\ Cardinality(Granted(k)') = Cardinality(Granted(k))
                           + (IF mine THEN Cardinality(F) ELSE 0)
                           + (IF mine /\ x \in Held THEN 1 ELSE 0)
                           - (IF mine /\ pc[r] \in Held THEN 1 ELSE 0)
                     /\ Cardinality(Running(k)') = Cardinality(Running(k))
                           + (IF mine /\ x = "running" THEN 1 ELSE 0)
                           - (IF mine /\ pc[r] = "running" THEN 1 ELSE 0)
                     /\ ~mine => On(k, Leaving)' = On(k, Leaving)
  <1> DEFINE l == LimiterOf[r]
             was == [pc EXCEPT ![r] = x]
             now == [s \in Requests |-> IF s \in F THEN "granted" ELSE was[s]]
  <1>1. SameWait(was)
    BY DEF SameWait, Types
  <1>2. was \in [Requests -> RequestState] /\ pc \in [Requests -> RequestState]
    BY DEF Types
  <1>3. F \in SUBSET In(was, l, {"waiting"})
    BY <1>1 DEF Wakes, SameWait, Waiting, On, In
  <1>4. pc' = now
    BY DEF Wakes
  <1>5. \A k : Granted(k)' = In(now, k, Held) /\ Running(k)' = In(now, k, {"running"})
    BY <1>4 DEF Granted, Running, On, In, Held
  <1>6. ASSUME NEW k \in Limiters
        PROVE  LET mine == k = l
               IN  /\ Cardinality(Granted(k)') = Cardinality(Granted(k))
                         + (IF mine THEN Cardinality(F) ELSE 0)
                         + (IF mine /\ x \in Held THEN 1 ELSE 0)
                         - (IF mine /\ pc[r] \in Held THEN 1 ELSE 0)
                   /\ Cardinality(Running(k)') = Cardinality(Running(k))
                         + (IF mine /\ x = "running" THEN 1 ELSE 0)
                         - (IF mine /\ pc[r] = "running" THEN 1 ELSE 0)
                   /\ ~mine => On(k, Leaving)' = On(k, Leaving)
                   /\ Cardinality(F) \in Nat
    <2>0. was[r] = x /\ \A s \in Requests \ {r} : was[s] = pc[s]
      BY <1>2
    <2> HIDE DEF was, now
    <2>4. /\ Cardinality(In(pc, k, Held)) \in Nat
          /\ Cardinality(In(pc, k, {"running"})) \in Nat
      BY InFinite
    <2>1. /\ Cardinality(In(now, k, Held)) =
               Cardinality(In(was, k, Held)) + (IF k = l THEN Cardinality(F) ELSE 0)
          /\ In(now, k, {"running"}) = In(was, k, {"running"})
          /\ Cardinality(F) \in Nat
      BY <1>2, <1>3, SomeGranted DEF Held, now
    <2>2. Cardinality(In(was, k, Held)) = Cardinality(In(pc, k, Held))
               + (IF l = k /\ x \in Held THEN 1 ELSE 0)
               - (IF l = k /\ pc[r] \in Held THEN 1 ELSE 0)
      <3>1. Moved(pc, was, r, k, Held)
        BY <2>0, OneMoves, Zenon
      <3>2. QED
        BY <2>0, <2>4, <3>1 DEF Moved
    <2>3. Cardinality(In(was, k, {"running"})) = Cardinality(In(pc, k, {"running"}))
               + (IF l = k /\ x \in {"running"} THEN 1 ELSE 0)
               - (IF l = k /\ pc[r] \in {"running"} THEN 1 ELSE 0)
      <3>1. Moved(pc, was, r, k, {"running"})
        BY <2>0, OneMoves, Zenon
      <3>2. QED
        BY <2>0, <2>4, <3>1 DEF Moved
    <2>5. k # l => On(k, Leaving)' = On(k, Leaving)
      BY <1>2, <1>3, <1>4 DEF On, In, was, now
    <2>6. QED
      BY <1>5, <2>1, <2>2, <2>3, <2>4, <2>5, OnIsIn
  <1>7. LimiterOf[r] \in Limiters
    BY WiringAssumption
  <1>8. QED
    BY <1>1, <1>6, <1>7

\* The invariant holds initially.
LEMMA InvInit == Init => IInv
  <1> SUFFICES ASSUME Init PROVE IInv
    OBVIOUS
  <1>1. Types
    BY MaxAgentsAssumption DEF Init, Types, RequestState
  <1>2. \A l \in Limiters : queue[l] = <<>> /\ Len(queue[l]) = 0
    BY DEF Init
  <1>3. QueueExact
    <2>1. \A l \in Limiters : Queued(l) = {} /\ Waiting(l) = {}
      BY <1>2 DEF Init, Queued, Waiting, On
    <2>2. \A l \in Limiters : \A i, j \in 1..Len(queue[l]) : i = j
      BY <1>2
    <2>3. QED
      BY <2>1, <2>2 DEF QueueExact
  <1>4. SlotsConserved
    <2>1. \A l \in Limiters : Granted(l) = {} /\ Running(l) = {}
      BY DEF Init, Granted, Running, On
    <2>2. Cardinality({}) = 0
      BY FS_EmptySet
    <2>3. \A l \in Limiters : value[l] = MaxAgents /\ active[l] = 0
      BY DEF Init
    <2>4. ASSUME NEW l \in Limiters
          PROVE  /\ value[l] + Cardinality(Granted(l)) + Cardinality(Running(l)) = MaxAgents
                 /\ active[l] = Cardinality(Running(l))
      BY <2>1, <2>2, <2>3, MaxAgentsAssumption
    <2>5. QED
      BY <2>4 DEF SlotsConserved
  <1>5. NoLostWakeup
    BY <1>2 DEF NoLostWakeup
  <1>6. QED
    BY <1>1, <1>3, <1>4, <1>5 DEF IInv

\* The sum of free, granted and used slots is kept by a step that hands out f of
\* the free slots; gx, gp, rx and rp count the request that moves.
SumKept(v, g, u, f, free, gx, gp, rx, rp) ==
    (free - f) + (g + f + gx - gp) + (u + rx - rp) = v + g + u

\* Slots are kept if the request that moves brings what it takes.
LEMMA SlotSum ==
    ASSUME NEW v \in Nat, NEW g \in Nat, NEW u \in Nat, NEW f \in Nat, NEW free \in Nat,
           NEW gx \in Nat, NEW gp \in Nat, NEW rx \in Nat, NEW rp \in Nat,
           free + gx + rx = v + gp + rp
    PROVE  SumKept(v, g, u, f, free, gx, gp, rx, rp)
  BY DEF SumKept

\* r moves to x, not to or from the queue; its limiter has free slots then.
Moves(r, x, free) ==
    LET l == LimiterOf[r]
    IN  /\ pc[r] # "waiting" /\ x # "waiting"
        /\ active' \in [Limiters -> Nat]
        /\ \A k \in Limiters \ {l} : active'[k] = active[k]
        /\ free + (IF x \in Held THEN 1 ELSE 0) + (IF x = "running" THEN 1 ELSE 0) =
               value[l] + (IF pc[r] \in Held THEN 1 ELSE 0)
                        + (IF pc[r] = "running" THEN 1 ELSE 0)
        /\ active'[l] = active[l] + (IF x = "running" THEN 1 ELSE 0)
                                  - (IF pc[r] = "running" THEN 1 ELSE 0)

\* Its limiter wakes F: as many as it can, or somebody is left to wake others.
HandsOver(r, x, F, free) ==
    LET l == LimiterOf[r]
    IN  /\ Moves(r, x, free)
        /\ Wakes(l, F, [pc EXCEPT ![r] = x])
        /\ value' = [value EXCEPT ![l] = free - Cardinality(F)]
        /\ Cardinality(F) \in 0..free
        /\ free > Cardinality(F) /\ queue'[l] # <<>> => On(l, Leaving)' # {}

\* Such a step keeps the invariant.
LEMMA HandOver ==
    ASSUME IInv, NEW r \in Requests, NEW x \in RequestState, NEW F, NEW free \in Nat,
           HandsOver(r, x, F, free)
    PROVE  IInv'
  <1> USE DEF HandsOver, Moves
  <1> DEFINE l == LimiterOf[r]
  <1>0. l \in Limiters /\ Types /\ QueueExact
    BY WiringAssumption DEF IInv
  <1>1. /\ SameWait([pc EXCEPT ![r] = x])
        /\ Cardinality(F) \in Nat
        /\ \A k \in Limiters :
              LET mine == k = l
              IN  /\ Cardinality(Granted(k)') = Cardinality(Granted(k))
                        + (IF mine THEN Cardinality(F) ELSE 0)
                        + (IF mine /\ x \in Held THEN 1 ELSE 0)
                        - (IF mine /\ pc[r] \in Held THEN 1 ELSE 0)
                  /\ Cardinality(Running(k)') = Cardinality(Running(k))
                        + (IF mine /\ x = "running" THEN 1 ELSE 0)
                        - (IF mine /\ pc[r] = "running" THEN 1 ELSE 0)
                  /\ ~mine => On(k, Leaving)' = On(k, Leaving)
    BY <1>0, WakesCounts
  <1>2. QueueExact' /\ pc' \in [Requests -> RequestState]
    BY <1>0, <1>1, WakesExact
  <1>3. Types'
    BY <1>0, <1>2 DEF Types, Wakes
  <1>4. SlotsConserved'
    <2>1. \A k \in Limiters : Cardinality(Granted(k)) \in Nat /\ Cardinality(Running(k)) \in Nat
      BY InFinite, OnIsIn
    <2>2. ASSUME NEW k \in Limiters
          PROVE  /\ value'[k] + Cardinality(Granted(k)') + Cardinality(Running(k)') = MaxAgents
                 /\ active'[k] = Cardinality(Running(k)')
      <3>1. /\ value[k] + Cardinality(Granted(k)) + Cardinality(Running(k)) = MaxAgents
            /\ active[k] = Cardinality(Running(k))
            /\ value[k] \in Nat /\ active[k] \in Nat
        BY <1>0 DEF IInv, SlotsConserved, Types
      <3>2. CASE k = l
        <4>1. value'[l] = free - Cardinality(F)
          BY <1>0 DEF Types
        <4>2. Cardinality(Granted(l)') = Cardinality(Granted(l)) + Cardinality(F)
                  + (IF x \in Held THEN 1 ELSE 0) - (IF pc[r] \in Held THEN 1 ELSE 0)
          BY <1>0, <1>1
        <4>3. Cardinality(Running(l)') = Cardinality(Running(l))
                  + (IF x = "running" THEN 1 ELSE 0) - (IF pc[r] = "running" THEN 1 ELSE 0)
          BY <1>0, <1>1
        <4> DEFINE gx == IF x \in Held THEN 1 ELSE 0
                   gp == IF pc[r] \in Held THEN 1 ELSE 0
                   rx == IF x = "running" THEN 1 ELSE 0
                   rp == IF pc[r] = "running" THEN 1 ELSE 0
        <4>4. gx \in Nat /\ gp \in Nat /\ rx \in Nat /\ rp \in Nat
          OBVIOUS
        <4>5. /\ free + gx + rx = value[l] + gp + rp
              /\ active'[l] = active[l] + rx - rp
              /\ Cardinality(Granted(l)') = Cardinality(Granted(l)) + Cardinality(F) + gx - gp
              /\ Cardinality(Running(l)') = Cardinality(Running(l)) + rx - rp
          BY <4>2, <4>3
        <4> HIDE DEF gx, gp, rx, rp
        <4>6. /\ value[l] + Cardinality(Granted(l)) + Cardinality(Running(l)) = MaxAgents
              /\ active[l] = Cardinality(Running(l))
              /\ value[l] \in Nat
              /\ Cardinality(Granted(l)) \in Nat /\ Cardinality(Running(l)) \in Nat
              /\ Cardinality(F) \in Nat
          BY <1>0, <1>1, <2>1, <3>1, <3>2
        <4>7. /\ value'[l] + Cardinality(Granted(l)') + Cardinality(Running(l)') = MaxAgents
              /\ active'[l] = Cardinality(Running(l)')
          <5>0. free + gx + rx = value[l] + gp + rp
            BY <4>5
          <5>1. SumKept(value[l], Cardinality(Granted(l)), Cardinality(Running(l)),
                        Cardinality(F), free, gx, gp, rx, rp)
            BY <4>4, <4>6, <5>0, SlotSum, Zenon
          <5>2. value'[l] + Cardinality(Granted(l)') + Cardinality(Running(l)') = MaxAgents
            BY <4>1, <4>5, <4>6, <5>1, Zenon DEF SumKept
          <5>3. active'[l] = Cardinality(Running(l)')
            BY <4>5, <4>6
          <5>4. QED
            BY <5>2, <5>3
        <4>8. QED
          BY <3>2, <4>7
      <3>3. CASE k # l
        <4>1. value'[k] = value[k] /\ active'[k] = active[k]
          BY <1>0, <3>3 DEF Types
        <4>2. /\ Cardinality(Granted(k)') = Cardinality(Granted(k))
              /\ Cardinality(Running(k)') = Cardinality(Running(k))
          BY <1>1, <2>1, <3>3
        <4>3. QED
          BY <3>1, <4>1, <4>2
      <3>4. QED
        BY <3>2, <3>3
    <2>3. QED
      BY <2>2 DEF SlotsConserved
  <1>5. NoLostWakeup'
    <2>1. ASSUME NEW k \in Limiters, value'[k] > 0, queue'[k] # <<>>
          PROVE  On(k, Leaving)' # {}
      <3>1. CASE k = l
        BY <1>0, <1>1, <2>1, <3>1 DEF Types
      <3>2. CASE k # l
        <4>1. value'[k] = value[k] /\ queue'[k] = queue[k]
          BY <1>0, <3>2 DEF Types, Wakes
        <4>2. On(k, Leaving) # {}
          BY <2>1, <4>1 DEF IInv, NoLostWakeup, Leaving
        <4>3. QED
          BY <1>1, <3>2, <4>2
      <3>3. QED
        BY <3>1, <3>2
    <2>2. QED
      BY <2>1 DEF NoLostWakeup, Leaving
  <1>6. QED
    BY <1>2, <1>3, <1>4, <1>5 DEF IInv

\* Counts of an unchanged pc.
LEMMA CountsFinite ==
    \A l : /\ IsFiniteSet(Running(l))
           /\ Cardinality(Granted(l)) \in Nat /\ Cardinality(Running(l)) \in Nat
  BY InFinite, OnIsIn

\* acquire() finds a slot: nobody is woken.
LEMMA StartAtOnceInv ==
    ASSUME IInv, NEW r \in Requests, StartAtOnce(r)
    PROVE  IInv'
  <1> DEFINE l == LimiterOf[r]
             was == [pc EXCEPT ![r] = "running"]
  <1>1. l \in Limiters /\ Types /\ QueueExact
    BY WiringAssumption DEF IInv
  <1>2. /\ pc[r] = "idle" /\ value[l] # 0 /\ queue[l] = <<>>
        /\ value' = [value EXCEPT ![l] = @ - 1]
        /\ active' = [active EXCEPT ![l] = @ + 1]
        /\ pc' = was /\ queue' = queue
    BY DEF StartAtOnce, Locked
  <1>3. value[l] \in Nat /\ active[l] \in Nat
    BY <1>1 DEF Types
  <1>4. value[l] - 1 \in Nat
    BY <1>2, <1>3
  <1>5. Cardinality({}) = 0
    BY FS_EmptySet
  <1>6. Wakes(l, {}, was)
    <2>1. pc' = [s \in Requests |-> IF s \in {} THEN "granted" ELSE was[s]]
      BY <1>1, <1>2 DEF Types
    <2>2. queue' \in [Limiters -> Seq(Requests)]
      BY <1>1, <1>2 DEF Types
    <2>3. Queued(l)' = Queued(l) \ {}
      BY <1>2 DEF Queued
    <2>4. \A i, j \in 1..Len(queue'[l]) : queue'[l][i] = queue'[l][j] => i = j
      BY <1>1, <1>2 DEF QueueExact
    <2>5. QED
      BY <1>2, <2>1, <2>2, <2>3, <2>4 DEF Wakes
  <1>7. HandsOver(r, "running", {}, value[l] - 1)
    <2>1. value' = [value EXCEPT ![l] = (value[l] - 1) - Cardinality({})]
      <3>1. (value[l] - 1) - Cardinality({}) = value[l] - 1
        BY <1>4, <1>5
      <3>2. QED
        BY <1>2, <3>1
    <2>2. /\ active' \in [Limiters -> Nat]
          /\ \A k \in Limiters \ {l} : active'[k] = active[k]
          /\ active'[l] = active[l] + 1
      BY <1>1, <1>2, <1>3 DEF Types
    <2>3. Cardinality({}) \in 0..(value[l] - 1)
      BY <1>4, <1>5
    <2>4. (value[l] - 1) + 0 + 1 = value[l] + 0 + 0
      BY <1>3
    <2>5. queue'[l] = <<>>
      BY <1>2
    <2>6. "running" \notin Held /\ "idle" \notin Held
      BY DEF Held
    <2>7. active[l] + 1 = active[l] + 1 - 0
      BY <1>3
    <2> HIDE DEF was
    <2>8. Wakes(LimiterOf[r], {}, [pc EXCEPT ![r] = "running"])
      BY <1>6 DEF was
    <2>9. QED
      BY <1>2, <2>1, <2>2, <2>3, <2>4, <2>5, <2>6, <2>7, <2>8 DEF HandsOver, Moves
  <1>8. "running" \in RequestState
    BY DEF RequestState
  <1>9. QED
    BY <1>4, <1>7, <1>8, HandOver

\* A step whose acquire() passes on the free slots keeps the invariant.
LEMMA PassOnInv ==
    ASSUME IInv, NEW r \in Requests, NEW x \in RequestState, NEW free \in Nat,
           Moves(r, x, free), PassOn(LimiterOf[r], free, [pc EXCEPT ![r] = x])
    PROVE  IInv'
  <1> DEFINE l == LimiterOf[r]
             was == [pc EXCEPT ![r] = x]
  <1>1. l \in Limiters /\ Types /\ QueueExact
    BY WiringAssumption DEF IInv
  <1>2. SameWait(was)
    BY <1>1 DEF SameWait, Types, Moves
  <1>3. PICK F : /\ Wakes(l, F, was)
                 /\ Cardinality(F) \in 0..free
                 /\ value' = [value EXCEPT ![l] = free - Cardinality(F)]
                 /\ Cardinality(F) = free \/ queue'[l] = <<>>
    <2> HIDE DEF l, was
    <2>1. PassOn(l, free, was)
      BY DEF l, was
    <2>2. QED
      BY <1>1, <1>2, <2>1, PassOnWakes, Zenon
  <1>4. HandsOver(r, x, F, free)
    <2>1. ~(free > Cardinality(F) /\ queue'[l] # <<>>)
      BY <1>3
    <2>2. QED
      BY <1>3, <2>1 DEF HandsOver
  <1>5. QED
    BY <1>4, HandOver

\* The granted task starts.
LEMMA StartGrantedInv ==
    ASSUME IInv, NEW r \in Requests, StartGranted(r)
    PROVE  IInv'
  <1> DEFINE l == LimiterOf[r]
  <1>1. l \in Limiters /\ Types
    BY WiringAssumption DEF IInv
  <1>2. /\ pc[r] = "granted"
        /\ PassOn(l, value[l], [pc EXCEPT ![r] = "running"])
        /\ active' = [active EXCEPT ![l] = @ + 1]
    BY DEF StartGranted
  <1>3. value[l] \in Nat /\ active[l] \in Nat
    BY <1>1 DEF Types
  <1>4. Moves(r, "running", value[l])
    BY <1>1, <1>2, <1>3 DEF Moves, Held, Types
  <1>5. "running" \in RequestState
    BY DEF RequestState
  <1>6. QED
    BY <1>2, <1>3, <1>4, <1>5, PassOnInv

\* The interrupted task gives back what it had been granted.
LEMMA RejectInv ==
    ASSUME IInv, NEW r \in Requests, Reject(r)
    PROVE  IInv'
  <1> DEFINE l == LimiterOf[r]
             free == IF pc[r] = "dropped" THEN value[l] ELSE value[l] + 1
  <1>1. l \in Limiters /\ Types
    BY WiringAssumption DEF IInv
  <1>2. /\ pc[r] \in {"dropped", "grantedDropped"}
        /\ PassOn(l, free, [pc EXCEPT ![r] = "idle"])
        /\ active' = active
    BY DEF Reject
  <1>3. value[l] \in Nat /\ active[l] \in Nat /\ free \in Nat
    BY <1>1 DEF Types
  <1>4. Moves(r, "idle", free)
    BY <1>1, <1>2, <1>3 DEF Moves, Held, Types
  <1>5. "idle" \in RequestState
    BY DEF RequestState
  <1> HIDE DEF free
  <1>6. QED
    BY <1>2, <1>3, <1>4, <1>5, PassOnInv

\* The execution ends and its slot goes back or to the first in the queue.
LEMMA FinishInv ==
    ASSUME IInv, NEW r \in Requests, Finish(r)
    PROVE  IInv'
  <1> DEFINE l == LimiterOf[r]
             was == [pc EXCEPT ![r] = "idle"]
  <1>1. l \in Limiters /\ Types /\ QueueExact
    BY WiringAssumption DEF IInv
  <1>2. /\ pc[r] = "running"
        /\ Release(l, was)
        /\ active' = [active EXCEPT ![l] = IF @ > 0 THEN @ - 1 ELSE 0]
    BY DEF Finish
  <1>3. value[l] \in Nat /\ active[l] \in Nat
    BY <1>1 DEF Types
  <1>4. active[l] > 0
    <2>1. r \in Running(l)
      BY <1>2 DEF Running, On
    <2>2. Cardinality(Running(l)) # 0 /\ Cardinality(Running(l)) \in Nat
      BY <2>1, CountsFinite, FS_EmptySet
    <2>3. active[l] = Cardinality(Running(l))
      BY <1>1 DEF IInv, SlotsConserved
    <2>4. QED
      BY <2>2, <2>3, <1>3
  <1>5. Moves(r, "idle", value[l] + 1)
    <2>1. active'[l] = active[l] - 1 /\ active' \in [Limiters -> Nat]
      BY <1>1, <1>2, <1>3, <1>4 DEF Types
    <2>2. QED
      BY <1>1, <1>2, <1>3, <2>1 DEF Moves, Held, Types
  <1>6. SameWait(was)
    BY <1>1, <1>2 DEF SameWait, Types, RequestState
  <1>7. PICK F : /\ Wakes(l, F, was)
                 /\ Cardinality(F) \in 0..1
                 /\ value' = [value EXCEPT ![l] = (@ + 1) - Cardinality(F)]
                 /\ IF F = {} THEN queue'[l] = <<>> ELSE Cardinality(F) = 1
    <2> HIDE DEF l, was
    <2>1. QED
      BY <1>1, <1>2, <1>6, ReleaseWakes, Zenon
  <1>8. HandsOver(r, "idle", F, value[l] + 1)
    <2>1. queue'[l] # <<>> => On(l, Leaving)' # {}
      <3>1. ASSUME queue'[l] # <<>> PROVE On(l, Leaving)' # {}
        <4>1. PICK s \in F : TRUE
          BY <1>7, <3>1
        <4>2. s \in Waiting(l) /\ pc'[s] = "granted"
          BY <1>7 DEF Wakes, Waiting, On
        <4>3. s \in On(l, Leaving)'
          BY <4>2 DEF On, Waiting, Leaving
        <4>4. QED
          BY <4>3
      <3>2. QED
        BY <3>1
    <2>2. Cardinality(F) \in 0..(value[l] + 1)
      BY <1>3, <1>7
    <2>3. value' = [value EXCEPT ![l] = (value[l] + 1) - Cardinality(F)]
      BY <1>7
    <2>4. QED
      BY <1>5, <1>7, <2>1, <2>2, <2>3, Zenon DEF HandsOver
  <1>9. "idle" \in RequestState /\ value[l] + 1 \in Nat
    BY <1>3 DEF RequestState
  <1>10. QED
    BY <1>8, <1>9, HandOver

\* A step that only moves r between states without a slot keeps the counts.
LEMMA SameCounts ==
    ASSUME IInv, value' = value, active' = active,
           \A l \in Limiters : Granted(l)' = Granted(l) /\ Running(l)' = Running(l)
    PROVE  SlotsConserved'
  BY DEF IInv, SlotsConserved

\* acquire() finds no slot: the request goes to the end of the queue.
LEMMA WaitInv ==
    ASSUME IInv, NEW r \in Requests, Wait(r)
    PROVE  IInv'
  <1> DEFINE l == LimiterOf[r]
             q == queue[l]
  <1>1. l \in Limiters /\ Types /\ QueueExact
    BY WiringAssumption DEF IInv
  <1>2. /\ pc[r] = "idle" /\ Locked(l)
        /\ queue' = [queue EXCEPT ![l] = Append(@, r)]
        /\ pc' = [pc EXCEPT ![r] = "waiting"]
        /\ value' = value /\ active' = active
    BY DEF Wait
  <1>3. q \in Seq(Requests) /\ Append(q, r) \in Seq(Requests)
    BY <1>1, AppendProperties DEF Types
  <1>4. Types'
    BY <1>1, <1>2, <1>3 DEF Types, RequestState
  <1>5. QueueExact'
    <2>1. ASSUME NEW k \in Limiters
          PROVE  /\ Queued(k)' = Waiting(k)'
                 /\ \A i, j \in 1..Len(queue'[k]) : queue'[k][i] = queue'[k][j] => i = j
      <3>1. CASE k = l
        <4> DEFINE a == Append(q, r)
        <4>1. queue'[l] = a
          BY <1>1, <1>2 DEF Types
        <4>2. /\ Len(q) \in Nat /\ Len(a) = Len(q) + 1
              /\ \A i \in 1..Len(q) : a[i] = q[i]
              /\ a[Len(q) + 1] = r
          BY <1>3, AppendProperties, LenProperties
        <4>3. /\ {q[i] : i \in 1..Len(q)} = Waiting(l)
              /\ \A i, j \in 1..Len(q) : q[i] = q[j] => i = j
          BY <1>1 DEF QueueExact, Queued
        <4>4. Waiting(l)' = Waiting(l) \cup {r} /\ r \notin Waiting(l)
          BY <1>1, <1>2 DEF Waiting, On, Types
        <4> HIDE DEF a, q
        <4>5. {a[i] : i \in 1..Len(a)} = {q[i] : i \in 1..Len(q)} \cup {r}
          <5> DEFINE A == {a[i] : i \in 1..Len(a)}
                     Q == {q[i] : i \in 1..Len(q)}
          <5>1. \A i \in 1..Len(a) : a[i] \in Q \cup {r}
            BY <4>2
          <5>2. \A i \in 1..Len(q) : q[i] \in A
            <6>1. \A i \in 1..Len(q) : i \in 1..Len(a)
              BY <4>2
            <6>2. QED
              BY <4>2, <6>1
          <5>3. r \in A
            BY <4>2
          <5>4. QED
            BY <5>1, <5>2, <5>3
        <4>6. \A i, j \in 1..Len(a) : a[i] = a[j] => i = j
          <5>1. \A i \in 1..Len(q) : q[i] # r
            BY <4>3, <4>4
          <5>2. QED
            BY <4>2, <4>3, <5>1
        <4>7. Queued(l)' = Waiting(l)'
          <5>1. Queued(l)' = {a[i] : i \in 1..Len(a)}
            BY <4>1 DEF Queued
          <5>2. QED
            BY <4>3, <4>4, <4>5, <5>1
        <4>8. QED
          BY <3>1, <4>1, <4>6, <4>7
      <3>2. CASE k # l
        <4>1. queue'[k] = queue[k] /\ Waiting(k)' = Waiting(k)
          BY <1>1, <1>2, <3>2 DEF Waiting, On, Types
        <4>2. QED
          BY <1>1, <4>1 DEF QueueExact, Queued
      <3>3. QED
        BY <3>1, <3>2
    <2>2. QED
      BY <2>1 DEF QueueExact
  <1>6. \A k \in Limiters : /\ Granted(k)' = Granted(k) /\ Running(k)' = Running(k)
                            /\ On(k, Leaving)' = On(k, Leaving)
    BY <1>1, <1>2 DEF Granted, Running, On, Leaving, Types
  <1>7. SlotsConserved'
    BY <1>2, <1>6, SameCounts
  <1>8. NoLostWakeup'
    <2>1. ASSUME NEW k \in Limiters, value[k] > 0, queue'[k] # <<>>
          PROVE  On(k, Leaving) # {}
      <3>1. CASE queue[k] # <<>>
        BY <2>1, <3>1 DEF IInv, NoLostWakeup, Leaving
      <3>2. CASE queue[k] = <<>>
        <4>1. k = l
          BY <1>1, <1>2, <2>1, <3>2 DEF Types
        <4>2. Granted(l) # {}
          BY <1>1, <1>2, <2>1, <3>2, <4>1 DEF Locked, Types
        <4>3. Granted(l) \in SUBSET On(l, Leaving)
          BY DEF Granted, On, Leaving
        <4>4. QED
          BY <4>1, <4>2, <4>3
      <3>3. QED
        BY <3>1, <3>2
    <2>2. QED
      BY <1>2, <1>6, <2>1 DEF NoLostWakeup, Leaving
  <1>9. QED
    BY <1>4, <1>5, <1>7, <1>8 DEF IInv

\* The wait of a request is interrupted, before or after it was granted a slot.
LEMMA InterruptInv ==
    ASSUME IInv, NEW r \in Requests, Interrupt(r)
    PROVE  IInv'
  <1> DEFINE l == LimiterOf[r]
             q == queue[l]
  <1>1. l \in Limiters /\ Types /\ QueueExact
    BY WiringAssumption DEF IInv
  <1>2. value' = value /\ active' = active
    BY DEF Interrupt
  <1>3. CASE /\ pc[r] = "waiting"
             /\ pc' = [pc EXCEPT ![r] = "dropped"]
             /\ \E i \in DOMAIN q : q[i] = r /\ queue' = [queue EXCEPT ![l] = RemoveAt(@, i)]
    <2>1. PICK i \in DOMAIN q : q[i] = r /\ queue' = [queue EXCEPT ![l] = RemoveAt(@, i)]
      BY <1>3
    <2> DEFINE rest == RemoveAt(q, i)
    <2>2. q \in Seq(Requests) /\ i \in 1..Len(q)
      BY <1>1, <2>1, LenProperties DEF Types
    <2>3. \A j, k \in 1..Len(q) : q[j] = q[k] => j = k
      BY <1>1 DEF QueueExact
    <2>4. /\ rest \in Seq(Requests)
          /\ {rest[j] : j \in 1..Len(rest)} = {q[j] : j \in 1..Len(q)} \ {q[i]}
          /\ \A j, k \in 1..Len(rest) : rest[j] = rest[k] => j = k
      <3> HIDE DEF q
      <3>1. QED
        BY <2>2, <2>3, CutOne
    <2>5. queue'[l] = rest /\ \A k \in Limiters \ {l} : queue'[k] = queue[k]
      BY <1>1, <2>1 DEF Types
    <2>6. queue' \in [Limiters -> Seq(Requests)]
      BY <1>1, <2>1, <2>4 DEF Types
    <2>7. Queued(l) = {q[j] : j \in 1..Len(q)} /\ Queued(l) = Waiting(l)
      BY <1>1 DEF Queued, QueueExact
    <2> HIDE DEF rest, q
    <2>8. Types'
      BY <1>1, <1>2, <1>3, <2>6 DEF Types, RequestState
    <2>9. QueueExact'
      <3>1. ASSUME NEW k \in Limiters
            PROVE  /\ Queued(k)' = Waiting(k)'
                   /\ \A m, n \in 1..Len(queue'[k]) : queue'[k][m] = queue'[k][n] => m = n
        <4>1. CASE k = l
          <5>1. Queued(l)' = {rest[j] : j \in 1..Len(rest)}
            BY <2>5 DEF Queued
          <5>2. Waiting(l)' = Waiting(l) \ {r}
            BY <1>1, <1>3 DEF Waiting, On, Types
          <5>3. Queued(l)' = Waiting(l)'
            BY <2>1, <2>4, <2>7, <5>1, <5>2
          <5>4. QED
            BY <4>1, <2>4, <2>5, <5>3
        <4>2. CASE k # l
          <5>1. queue'[k] = queue[k] /\ Waiting(k)' = Waiting(k)
            BY <1>1, <1>3, <2>5, <4>2 DEF Waiting, On, Types
          <5>2. QED
            BY <1>1, <5>1 DEF QueueExact, Queued
        <4>3. QED
          BY <4>1, <4>2
      <3>2. QED
        BY <3>1 DEF QueueExact
    <2>10. \A k \in Limiters : Granted(k)' = Granted(k) /\ Running(k)' = Running(k)
      BY <1>1, <1>3 DEF Granted, Running, On, Types
    <2>11. SlotsConserved'
      BY <1>2, <2>10, SameCounts
    <2>12. NoLostWakeup'
      <3>1. ASSUME NEW k \in Limiters, value[k] > 0, queue'[k] # <<>>
            PROVE  On(k, Leaving)' # {}
        <4>1. CASE k = l
          <5>1. r \in On(l, Leaving)'
            BY <1>1, <1>3 DEF On, Leaving, Types
          <5>2. QED
            BY <4>1, <5>1
        <4>2. CASE k # l
          <5>1. queue'[k] = queue[k] /\ On(k, Leaving)' = On(k, Leaving)
            BY <1>1, <1>3, <2>5, <4>2 DEF On, Types
          <5>2. QED
            BY <3>1, <5>1 DEF IInv, NoLostWakeup, Leaving
        <4>3. QED
          BY <4>1, <4>2
      <3>2. QED
        BY <1>2, <3>1 DEF NoLostWakeup, Leaving
    <2>13. QED
      BY <2>8, <2>9, <2>11, <2>12 DEF IInv
  <1>4. CASE /\ pc[r] = "granted"
             /\ pc' = [pc EXCEPT ![r] = "grantedDropped"]
             /\ queue' = queue
    <2>1. Types'
      BY <1>1, <1>2, <1>4 DEF Types, RequestState
    <2>2. \A k \in Limiters : /\ Granted(k)' = Granted(k) /\ Running(k)' = Running(k)
                              /\ Waiting(k)' = Waiting(k)
                              /\ On(k, Leaving)' = On(k, Leaving)
      BY <1>1, <1>4 DEF Granted, Running, Waiting, On, Leaving, Types
    <2>3. QueueExact'
      BY <1>1, <1>4, <2>2 DEF QueueExact, Queued
    <2>4. SlotsConserved'
      BY <1>2, <2>2, SameCounts
    <2>5. NoLostWakeup'
      BY <1>2, <1>4, <2>2 DEF IInv, NoLostWakeup, Leaving
    <2>6. QED
      BY <2>1, <2>3, <2>4, <2>5 DEF IInv
  <1>5. QED
    BY <1>3, <1>4 DEF Interrupt

\* Every step keeps the invariant.
LEMMA InvNext == IInv /\ [Next]_vars => IInv'
  <1> SUFFICES ASSUME IInv, [Next]_vars PROVE IInv'
    OBVIOUS
  <1>1. ASSUME NEW r \in Requests, StartAtOnce(r) PROVE IInv'
    BY <1>1, StartAtOnceInv
  <1>2. ASSUME NEW r \in Requests, Wait(r) PROVE IInv'
    BY <1>2, WaitInv
  <1>3. ASSUME NEW r \in Requests, StartGranted(r) PROVE IInv'
    BY <1>3, StartGrantedInv
  <1>4. ASSUME NEW r \in Requests, Interrupt(r) PROVE IInv'
    BY <1>4, InterruptInv
  <1>5. ASSUME NEW r \in Requests, Reject(r) PROVE IInv'
    BY <1>5, RejectInv
  <1>6. ASSUME NEW r \in Requests, Finish(r) PROVE IInv'
    BY <1>6, FinishInv
  <1>7. CASE UNCHANGED vars
    <2>1. value' = value /\ queue' = queue /\ active' = active /\ pc' = pc
      BY <1>7 DEF vars
    <2>2. Types'
      BY <2>1 DEF IInv, Types
    <2>3. \A k : /\ Granted(k)' = Granted(k) /\ Running(k)' = Running(k)
                 /\ Waiting(k)' = Waiting(k) /\ Queued(k)' = Queued(k)
                 /\ On(k, Leaving)' = On(k, Leaving)
      BY <2>1 DEF Granted, Running, Waiting, Queued, On
    <2>4. QueueExact'
      BY <2>1, <2>3 DEF IInv, QueueExact
    <2>5. SlotsConserved'
      BY <2>1, <2>3, SameCounts
    <2>6. NoLostWakeup'
      BY <2>1, <2>3 DEF IInv, NoLostWakeup, Leaving
    <2>7. QED
      BY <2>2, <2>4, <2>5, <2>6 DEF IInv
  <1>8. QED
    BY <1>1, <1>2, <1>3, <1>4, <1>5, <1>6, <1>7 DEF Next

----------------------------------------------------------------------------
(* Theorems *)

\* The inductive invariant, from which the theorems below follow: slots are
\* conserved because the queue holds exactly the requests whose futures are
\* pending (load_guard.py:137-151).
THEOREM Inductive == Spec => []IInv
  BY InvInit, InvNext, PTL DEF Spec

\* AgentExecutionLimiter never loses or invents a slot, whatever timeouts and
\* cancellations meet the hand-over, and _active counts the running executions.
THEOREM SlotsConservedAlways == Spec => []SlotsConserved
  BY Inductive, PTL DEF IInv

\* A free slot beside a waiting request is always on its way: a task that will
\* pass it on has yet to run.
THEOREM NoLostWakeupAlways == Spec => []NoLostWakeup
  BY Inductive, PTL DEF IInv

\* The variables keep their ranges; the semaphore never exceeds max_agents.
THEOREM TypeCorrect == Spec => []TypeOK
  <1>1. IInv => TypeOK
    <2> SUFFICES ASSUME IInv PROVE TypeOK
      OBVIOUS
    <2>1. ASSUME NEW l \in Limiters PROVE value[l] \in 0..MaxAgents
      <3>1. value[l] + Cardinality(Granted(l)) + Cardinality(Running(l)) = MaxAgents
        BY DEF IInv, SlotsConserved
      <3>2. value[l] \in Nat
        BY DEF IInv, Types
      <3>3. Cardinality(Granted(l)) \in Nat /\ Cardinality(Running(l)) \in Nat
        BY CountsFinite
      <3>4. QED
        BY <3>1, <3>2, <3>3, MaxAgentsAssumption
    <2>2. value \in [Limiters -> 0..MaxAgents]
      BY <2>1 DEF IInv, Types
    <2>3. QED
      BY <2>2 DEF IInv, Types, TypeOK
  <1>2. QED
    BY <1>1, Inductive, PTL

\* max_agents bounds the executions of every limiter.
THEOREM AtMostMaxAgents == Spec => [](\A l \in Limiters : Cardinality(Running(l)) <= MaxAgents)
  <1>1. IInv => \A l \in Limiters : Cardinality(Running(l)) <= MaxAgents
    <2> SUFFICES ASSUME IInv, NEW l \in Limiters PROVE Cardinality(Running(l)) <= MaxAgents
      OBVIOUS
    <2>1. /\ value[l] + Cardinality(Granted(l)) + Cardinality(Running(l)) = MaxAgents
          /\ value[l] \in Nat
      BY DEF IInv, SlotsConserved, Types
    <2>2. QED
      BY <2>1, CountsFinite, MaxAgentsAssumption
  <1>2. QED
    BY <1>1, Inductive, PTL

=============================================================================
