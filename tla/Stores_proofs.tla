---------------------------- MODULE Stores_proofs ----------------------------
(***************************************************************************)
(* Proofs about the stores: the semantic cache and the FAISS files.        *)
(*                                                                         *)
(*   SemanticCache, for every set of tasks and queries, every similarity,  *)
(*   threshold, time to live and limit of entries: what is cached stays    *)
(*   indexed, a hit answers with the nearest entry, and an eviction that   *)
(*   nobody interferes with leaves the most recently used (Victims).       *)
(*                                                                         *)
(*   FaissStore, for any sessions, batches, faults and any symmetric       *)
(*   similarity: copies are bounded by insertions (CopiesInv); sessions and*)
(*   files that met no other save stay paired, what was saved is there but *)
(*   for what an older or unreadable store took away (PairedInv, SavedInv);*)
(*   and maintenance removes duplicates only.                              *)
(***************************************************************************)
EXTENDS Stores, FiniteSetTheorems, WellFoundedInduction, TLAPS

(***************************************************************************)
(* SemanticCache                                                           *)
(***************************************************************************)

Busy == {"scanning", "touching"}

\* A task that has yet to score a member by its stamp took the time, and knows
\* which member.
Stamped(t) ==
    /\ At(t, "writing") => job[t].query \in Query /\ job[t].stamp # 0
    /\ At(t, "touching") => job[t].best \in Query /\ job[t].stamp # 0

\* The look-up of t has a best that is as near as everything it has read and that
\* has been there all the time.
Compared(t) ==
    job[t].at \in Busy =>
        /\ job[t].query \in Query
        /\ \A k \in steady[t] : Live(k)
        /\ \A k \in steady[t] \ job[t].todo : Points(t, k) <= Points(t, job[t].best)

\* The look-up of t that made a hit has read everything.
Answered(t) ==
    At(t, "touching") => job[t].todo = {} /\ Points(t, job[t].best) >= Threshold

Kept(t) == Stamped(t) /\ Compared(t) /\ Answered(t)

IInv == /\ TypeOK
        /\ LiveIndexed
        /\ \A t \in Tasks : Kept(t)

----------------------------------------------------------------------------
(* Types *)

\* The idle job is a job.
LEMMA NoJobType == NoJob \in Job
  <1>1. Cardinality(Query) \in Nat
    BY TasksAssumption, FS_CardinalityType
  <1>2. QED
    BY <1>1, LimitAssumption DEF NoJob, Job, TaskState

\* What is too many is a number of queries.
LEMMA ExcessType ==
    ASSUME Cardinality(Members) > MaxEntries
    PROVE  Cardinality(Members) - MaxEntries \in 0..Cardinality(Query)
  <1>1. Members \subseteq Query
    BY DEF Members
  <1>2. /\ Cardinality(Members) \in Nat /\ Cardinality(Query) \in Nat
        /\ Cardinality(Members) <= Cardinality(Query)
    BY <1>1, TasksAssumption, FS_Subset, FS_CardinalityType
  <1>3. QED
    BY <1>2, LimitAssumption

\* The history keeps its types.
LEMMA RecallType ==
    ASSUME TypeOK, Recall
    PROVE  steady' \in [Tasks -> SUBSET Query] /\ alone' \in [Tasks -> BOOLEAN]
  <1>1. ASSUME NEW t \in Tasks PROVE steady'[t] \subseteq Query
    BY <1>1 DEF TypeOK, Recall, Members
  <1>2. alone' \in [Tasks -> BOOLEAN]
    BY DEF Recall
  <1>3. QED
    BY <1>1, <1>2 DEF Recall

\* A step that changes one job to another of the right type keeps the types.
LEMMA JobChanges ==
    ASSUME TypeOK, Recall, NEW t \in Tasks, NEW j \in Job, job' = [job EXCEPT ![t] = j],
           now' = now, expires' \in [Query -> 0..(MaxTime + TTL)], index' \in [Query -> 0..MaxTime]
    PROVE  TypeOK'
  BY RecallType DEF TypeOK

\* Every variable keeps its range (semantic_cache.py:59-225).
THEOREM TypeCorrect == Spec => []TypeOK
  <1>1. Init => TypeOK
    BY NoJobType, LimitAssumption DEF Init, TypeOK
  <1>2. TypeOK /\ [Next]_vars => TypeOK'
    <2> SUFFICES ASSUME TypeOK, [Next]_vars PROVE TypeOK'
      OBVIOUS
    <2>0. /\ now \in 1..MaxTime /\ job \in [Tasks -> Job]
          /\ expires \in [Query -> 0..(MaxTime + TTL)] /\ index \in [Query -> 0..MaxTime]
          /\ now \in 0..MaxTime /\ now + TTL \in 0..(MaxTime + TTL)
          /\ 0 \in 0..MaxTime /\ 0 \in 0..(MaxTime + TTL)
      BY LimitAssumption DEF TypeOK
    <2>1. CASE Tick
      BY <2>1, <2>0, RecallType, LimitAssumption DEF Tick, TypeOK, keys
    <2>2. ASSUME NEW t \in Tasks, Answer(t) PROVE TypeOK'
      <3>1. CASE Points(t, job[t].best) >= Threshold /\ Live(job[t].best)
        <4>1. job' = [job EXCEPT ![t] = [job[t] EXCEPT !.at = "touching", !.stamp = now]]
          BY <2>2, <3>1, <2>0 DEF Answer, Job
        <4>2. [job[t] EXCEPT !.at = "touching", !.stamp = now] \in Job
          BY <2>0 DEF Job, TaskState
        <4>3. QED
          BY <2>0, <2>2, <4>1, <4>2, JobChanges DEF Answer, keys
      <3>2. CASE ~(Points(t, job[t].best) >= Threshold /\ Live(job[t].best))
        BY <2>0, <2>2, <3>2, NoJobType, JobChanges DEF Answer, Finish, keys
      <3>3. QED
        BY <3>1, <3>2
    <2>3. ASSUME NEW t \in Tasks, Touch(t) PROVE TypeOK'
      <3>1. PICK s \in job[t].stamp..now : index' = [index EXCEPT ![job[t].best] = s]
        BY <2>3 DEF Touch
      <3>2. job[t].stamp \in Nat
        BY <2>0, LimitAssumption DEF Job
      <3>3. s \in 0..MaxTime
        BY <3>1, <3>2, <2>0, LimitAssumption
      <3>4. index' \in [Query -> 0..MaxTime]
        BY <3>1, <3>3, <2>0
      <3>5. QED
        BY <2>0, <2>3, <3>4, NoJobType, JobChanges DEF Touch, Finish
    <2>4. ASSUME NEW t \in Tasks, Write(t) PROVE TypeOK'
      <3>1. [NoJob EXCEPT !.at = "counting"] \in Job
        BY NoJobType DEF Job, TaskState
      <3>2. job[t].stamp \in 0..MaxTime
        BY <2>0 DEF Job
      <3>3. index' \in [Query -> 0..MaxTime] /\ expires' \in [Query -> 0..(MaxTime + TTL)]
        BY <2>0, <2>4, <3>2 DEF Write
      <3>4. QED
        BY <2>4, <3>1, <3>3, JobChanges DEF Write
    <2>5. ASSUME NEW t \in Tasks, Count(t) PROVE TypeOK'
      <3>1. CASE Cardinality(Members) > MaxEntries
        <4> DEFINE x == Cardinality(Members) - MaxEntries
        <4>1. x \in 0..Cardinality(Query)
          BY <3>1, ExcessType
        <4> HIDE DEF x
        <4>2. job' = [job EXCEPT ![t] = [job[t] EXCEPT !.at = "choosing", !.excess = x]]
          BY <2>0, <2>5, <3>1 DEF Count, Job, x
        <4>3. [job[t] EXCEPT !.at = "choosing", !.excess = x] \in Job
          BY <2>0, <4>1 DEF Job, TaskState
        <4>4. QED
          BY <2>0, <2>5, <4>2, <4>3, JobChanges DEF Count, keys
      <3>2. CASE ~(Cardinality(Members) > MaxEntries)
        BY <2>0, <2>5, <3>2, NoJobType, JobChanges DEF Count, Finish, keys
      <3>3. QED
        BY <3>1, <3>2
    <2>6. ASSUME NEW t \in Tasks, Choose(t) PROVE TypeOK'
      <3>1. PICK V \in Oldest(job[t].excess) :
              IF V = {} THEN Finish(t)
                        ELSE job' = [job EXCEPT ![t] = [NoJob EXCEPT !.at = "evicting", !.todo = V]]
        BY <2>6 DEF Choose
      <3>2. [NoJob EXCEPT !.at = "evicting", !.todo = V] \in Job
        BY <3>1, NoJobType DEF Job, TaskState, Oldest, Members
      <3>3. QED
        BY <2>0, <2>6, <3>1, <3>2, NoJobType, JobChanges DEF Choose, Finish, keys
    <2>7. ASSUME NEW t \in Tasks, Clear(t) PROVE TypeOK'
      <3>1. [NoJob EXCEPT !.at = "evicting", !.todo = Members] \in Job
        BY NoJobType DEF Job, TaskState, Members
      <3>2. QED
        BY <2>0, <2>7, <3>1, JobChanges DEF Clear, keys
    <2>8. ASSUME NEW t \in Tasks, Cancel(t) PROVE TypeOK'
      BY <2>0, <2>8, NoJobType, JobChanges DEF Cancel, Finish, keys
    <2>9. ASSUME NEW t \in Tasks, NEW q \in Query, LookUp(t, q) PROVE TypeOK'
      <3>1. [NoJob EXCEPT !.at = "scanning", !.query = q, !.todo = Members] \in Job
        BY NoJobType DEF Job, TaskState, Members
      <3>2. QED
        BY <2>0, <2>9, <3>1, JobChanges DEF LookUp, keys
    <2>10. ASSUME NEW t \in Tasks, NEW k \in Query, Scan(t, k) PROVE TypeOK'
      <3> DEFINE b == IF Live(k) /\ Points(t, k) > Points(t, job[t].best) THEN k ELSE job[t].best
      <3>1. job' = [job EXCEPT ![t] = [job[t] EXCEPT !.todo = @ \ {k}, !.best = b]]
        BY <2>0, <2>10 DEF Scan, Job
      <3>2. b \in Query \cup {NoEntry}
        BY <2>0 DEF Job
      <3> HIDE DEF b
      <3>3. [job[t] EXCEPT !.todo = @ \ {k}, !.best = b] \in Job
        BY <2>0, <3>2 DEF Job
      <3>4. QED
        BY <2>0, <2>10, <3>1, <3>3, JobChanges DEF Scan, keys
    <2>11. ASSUME NEW t \in Tasks, NEW q \in Query, Cache(t, q) PROVE TypeOK'
      <3>1. [NoJob EXCEPT !.at = "writing", !.query = q, !.stamp = now] \in Job
        BY <2>0, NoJobType DEF Job, TaskState
      <3>2. QED
        BY <2>0, <2>11, <3>1, JobChanges DEF Cache, keys
    <2>12. ASSUME NEW t \in Tasks, NEW k \in Query, Evict(t, k) PROVE TypeOK'
      <3>1. index' \in [Query -> 0..MaxTime] /\ expires' \in [Query -> 0..(MaxTime + TTL)]
        BY <2>0, <2>12 DEF Evict, Remove
      <3>2. CASE job[t].todo = {k}
        BY <2>12, <3>1, <3>2, NoJobType, JobChanges DEF Evict, Finish
      <3>3. CASE job[t].todo # {k}
        <4>1. job' = [job EXCEPT ![t] = [job[t] EXCEPT !.todo = @ \ {k}]]
          BY <2>0, <2>12, <3>3 DEF Evict, Job
        <4>2. [job[t] EXCEPT !.todo = @ \ {k}] \in Job
          BY <2>0 DEF Job
        <4>3. QED
          BY <2>12, <3>1, <4>1, <4>2, JobChanges DEF Evict
      <3>4. QED
        BY <3>2, <3>3
    <2>13. ASSUME NEW t \in Tasks, NEW k \in Query, Invalidate(t, k) PROVE TypeOK'
      <3>1. index' \in [Query -> 0..MaxTime] /\ expires' \in [Query -> 0..(MaxTime + TTL)]
        BY <2>0, <2>13 DEF Invalidate, Remove
      <3>2. QED
        BY <2>0, <2>13, <3>1, RecallType DEF Invalidate, TypeOK
    <2>14. CASE UNCHANGED vars
      BY <2>14 DEF vars, TypeOK
    <2>15. QED
      BY <2>1, <2>2, <2>3, <2>4, <2>5, <2>6, <2>7, <2>8, <2>9, <2>10, <2>11, <2>12, <2>13, <2>14
         DEF Next
  <1>3. QED
    BY <1>1, <1>2, PTL DEF Spec


----------------------------------------------------------------------------
(* The invariant *)

\* Whatever else happens, a task that does nothing keeps its part.
LEMMA BystanderKeeps ==
    ASSUME Recall, NEW u \in Tasks, Kept(u), job'[u] = job[u]
    PROVE  Kept(u)'
  <1>1. \A k : Points(u, k)' = Points(u, k)
    BY DEF Points
  <1>2. ASSUME job[u].at \in Busy
        PROVE  steady'[u] = {k \in steady[u] : expires'[k] > now'}
    BY <1>2 DEF Recall, Busy, At
  <1>3. Stamped(u)' /\ Answered(u)'
    BY <1>1 DEF Kept, Stamped, Answered, At
  <1>4. Compared(u)'
    BY <1>1, <1>2 DEF Kept, Compared, Live
  <1>5. QED
    BY <1>3, <1>4 DEF Kept

\* A task that is about nothing of the kind has no part.
LEMMA NoPart ==
    ASSUME NEW t \in Tasks, job'[t].at \notin {"scanning", "touching", "writing"}
    PROVE  Kept(t)'
  BY DEF Kept, Stamped, Compared, Answered, At, Busy

\* A step of t alone keeps the invariant if t keeps its part and the index its own.
LEMMA OneActs ==
    ASSUME IInv, TypeOK', Recall, NEW t \in Tasks, NEW j, job' = [job EXCEPT ![t] = j],
           Kept(t)', LiveIndexed'
    PROVE  IInv'
  <1>1. ASSUME NEW u \in Tasks, u # t PROVE Kept(u)'
    <2>1. job'[u] = job[u]
      BY <1>1 DEF IInv, TypeOK
    <2>2. QED
      BY <2>1, BystanderKeeps DEF IInv
  <1>2. QED
    BY <1>1 DEF IInv

\* What touches no key keeps the index.
LEMMA SameKeys ==
    ASSUME LiveIndexed, UNCHANGED <<now, keys>>
    PROVE  LiveIndexed'
  BY DEF LiveIndexed, Live, Members, keys

\* An entry that goes with its member leaves the others indexed.
LEMMA RemoveKeeps ==
    ASSUME IInv, NEW k \in Query, Remove(k), now' = now
    PROVE  LiveIndexed'
  BY DEF IInv, TypeOK, LiveIndexed, Live, Members, Remove

\* One look-up command compares one entry with the best so far.
LEMMA ScanKeeps ==
    ASSUME IInv, NEW t \in Tasks, NEW k \in Query, Scan(t, k)
    PROVE  Kept(t)'
  <1> DEFINE b == IF Live(k) /\ Points(t, k) > Points(t, job[t].best) THEN k ELSE job[t].best
  <1>1. /\ job'[t] = [job[t] EXCEPT !.todo = @ \ {k}, !.best = b]
        /\ At(t, "scanning") /\ k \in job[t].todo
    BY DEF Scan, IInv, TypeOK, Job
  <1>2. job[t] \in Job
    BY DEF IInv, TypeOK
  <1> HIDE DEF b
  <1>3. /\ job'[t].at = "scanning" /\ job'[t].query = job[t].query
        /\ job'[t].todo = job[t].todo \ {k} /\ job'[t].best = b
    BY <1>1, <1>2 DEF Job, At
  <1>4. \A x : Points(t, x)' = Points(t, x)
    BY <1>3 DEF Points
  <1>5. /\ job[t].query \in Query
        /\ \A x \in steady[t] : Live(x)
        /\ \A x \in steady[t] \ job[t].todo : Points(t, x) <= Points(t, job[t].best)
    <2>1. Compared(t)
      BY DEF IInv, Kept
    <2>2. job[t].at \in Busy
      BY <1>1 DEF At, Busy
    <2>3. QED
      BY <2>1, <2>2 DEF Compared
  <1>6. /\ steady'[t] \subseteq steady[t]
        /\ \A x \in steady'[t] : Live(x)'
    BY <1>1, <1>3 DEF Scan, Recall, At, Live
  <1>7. \A x \in Query \cup {NoEntry} : Points(t, x) \in Nat
    <2>1. job[t].query \in Query
      BY <1>5
    <2>2. ASSUME NEW x \in Query PROVE Score[job[t].query, x] \in Nat
      BY <2>1, ScoreAssumption
    <2>3. QED
      BY <2>2 DEF Points
  <1>8. b \in Query \cup {NoEntry} /\ job[t].best \in Query \cup {NoEntry}
    BY <1>2 DEF b, Job
  <1>9. /\ Points(t, job[t].best) <= Points(t, b)
        /\ Live(k) => Points(t, k) <= Points(t, b)
    BY <1>7, <1>8 DEF b
  <1>10. ASSUME NEW x \in steady'[t], x \notin job'[t].todo
         PROVE  Points(t, x) <= Points(t, b)
    <2>1. x \in steady[t] /\ x \in Query
      BY <1>6, <1>10 DEF IInv, TypeOK
    <2>2. CASE x = k
      BY <1>5, <1>9, <2>1, <2>2
    <2>3. CASE x # k
      <3>1. Points(t, x) <= Points(t, job[t].best)
        BY <1>3, <1>5, <1>10, <2>1, <2>3
      <3>2. QED
        BY <3>1, <1>7, <1>8, <1>9, <2>1
    <2>4. QED
      BY <2>2, <2>3
  <1>11. Compared(t)'
    BY <1>3, <1>4, <1>5, <1>6, <1>10 DEF Compared
  <1>12. Stamped(t)' /\ Answered(t)'
    BY <1>3 DEF Stamped, Answered, At
  <1>13. QED
    BY <1>11, <1>12 DEF Kept

\* The best response read is the answer only if its best reached the threshold.
LEMMA AnswerKeeps ==
    ASSUME IInv, NEW t \in Tasks, Answer(t)
    PROVE  Kept(t)'
  <1>1. CASE Points(t, job[t].best) >= Threshold /\ Live(job[t].best)
    <2>1. /\ job[t] \in Job /\ now \in Nat /\ now # 0
      BY LimitAssumption DEF IInv, TypeOK
    <2>2. /\ job'[t].at = "touching" /\ job'[t].query = job[t].query
          /\ job'[t].todo = {} /\ job'[t].best = job[t].best /\ job'[t].stamp = now
      BY <1>1, <2>1 DEF Answer, IInv, TypeOK, Job
    <2>3. \A x : Points(t, x)' = Points(t, x)
      BY <2>2 DEF Points
    <2>4. job[t].best \in Query
      <3>1. ASSUME job[t].best = NoEntry PROVE FALSE
        <4>1. Points(t, job[t].best) = 0
          BY <3>1 DEF Points
        <4>2. QED
          BY <4>1, <1>1, ScoreAssumption
      <3>2. QED
        BY <2>1, <3>1 DEF Job
    <2>5. At(t, "scanning") /\ job[t].todo = {}
      BY DEF Answer
    <2>6. /\ steady'[t] \subseteq steady[t]
          /\ \A x \in steady'[t] : Live(x)'
      BY <2>2, <2>5 DEF Answer, Recall, At, Live
    <2>7. Compared(t)'
      BY <2>2, <2>3, <2>5, <2>6 DEF IInv, Kept, Compared, At, Busy
    <2>8. Stamped(t)' /\ Answered(t)'
      BY <1>1, <2>1, <2>2, <2>3, <2>4 DEF Stamped, Answered, At
    <2>9. QED
      BY <2>7, <2>8 DEF Kept
  <1>2. CASE ~(Points(t, job[t].best) >= Threshold /\ Live(job[t].best))
    <2>1. job'[t] = NoJob
      BY <1>2 DEF Answer, Finish, IInv, TypeOK
    <2>2. QED
      BY <2>1, NoPart DEF NoJob
  <1>3. QED
    BY <1>1, <1>2

\* The invariant is inductive.
LEMMA InvNext == IInv /\ TypeOK' /\ [Next]_vars => IInv'
  <1> SUFFICES ASSUME IInv, TypeOK', [Next]_vars PROVE IInv'
    OBVIOUS
  <1>0. /\ job \in [Tasks -> Job] /\ now \in Nat /\ now # 0 /\ LiveIndexed
        /\ expires \in [Query -> Nat] /\ index \in [Query -> Nat]
    BY LimitAssumption DEF IInv, TypeOK
  <1>1. CASE Tick
    <2>1. LiveIndexed'
      BY <1>0, <1>1 DEF Tick, LiveIndexed, Live, Members, keys
    <2>2. QED
      BY <1>1, <2>1, BystanderKeeps DEF Tick, IInv
  <1>2. ASSUME NEW t \in Tasks, Answer(t) PROVE IInv'
    <2>1. \E j : job' = [job EXCEPT ![t] = j]
      <3>1. CASE Points(t, job[t].best) >= Threshold /\ Live(job[t].best)
        <4>1. job' = [job EXCEPT ![t] = [job[t] EXCEPT !.at = "touching", !.stamp = now]]
          BY <1>0, <1>2, <3>1 DEF Answer, Job
        <4>2. QED
          BY <4>1
      <3>2. CASE ~(Points(t, job[t].best) >= Threshold /\ Live(job[t].best))
        BY <1>2, <3>2 DEF Answer, Finish
      <3>3. QED
        BY <3>1, <3>2
    <2>2. QED
      BY <1>2, <2>1, AnswerKeeps, SameKeys, OneActs DEF Answer, IInv
  <1>3. ASSUME NEW t \in Tasks, Touch(t) PROVE IInv'
    <2>1. Kept(t)'
      BY <1>0, <1>3, NoPart DEF Touch, Finish, NoJob
    <2>2. PICK s \in job[t].stamp..now : index' = [index EXCEPT ![job[t].best] = s]
      BY <1>3 DEF Touch
    <2>3. s # 0 /\ job[t].best \in Query
      BY <1>0, <1>3, <2>2, LimitAssumption DEF Touch, IInv, Kept, Stamped, Job
    <2>4. LiveIndexed'
      BY <1>0, <1>3, <2>2, <2>3 DEF Touch, LiveIndexed, Live, Members
    <2>5. QED
      BY <1>3, <2>1, <2>4, OneActs DEF Touch, Finish
  <1>4. ASSUME NEW t \in Tasks, Write(t) PROVE IInv'
    <2>1. job'[t].at = "counting"
      BY <1>0, <1>4 DEF Write, NoJob
    <2>2. job[t].query \in Query /\ job[t].stamp # 0
      BY <1>4 DEF Write, IInv, Kept, Stamped
    <2>3. LiveIndexed'
      BY <1>0, <1>4, <2>2 DEF Write, LiveIndexed, Live, Members
    <2>4. QED
      BY <1>4, <2>1, <2>3, NoPart, OneActs DEF Write
  <1>5. ASSUME NEW t \in Tasks, Count(t) PROVE IInv'
    <2>1. CASE Cardinality(Members) > MaxEntries
      <3> DEFINE j == [job[t] EXCEPT !.at = "choosing", !.excess = Cardinality(Members) - MaxEntries]
      <3>1. job' = [job EXCEPT ![t] = j] /\ job'[t].at = "choosing"
        BY <1>0, <1>5, <2>1 DEF Count, Job
      <3>2. QED
        BY <1>5, <3>1, NoPart, SameKeys, OneActs DEF Count, IInv
    <2>2. CASE ~(Cardinality(Members) > MaxEntries)
      <3>1. job' = [job EXCEPT ![t] = NoJob] /\ job'[t].at = "idle"
        BY <1>0, <1>5, <2>2 DEF Count, Finish, NoJob
      <3>2. QED
        BY <1>5, <3>1, NoPart, SameKeys, OneActs DEF Count, IInv
    <2>3. QED
      BY <2>1, <2>2
  <1>6. ASSUME NEW t \in Tasks, Choose(t) PROVE IInv'
    <2>1. PICK V \in Oldest(job[t].excess) :
            IF V = {} THEN Finish(t)
                      ELSE job' = [job EXCEPT ![t] = [NoJob EXCEPT !.at = "evicting", !.todo = V]]
      BY <1>6 DEF Choose
    <2>2. /\ \E j : job' = [job EXCEPT ![t] = j]
          /\ job'[t].at \in {"idle", "evicting"}
      <3>1. CASE V = {}
        BY <1>0, <2>1, <3>1 DEF Finish, NoJob
      <3>2. CASE V # {}
        BY <1>0, <2>1, <3>2 DEF NoJob
      <3>3. QED
        BY <3>1, <3>2
    <2>3. QED
      BY <1>6, <2>2, NoPart, SameKeys, OneActs DEF Choose, IInv
  <1>7. ASSUME NEW t \in Tasks, Clear(t) PROVE IInv'
    <2>1. job'[t].at = "evicting"
      BY <1>0, <1>7 DEF Clear, NoJob
    <2>2. QED
      BY <1>7, <2>1, NoPart, SameKeys, OneActs DEF Clear, IInv
  <1>8. ASSUME NEW t \in Tasks, Cancel(t) PROVE IInv'
    <2>1. job'[t].at = "idle"
      BY <1>0, <1>8 DEF Cancel, Finish, NoJob
    <2>2. QED
      BY <1>8, <2>1, NoPart, SameKeys, OneActs DEF Cancel, Finish, IInv
  <1>9. ASSUME NEW t \in Tasks, NEW q \in Query, LookUp(t, q) PROVE IInv'
    <2>1. /\ job'[t].at = "scanning" /\ job'[t].query = q /\ job'[t].todo = Members
      BY <1>0, <1>9 DEF LookUp, NoJob
    <2>2. steady'[t] = {k \in Members : expires'[k] > now'}
      BY <1>9, <2>1 DEF LookUp, Recall
    <2>3. Kept(t)'
      BY <2>1, <2>2 DEF Kept, Stamped, Compared, Answered, At, Live
    <2>4. QED
      BY <1>9, <2>3, SameKeys, OneActs DEF LookUp, IInv
  <1>10. ASSUME NEW t \in Tasks, NEW k \in Query, Scan(t, k) PROVE IInv'
    <2> DEFINE b == IF Live(k) /\ Points(t, k) > Points(t, job[t].best) THEN k ELSE job[t].best
    <2>1. job' = [job EXCEPT ![t] = [job[t] EXCEPT !.todo = @ \ {k}, !.best = b]]
      BY <1>0, <1>10 DEF Scan, Job
    <2>2. QED
      BY <1>10, <2>1, ScanKeeps, SameKeys, OneActs DEF Scan, IInv
  <1>11. ASSUME NEW t \in Tasks, NEW q \in Query, Cache(t, q) PROVE IInv'
    <2>1. job'[t].at = "writing" /\ job'[t].query = q /\ job'[t].stamp = now
      BY <1>0, <1>11 DEF Cache, NoJob
    <2>2. Kept(t)'
      BY <1>0, <2>1 DEF Kept, Stamped, Compared, Answered, At, Busy
    <2>3. QED
      BY <1>11, <2>2, SameKeys, OneActs DEF Cache, IInv
  <1>12. ASSUME NEW t \in Tasks, NEW k \in Query, Evict(t, k) PROVE IInv'
    <2>1. LiveIndexed'
      BY <1>12, RemoveKeeps DEF Evict
    <2>2. /\ \E j : job' = [job EXCEPT ![t] = j]
          /\ job'[t].at \in {"idle", "evicting"}
      <3>1. CASE job[t].todo = {k}
        BY <1>0, <1>12, <3>1 DEF Evict, Finish, NoJob
      <3>2. CASE job[t].todo # {k}
        <4>1. /\ job' = [job EXCEPT ![t] = [job[t] EXCEPT !.todo = @ \ {k}]]
              /\ job'[t].at = "evicting"
          BY <1>0, <1>12, <3>2 DEF Evict, Job, At
        <4>2. QED
          BY <4>1
      <3>3. QED
        BY <3>1, <3>2
    <2>3. QED
      BY <1>12, <2>1, <2>2, NoPart, OneActs DEF Evict
  <1>13. ASSUME NEW t \in Tasks, NEW k \in Query, Invalidate(t, k) PROVE IInv'
    <2>1. LiveIndexed'
      BY <1>13, RemoveKeeps DEF Invalidate
    <2>2. QED
      BY <1>13, <2>1, BystanderKeeps DEF Invalidate, IInv
  <1>14. CASE UNCHANGED vars
    BY <1>14 DEF vars, IInv, LiveIndexed, Live, Members, Kept, Stamped, Compared, Answered, At, Points
  <1>15. QED
    BY <1>1, <1>2, <1>3, <1>4, <1>5, <1>6, <1>7, <1>8, <1>9, <1>10, <1>11, <1>12, <1>13, <1>14
       DEF Next

\* The inductive invariant, from which the theorems below follow.
THEOREM Inductive == Spec => []IInv
  <1>1. Init => IInv
    <2> SUFFICES ASSUME Init PROVE IInv
      OBVIOUS
    <2>1. TypeOK
      BY NoJobType, LimitAssumption DEF Init, TypeOK
    <2>2. LiveIndexed
      BY DEF Init, LiveIndexed, Live
    <2>3. \A t \in Tasks : Kept(t)
      BY DEF Init, NoJob, Kept, Stamped, Compared, Answered, At, Busy
    <2>4. QED
      BY <2>1, <2>2, <2>3 DEF IInv
  <1>2. QED
    BY <1>1, InvNext, TypeCorrect, PTL DEF Spec

----------------------------------------------------------------------------
(* Theorems *)

\* Whatever tasks overlap and wherever they are cancelled, a response that has not
\* expired has a member in the index (semantic_cache.py:163-168, 217-225).
THEOREM LiveIndexedAlways == Spec => []LiveIndexed
  BY Inductive, PTL DEF IInv

\* A hit reaches the threshold and is at least as near as every entry that was
\* there during the whole look-up (semantic_cache.py:103-133).
THEOREM NearestAnswersAlways == Spec => []NearestAnswers
  <1>1. IInv => NearestAnswers
    BY DEF IInv, Kept, Compared, Answered, NearestAnswers, At, Busy
  <1>2. QED
    BY <1>1, Inductive, PTL

----------------------------------------------------------------------------
(* Eviction *)

\* An eviction nobody interferes with: at first it knows how many are too many, and
\* then it has that many victims left, none of them used after one that stays.
Victims(t) ==
    alone[t] =>
        \/ /\ At(t, "choosing")
           /\ Cardinality(Members) > MaxEntries
           /\ job[t].excess = Cardinality(Members) - MaxEntries
        \/ /\ At(t, "evicting")
           /\ job[t].todo \subseteq Members
           /\ Cardinality(Members \ job[t].todo) = MaxEntries
           /\ \A v \in job[t].todo, m \in Members \ job[t].todo : index[v] <= index[m]

LEMMA MembersFinite == IsFiniteSet(Members) /\ Cardinality(Members) \in Nat
  <1>1. Members \in SUBSET Query
    BY DEF Members
  <1>2. QED
    BY <1>1, TasksAssumption, FS_Subset, FS_CardinalityType

\* The others are as many as the limit when as many are chosen as were too many.
LEMMA OldestLeaves ==
    ASSUME Cardinality(Members) > MaxEntries,
           NEW V \in Oldest(Cardinality(Members) - MaxEntries)
    PROVE  /\ V \subseteq Members
           /\ Cardinality(Members \ V) = MaxEntries
           /\ \A v \in V, m \in Members \ V : index[v] <= index[m]
  <1> DEFINE n == Cardinality(Members)
  <1>1. n \in Nat /\ IsFiniteSet(Members) /\ MaxEntries \in Nat
    BY MembersFinite, LimitAssumption
  <1>2. /\ V \in SUBSET Members
        /\ Cardinality(V) = IF n - MaxEntries < n THEN n - MaxEntries ELSE n
        /\ \A v \in V, m \in Members \ V : index[v] <= index[m]
    BY DEF Oldest
  <1>3. Cardinality(Members \ V) = n - Cardinality(Members \cap V) /\ Members \cap V = V
    BY <1>1, <1>2, FS_Difference
  <1> HIDE DEF n
  <1>4. Cardinality(V) = n - MaxEntries
    BY <1>1, <1>2
  <1>5. Cardinality(Members \ V) = MaxEntries
    BY <1>1, <1>3, <1>4
  <1>6. QED
    BY <1>2, <1>5

\* What Evict does when nobody interferes.
LEMMA EvictRemoves ==
    ASSUME TypeOK, NEW t \in Tasks, NEW k \in Query, Evict(t, k), Victims(t), alone[t]
    PROVE  /\ k \in job[t].todo
           /\ Members' = Members \ {k} /\ job'[t].todo = job[t].todo \ {k}
           /\ Members' \ job'[t].todo = Members \ job[t].todo
           /\ \A m \in Members' : index'[m] = index[m]
           /\ job'[t].at \in {"idle", "evicting"}
           /\ job'[t].at = "idle" => job'[t].todo = {}
  <1>1. /\ At(t, "evicting") /\ k \in job[t].todo
        /\ index' = [index EXCEPT ![k] = 0]
        /\ IF job[t].todo = {k} THEN Finish(t) ELSE job' = [job EXCEPT ![t].todo = @ \ {k}]
    BY DEF Evict, Remove
  <1>2. job[t].todo \subseteq Members
    BY <1>1 DEF Victims, At
  <1>3. Members' = Members \ {k} /\ \A m \in Members' : index'[m] = index[m]
    BY <1>1 DEF Members, TypeOK
  <1>4. job \in [Tasks -> Job]
    BY DEF TypeOK
  <1>5. CASE job[t].todo = {k}
    <2>1. job'[t] = NoJob
      BY <1>1, <1>4, <1>5 DEF Finish
    <2>2. job'[t].at = "idle" /\ job'[t].todo = {}
      BY <2>1 DEF NoJob
    <2>3. QED
      BY <1>1, <1>2, <1>3, <1>5, <2>2
  <1>6. CASE job[t].todo # {k}
    <2>1. job'[t] = [job[t] EXCEPT !.todo = @ \ {k}]
      BY <1>1, <1>4, <1>6
    <2>2. job'[t].todo = job[t].todo \ {k} /\ job'[t].at = "evicting"
      BY <1>1, <1>4, <2>1 DEF Job, At
    <2>3. QED
      BY <1>1, <1>2, <1>3, <2>2
  <1>7. QED
    BY <1>5, <1>6

\* A task's own step changes the job of no other.
LEMMA OnlyActor ==
    ASSUME TypeOK, Next, NEW t \in Tasks, job'[t] # job[t]
    PROVE  \/ Answer(t) \/ Touch(t) \/ Write(t) \/ Count(t) \/ Choose(t) \/ Clear(t) \/ Cancel(t)
           \/ \E k \in Query : LookUp(t, k) \/ Scan(t, k) \/ Cache(t, k) \/ Evict(t, k)
  <1>1. PICK u \in Tasks :
           \/ Answer(u) \/ Touch(u) \/ Write(u) \/ Count(u) \/ Choose(u) \/ Clear(u) \/ Cancel(u)
           \/ \E k \in Query : LookUp(u, k) \/ Scan(u, k) \/ Cache(u, k) \/ Evict(u, k)
    BY DEF Next, Tick, Invalidate
  <1>2. u # t => job'[t] = job[t]
    BY <1>1 DEF TypeOK, Answer, Touch, Write, Count, Choose, Clear, Cancel, LookUp, Scan, Cache,
                Evict, Finish
  <1>3. QED
    BY <1>1, <1>2

LEMMA VictimsNext ==
    ASSUME TypeOK, [Next]_vars, NEW t \in Tasks, Victims(t)
    PROVE  Victims(t)'
  <1> SUFFICES ASSUME alone'[t] PROVE Victims(t)'
    BY DEF Victims
  <1>1. CASE UNCHANGED vars
    BY <1>1 DEF vars, Victims, At, Members
  <1>2. CASE Next
    <2>1. Recall
      BY <1>2 DEF Next, Tick, Answer, Touch, Write, Count, Choose, Clear, Cancel, LookUp, Scan,
                  Cache, Evict, Invalidate
    <2>2. /\ job'[t].at \in {"choosing", "evicting"}
          /\ At(t, "counting") \/ (alone[t] /\ (index' = index \/ job'[t] # job[t]))
      BY <2>1 DEF Recall
    <2>3. At(t, "counting") => job'[t] # job[t]
      BY <2>2 DEF At
    <2>4. CASE job'[t] = job[t]
      <3>1. index' = index /\ alone[t]
        BY <2>2, <2>3, <2>4
      <3>2. Members' = Members
        BY <3>1 DEF Members
      <3>3. QED
        BY <2>4, <3>1, <3>2 DEF Victims, At
    <2>5. CASE job'[t] # job[t]
      <3>1. alone[t] => At(t, "choosing") \/ At(t, "evicting")
        BY DEF Victims
      <3>2. job \in [Tasks -> Job]
        BY DEF TypeOK
      <3>3. CASE Count(t)
        <4>1. /\ Cardinality(Members) > MaxEntries
              /\ job' = [job EXCEPT ![t].at = "choosing", ![t].excess = Cardinality(Members) - MaxEntries]
          BY <2>2, <3>2, <3>3 DEF Count, Finish, NoJob
        <4>2. job'[t].at = "choosing" /\ job'[t].excess = Cardinality(Members) - MaxEntries
          BY <3>2, <4>1 DEF Job
        <4>3. Members' = Members
          BY <3>3 DEF Count, keys, Members
        <4>4. QED
          BY <4>1, <4>2, <4>3 DEF Victims, At
      <3>4. CASE Choose(t)
        <4>1. At(t, "choosing") /\ alone[t]
          BY <2>2, <3>4 DEF Choose, At
        <4>2. Cardinality(Members) > MaxEntries /\ job[t].excess = Cardinality(Members) - MaxEntries
          BY <4>1 DEF Victims, At
        <4>3. PICK V \in Oldest(job[t].excess) :
                IF V = {} THEN Finish(t)
                          ELSE job' = [job EXCEPT ![t] = [NoJob EXCEPT !.at = "evicting", !.todo = V]]
          BY <3>4 DEF Choose
        <4>4. job' = [job EXCEPT ![t] = [NoJob EXCEPT !.at = "evicting", !.todo = V]]
          BY <2>2, <3>2, <4>3 DEF Finish, NoJob
        <4>5. job'[t].at = "evicting" /\ job'[t].todo = V
          BY <3>2, <4>4 DEF NoJob
        <4>6. /\ V \subseteq Members /\ Cardinality(Members \ V) = MaxEntries
              /\ \A v \in V, m \in Members \ V : index[v] <= index[m]
          BY <4>2, <4>3, OldestLeaves
        <4>7. index' = index /\ Members' = Members
          BY <3>4 DEF Choose, keys, Members
        <4>8. QED
          BY <4>5, <4>6, <4>7 DEF Victims, At
      <3>5. ASSUME NEW k \in Query, Evict(t, k) PROVE Victims(t)'
        <4>1. At(t, "evicting") /\ alone[t]
          BY <2>2, <3>5 DEF Evict, At
        <4>2. /\ job'[t].at = "evicting" /\ Members' = Members \ {k}
              /\ job'[t].todo = job[t].todo \ {k}
              /\ Members' \ job'[t].todo = Members \ job[t].todo
              /\ \A m \in Members' : index'[m] = index[m]
          BY <2>2, <3>5, <4>1, EvictRemoves
        <4>3. /\ job[t].todo \subseteq Members
              /\ Cardinality(Members \ job[t].todo) = MaxEntries
              /\ \A v \in job[t].todo, m \in Members \ job[t].todo : index[v] <= index[m]
          BY <4>1 DEF Victims, At
        <4>4. job'[t].todo \subseteq Members' /\ Cardinality(Members' \ job'[t].todo) = MaxEntries
          BY <4>2, <4>3
        <4>5. \A v \in job'[t].todo, m \in Members' \ job'[t].todo : index'[v] <= index'[m]
          BY <4>2, <4>3, <4>4
        <4>6. QED
          BY <4>2, <4>4, <4>5 DEF Victims, At
      <3>6. CASE Answer(t) \/ Touch(t) \/ Write(t) \/ Clear(t) \/ Cancel(t)
        <4>1. (~At(t, "choosing") /\ ~At(t, "evicting") /\ ~At(t, "counting")) \/ Cancel(t)
          BY <3>6 DEF Answer, Touch, Write, Clear, At
        <4>2. ~Cancel(t)
          BY <2>2, <3>2 DEF Cancel, Finish, NoJob
        <4>3. QED
          BY <2>2, <3>1, <4>1, <4>2
      <3>7. ASSUME NEW k \in Query, LookUp(t, k) \/ Scan(t, k) \/ Cache(t, k) PROVE FALSE
        <4>1. ~At(t, "choosing") /\ ~At(t, "evicting") /\ ~At(t, "counting")
          BY <3>7 DEF LookUp, Scan, Cache, At
        <4>2. QED
          BY <2>2, <3>1, <4>1
      <3>8. QED
        BY <1>2, <2>5, <3>3, <3>4, <3>5, <3>6, <3>7, OnlyActor
    <2>6. QED
      BY <2>4, <2>5
  <1>3. QED
    BY <1>1, <1>2

\* As long as nobody interferes, an eviction leaves max_entries members.
THEOREM VictimsAlways == Spec => []\A t \in Tasks : Victims(t)
  <1>1. Init => \A t \in Tasks : Victims(t)
    BY DEF Init, Victims
  <1>2. TypeOK /\ (\A t \in Tasks : Victims(t)) /\ [Next]_vars => (\A t \in Tasks : Victims(t))'
    BY VictimsNext
  <1>3. QED
    BY <1>1, <1>2, TypeCorrect, PTL DEF Spec

\* An eviction nobody interferes with ends with exactly max_entries members, and
\* those it removes are the least recently used.
THEOREM EvictionExactAlways == Spec => EvictionExact
  <1> DEFINE Exact(t) ==
               At(t, "evicting") /\ alone[t] /\ index' # index /\ job'[t] # job[t] =>
                  /\ \A k \in Members \ Members', m \in Members' \ job'[t].todo : index[k] <= index[m]
                  /\ job'[t].at = "idle" => Cardinality(Members') = MaxEntries
  <1>1. ASSUME TypeOK, \A t \in Tasks : Victims(t), Next, NEW t \in Tasks PROVE Exact(t)
    <2> SUFFICES ASSUME At(t, "evicting"), alone[t], index' # index, job'[t] # job[t]
                 PROVE  /\ \A k \in Members \ Members', m \in Members' \ job'[t].todo : index[k] <= index[m]
                        /\ job'[t].at = "idle" => Cardinality(Members') = MaxEntries
      OBVIOUS
    <2>1. PICK k \in Query : Evict(t, k)
      <3>1. ~Answer(t) /\ ~Touch(t) /\ ~Write(t) /\ ~Count(t) /\ ~Choose(t) /\ ~Clear(t)
        BY DEF Answer, Touch, Write, Count, Choose, Clear, At
      <3>2. ~Cancel(t)
        BY DEF Cancel, keys
      <3>3. \A k \in Query : ~LookUp(t, k) /\ ~Scan(t, k) /\ ~Cache(t, k)
        BY DEF LookUp, Scan, Cache, At
      <3>4. QED
        BY <1>1, <3>1, <3>2, <3>3, OnlyActor
    <2>2. /\ k \in job[t].todo /\ Members' = Members \ {k}
          /\ Members' \ job'[t].todo = Members \ job[t].todo
          /\ job'[t].at = "idle" => job'[t].todo = {}
      BY <1>1, <2>1, EvictRemoves
    <2>3. /\ Cardinality(Members \ job[t].todo) = MaxEntries
          /\ \A v \in job[t].todo, m \in Members \ job[t].todo : index[v] <= index[m]
      BY <1>1 DEF Victims, At
    <2>4. \A x \in Members \ Members', m \in Members' \ job'[t].todo : index[x] <= index[m]
      BY <2>2, <2>3
    <2>5. job'[t].at = "idle" => Cardinality(Members') = MaxEntries
      <3>1. job'[t].todo = {} => Members' \ job'[t].todo = Members'
        OBVIOUS
      <3>2. QED
        BY <2>2, <2>3, <3>1
    <2>6. QED
      BY <2>4, <2>5
  <1>2. TypeOK /\ (\A t \in Tasks : Victims(t)) /\ [Next]_vars => [\A t \in Tasks : Exact(t)]_vars
    BY <1>1
  <1>3. Spec => [][\A t \in Tasks : Exact(t)]_vars
    BY <1>2, TypeCorrect, VictimsAlways, PTL DEF Spec
  <1>4. QED
    BY <1>3 DEF EvictionExact

(***************************************************************************)
(* FaissStore                                                              *)
(***************************************************************************)

\* How often x is in r.
Copies(r, x) == Cardinality({i \in DOMAIN r : r[i] = x})

----------------------------------------------------------------------------
(* Positions of a sequence *)

LEMMA CountsAlike == \A S : Faiss!Cardinality(S) = Cardinality(S)
BY DEF Faiss!Cardinality, Cardinality

LEMMA Smallest ==
    ASSUME NEW T \in SUBSET Nat, T # {}
    PROVE  \E m \in T : \A x \in T : m <= x
<1> DEFINE R == OpToRel(<, Nat)
<1>1. \A x, y \in Nat : x < y => <<x, y>> \in R BY DEF OpToRel
<1>2. IsWellFoundedOn(R, Nat) BY NatLessThanWellFounded
<1> HIDE DEF R
<1>3. PICK m \in T : \A y \in T : <<y, m>> \notin R BY <1>2, WFMin
<1>4. ASSUME NEW x \in T PROVE m <= x
  <2>1. x \in Nat /\ m \in Nat OBVIOUS
  <2>2. ~(x < m) BY <1>1, <1>3, <2>1
  <2> QED BY <2>1, <2>2
<1> QED BY <1>4

\* The positions' ranks are 1 to their number, in their order.
LEMMA RanksCount ==
    ASSUME NEW n \in Nat, NEW P \in SUBSET (1..n)
    PROVE  /\ Cardinality(P) \in Nat
           /\ \A i \in P : Faiss!Rank(i, P) \in 1..Cardinality(P)
           /\ \A i, j \in P : i < j => Faiss!Rank(i, P) < Faiss!Rank(j, P)
           /\ \A k \in 1..Cardinality(P) : \E i \in P : Faiss!Rank(i, P) = k
<1> DEFINE Upto(i) == {j \in P : j <= i}
           rank == [i \in P |-> Faiss!Rank(i, P)]
<1>0. P \subseteq Nat BY SMT
<1>1. IsFiniteSet(P)
  <2>1. IsFiniteSet(1..n) BY FS_Interval
  <2> QED BY <2>1, FS_Subset
<1>2. Cardinality(P) \in Nat BY <1>1, FS_CardinalityType
<1>3. \A i \in P : Faiss!Rank(i, P) = Cardinality(Upto(i)) BY CountsAlike DEF Faiss!Rank
<1>4. ASSUME NEW i \in P
      PROVE  /\ IsFiniteSet(Upto(i)) /\ Cardinality(Upto(i)) \in Nat
             /\ Cardinality(Upto(i)) <= Cardinality(P) /\ Cardinality(Upto(i)) # 0
  <2>1. Upto(i) \in SUBSET P /\ i \in Upto(i) OBVIOUS
  <2> HIDE DEF Upto
  <2>2. IsFiniteSet(Upto(i)) /\ Cardinality(Upto(i)) <= Cardinality(P) BY <1>1, <2>1, FS_Subset
  <2>3. Cardinality(Upto(i)) \in Nat BY <2>2, FS_CardinalityType
  <2>4. Cardinality(Upto(i)) # 0 BY <2>1, <2>2, FS_EmptySet
  <2> QED BY <2>2, <2>3, <2>4
<1>5. \A i \in P : Faiss!Rank(i, P) \in 1..Cardinality(P)
  <2> SUFFICES ASSUME NEW i \in P PROVE Faiss!Rank(i, P) \in 1..Cardinality(P) OBVIOUS
  <2>1. Faiss!Rank(i, P) = Cardinality(Upto(i)) BY <1>3
  <2> HIDE DEF Upto
  <2> QED BY <1>2, <1>4, <2>1
<1>6. ASSUME NEW i \in P, NEW j \in P, i < j PROVE Faiss!Rank(i, P) < Faiss!Rank(j, P)
  <2>1. Upto(i) \in SUBSET Upto(j) /\ j \in Upto(j) /\ j \notin Upto(i)
    <3>1. i \in Nat /\ j \in Nat BY <1>0
    <3>2. \A x \in P : x <= i => x <= j BY <1>0, <1>6, <3>1
    <3>3. Upto(i) \subseteq Upto(j) BY <3>2
    <3>4. j <= j /\ ~(j <= i) BY <1>6, <3>1
    <3> QED BY <3>3, <3>4
  <2>2. Upto(i) # Upto(j) BY <2>1
  <2>3. Faiss!Rank(i, P) = Cardinality(Upto(i)) /\ Faiss!Rank(j, P) = Cardinality(Upto(j)) BY <1>3
  <2>4. IsFiniteSet(Upto(j)) /\ Cardinality(Upto(i)) \in Nat /\ Cardinality(Upto(j)) \in Nat BY <1>4
  <2> HIDE DEF Upto
  <2>5. /\ Cardinality(Upto(i)) <= Cardinality(Upto(j))
        /\ Cardinality(Upto(i)) # Cardinality(Upto(j))
    BY <2>1, <2>2, <2>4, FS_Subset
  <2> QED BY <2>3, <2>4, <2>5
<1>7. rank \in Injection(P, 1..Cardinality(P))
  <2>1. \A i \in P : rank[i] \in 1..Cardinality(P) BY <1>5
  <2>2. ASSUME NEW i \in P, NEW j \in P, rank[i] = rank[j] PROVE i = j
    <3>1. ~(i < j) /\ ~(j < i) BY <1>2, <1>5, <1>6, <2>2
    <3> QED BY <3>1
  <2>3. rank \in [P -> 1..Cardinality(P)] BY <2>1
  <2> HIDE DEF rank
  <2> QED BY <2>2, <2>3 DEF Injection, IsInjective
<1>8. IsFiniteSet(1..Cardinality(P)) /\ Cardinality(1..Cardinality(P)) = Cardinality(P)
  BY <1>2, FS_Interval
<1>9. rank \in Surjection(P, 1..Cardinality(P))
  <2> HIDE DEF rank
  <2> QED BY <1>1, <1>7, <1>8, FS_Injection
<1>10. \A k \in 1..Cardinality(P) : \E i \in P : Faiss!Rank(i, P) = k
  BY <1>9 DEF Surjection
<1> QED BY <1>2, <1>5, <1>6, <1>10

\* At(r, P) is r at the positions P, each once and in order.
LEMMA AtInOrder ==
    ASSUME NEW r \in Seq(Text), NEW P \in SUBSET (1..Len(r))
    PROVE  /\ Faiss!At(r, P) \in Seq(Text)
           /\ Len(Faiss!At(r, P)) = Cardinality(P) /\ Cardinality(P) \in Nat
           /\ \E order \in [1..Cardinality(P) -> P] :
                 /\ \A k \in 1..Cardinality(P) : Faiss!At(r, P)[k] = r[order[k]]
                 /\ \A i \in P : \E k \in 1..Cardinality(P) : order[k] = i
                 /\ \A k, l \in 1..Cardinality(P) : k < l => order[k] < order[l]
<1> DEFINE c == Cardinality(P)
           order == [k \in 1..c |-> CHOOSE i \in P : Faiss!Rank(i, P) = k]
<1>1. /\ c \in Nat
      /\ \A i \in P : Faiss!Rank(i, P) \in 1..c
      /\ \A i, j \in P : i < j => Faiss!Rank(i, P) < Faiss!Rank(j, P)
      /\ \A k \in 1..c : \E i \in P : Faiss!Rank(i, P) = k
  <2>1. Len(r) \in Nat OBVIOUS
  <2> HIDE DEF c
  <2> QED BY <2>1, RanksCount DEF c
<1>2. Faiss!At(r, P) = [k \in 1..c |-> r[CHOOSE i \in P : Faiss!Rank(i, P) = k]]
  BY CountsAlike DEF Faiss!At
<1>3. \A k \in 1..c : order[k] \in P /\ Faiss!Rank(order[k], P) = k /\ Faiss!At(r, P)[k] = r[order[k]]
  BY <1>1, <1>2
<1>4. order \in [1..c -> P] BY <1>3
<1> HIDE DEF order, c
<1>5. \A k \in 1..c : r[order[k]] \in Text BY <1>3
<1>6. Faiss!At(r, P) \in Seq(Text) /\ Len(Faiss!At(r, P)) = c
  <2>1. Faiss!At(r, P) \in [1..c -> Text] BY <1>2, <1>3, <1>5
  <2> QED BY <1>1, <2>1
<1>7. ASSUME NEW i \in P, NEW j \in P, Faiss!Rank(i, P) = Faiss!Rank(j, P) PROVE i = j
  <2>1. i \in Nat /\ j \in Nat /\ Faiss!Rank(i, P) \in Nat BY <1>1
  <2>2. ~(i < j) /\ ~(j < i) BY <1>1, <1>7, <2>1
  <2> QED BY <2>1, <2>2
<1>8. \A i \in P : \E k \in 1..c : order[k] = i BY <1>1, <1>3, <1>7
<1>9. ASSUME NEW k \in 1..c, NEW l \in 1..c, k < l PROVE order[k] < order[l]
  <2>1. /\ order[k] \in P /\ order[l] \in P
        /\ Faiss!Rank(order[k], P) = k /\ Faiss!Rank(order[l], P) = l
    BY <1>3
  <2>2. ~(order[l] < order[k]) /\ order[k] # order[l]
    <3>1. order[l] < order[k] => l < k BY <1>1, <2>1
    <3>2. order[k] = order[l] => k = l BY <2>1
    <3>3. ~(l < k) /\ k # l BY <1>9
    <3> QED BY <3>1, <3>2, <3>3
  <2>3. P \subseteq Nat BY SMT
  <2>4. order[k] \in Nat /\ order[l] \in Nat BY <2>1, <2>3
  <2> QED BY <2>2, <2>4
<1> QED BY <1>1, <1>3, <1>4, <1>6, <1>8, <1>9 DEF c

\* The first n positions of v, split into duplicates and those that stay.
SplitUpto(v, n, D) ==
    /\ D \subseteq 1..n
    /\ \A j \in 1..n : j \in D <=> \E i \in (1..(j - 1)) \ D : Faiss!Similarly(v, i, j)

\* There is such a split of the whole, by the smallest n that had none.
LEMMA SplitExists ==
    ASSUME NEW v, NEW n \in Nat
    PROVE  \E D : SplitUpto(v, n, D)
<1> DEFINE T == {m \in Nat : ~\E D : SplitUpto(v, m, D)}
<1> SUFFICES ASSUME T # {} PROVE FALSE OBVIOUS
<1>1. PICK m \in T : \A x \in T : m <= x BY Smallest
<1>2. m \in Nat /\ ~\E D : SplitUpto(v, m, D) OBVIOUS
<1>3. m # 0
  <2>1. SplitUpto(v, 0, {}) BY DEF SplitUpto
  <2> QED BY <1>2, <2>1
<1>4. m - 1 \in Nat /\ m - 1 \notin T
  <2>1. m - 1 \in Nat /\ ~(m <= m - 1) BY <1>2, <1>3
  <2> QED BY <1>1, <2>1
<1>5. PICK D : SplitUpto(v, m - 1, D) BY <1>4
<1> HIDE DEF T
<1>6. D \subseteq 1..(m - 1) /\ m \notin D /\ D \subseteq 1..m BY <1>2, <1>5 DEF SplitUpto
<1>7. \A j \in 1..(m - 1) : j \in D <=> \E i \in (1..(j - 1)) \ D : Faiss!Similarly(v, i, j)
  BY <1>5 DEF SplitUpto
<1>8. CASE \E i \in (1..(m - 1)) \ D : Faiss!Similarly(v, i, m)
  <2> DEFINE E == D \cup {m}
  <2>1. E \subseteq 1..m BY <1>2, <1>3, <1>6
  <2>2. ASSUME NEW j \in 1..m PROVE j \in E <=> \E i \in (1..(j - 1)) \ E : Faiss!Similarly(v, i, j)
    <3>1. (1..(j - 1)) \ E = (1..(j - 1)) \ D BY <1>2
    <3>2. CASE j = m BY <1>8, <3>1, <3>2
    <3>3. CASE j # m
      <4>1. j \in 1..(m - 1) /\ (j \in E <=> j \in D) BY <1>2, <3>3
      <4> QED BY <1>7, <3>1, <4>1
    <3> QED BY <3>2, <3>3
  <2> HIDE DEF E
  <2>3. SplitUpto(v, m, E) BY <2>1, <2>2 DEF SplitUpto
  <2> QED BY <1>2, <2>3
<1>9. CASE ~\E i \in (1..(m - 1)) \ D : Faiss!Similarly(v, i, m)
  <2>1. ASSUME NEW j \in 1..m PROVE j \in D <=> \E i \in (1..(j - 1)) \ D : Faiss!Similarly(v, i, j)
    <3>1. CASE j = m BY <1>6, <1>9, <3>1
    <3>2. CASE j # m
      <4>1. j \in 1..(m - 1) BY <1>2, <3>2
      <4> QED BY <1>7, <4>1
    <3> QED BY <3>1, <3>2
  <2>2. SplitUpto(v, m, D) BY <1>6, <2>1 DEF SplitUpto
  <2> QED BY <1>2, <2>2
<1> QED BY <1>8, <1>9

\* A duplicate is like one that stays before it; those that stay are like none.
LEMMA DuplicatesAre ==
    ASSUME NEW v \in Seq(Text)
    PROVE  LET D == Faiss!Duplicates(v)
           IN  /\ D \subseteq 1..Len(v)
               /\ \A j \in 1..Len(v) : j \in D <=> \E i \in (1..(j - 1)) \ D : Faiss!Similarly(v, i, j)
<1> DEFINE Fit(D) == \A j \in DOMAIN v : j \in D <=> \E i \in (1..(j - 1)) \ D : Faiss!Similarly(v, i, j)
<1>1. Len(v) \in Nat /\ DOMAIN v = 1..Len(v) OBVIOUS
<1>2. PICK D : SplitUpto(v, Len(v), D) BY <1>1, SplitExists
<1>3. D \in SUBSET (DOMAIN v) /\ Fit(D) BY <1>1, <1>2 DEF SplitUpto
<1>4. Faiss!Duplicates(v) = CHOOSE d \in SUBSET (DOMAIN v) : Fit(d) BY DEF Faiss!Duplicates
<1> HIDE DEF Fit
<1>5. Faiss!Duplicates(v) \in SUBSET (DOMAIN v) /\ Fit(Faiss!Duplicates(v)) BY <1>3, <1>4
<1> QED BY <1>1, <1>5 DEF Fit

----------------------------------------------------------------------------
(* Texts and their copies *)

LEMMA CopiesNat ==
    ASSUME NEW r \in Seq(Text), NEW x
    PROVE  /\ IsFiniteSet({i \in DOMAIN r : r[i] = x})
           /\ Copies(r, x) \in Nat
<1>1. Len(r) \in Nat /\ DOMAIN r = 1..Len(r) OBVIOUS
<1>2. IsFiniteSet(1..Len(r)) BY <1>1, FS_Interval
<1>3. {i \in DOMAIN r : r[i] = x} \in SUBSET (1..Len(r)) BY <1>1
<1>4. IsFiniteSet({i \in DOMAIN r : r[i] = x}) BY <1>2, <1>3, FS_Subset
<1> QED BY <1>4, FS_CardinalityType DEF Copies

LEMMA NoCopies == \A x : Copies(<<>>, x) = 0
BY FS_EmptySet DEF Copies

\* To take some of the records makes no copies.
LEMMA KeptCopies ==
    ASSUME NEW r \in Seq(Text), NEW P \in SUBSET (1..Len(r)), NEW x
    PROVE  Copies(Faiss!At(r, P), x) <= Copies(r, x)
<1> DEFINE a == Faiss!At(r, P)
           c == Cardinality(P)
           A == {k \in DOMAIN a : a[k] = x}
           R == {i \in DOMAIN r : r[i] = x}
<1>1. a \in Seq(Text) /\ Len(a) = c /\ c \in Nat BY AtInOrder
<1>2. PICK order \in [1..c -> P] :
        /\ \A k \in 1..c : a[k] = r[order[k]]
        /\ \A k, l \in 1..c : k < l => order[k] < order[l]
  BY AtInOrder
<1> HIDE DEF a, c
<1>3. DOMAIN a = 1..c /\ DOMAIN r = 1..Len(r) /\ P \subseteq Nat
  <2>1. P \subseteq Nat BY SMT
  <2> QED BY <1>1, <2>1
<1> DEFINE f == [k \in A |-> order[k]]
<1>4. f \in Injection(A, R)
  <2>1. \A k \in A : k \in 1..c /\ order[k] \in P /\ order[k] \in R BY <1>2, <1>3
  <2>2. f \in [A -> R] BY <2>1
  <2>3. ASSUME NEW k \in A, NEW l \in A, f[k] = f[l] PROVE k = l
    <3>1. k \in 1..c /\ l \in 1..c /\ order[k] = order[l] /\ order[k] \in Nat BY <1>3, <2>1, <2>3
    <3>2. ~(k < l) /\ ~(l < k) BY <1>2, <3>1
    <3> QED BY <3>1, <3>2
  <2> HIDE DEF f, A, R
  <2> QED BY <2>2, <2>3 DEF Injection, IsInjective
<1>5. IsFiniteSet(R) BY CopiesNat
<1> HIDE DEF f, A, R
<1>6. Cardinality(A) <= Cardinality(R) BY <1>4, <1>5, FS_Injection
<1> QED BY <1>6 DEF A, R, a, Copies

LEMMA KeptTexts ==
    ASSUME NEW r \in Seq(Text), NEW P \in SUBSET (1..Len(r))
    PROVE  Faiss!ToSet(Faiss!At(r, P)) = {r[i] : i \in P}
<1> DEFINE a == Faiss!At(r, P)
           c == Cardinality(P)
<1>1. a \in Seq(Text) /\ Len(a) = c /\ c \in Nat BY AtInOrder
<1>2. PICK order \in [1..c -> P] :
        /\ \A k \in 1..c : a[k] = r[order[k]]
        /\ \A i \in P : \E k \in 1..c : order[k] = i
  BY AtInOrder
<1> HIDE DEF a, c
<1>3. DOMAIN a = 1..c BY <1>1
<1>4. ASSUME NEW k \in DOMAIN a PROVE a[k] \in {r[i] : i \in P}
  <2>1. order[k] \in P /\ a[k] = r[order[k]] BY <1>2, <1>3
  <2> QED BY <2>1
<1>5. ASSUME NEW i \in P PROVE r[i] \in {a[k] : k \in DOMAIN a}
  <2>1. PICK k \in 1..c : order[k] = i BY <1>2
  <2> QED BY <1>2, <1>3, <2>1
<1> QED BY <1>4, <1>5 DEF Faiss!ToSet, a

\* A batch without repetitions adds one copy, of what is in it.
LEMMA JoinedCopies ==
    ASSUME NEW r \in Seq(Text), NEW b \in Seq(Text), Faiss!IsInjective(b), NEW x
    PROVE  Copies(r \o b, x) <= Copies(r, x) + (IF x \in Faiss!ToSet(b) THEN 1 ELSE 0)
<1> DEFINE R == {i \in DOMAIN r : r[i] = x}
           J == {i \in DOMAIN (r \o b) : (r \o b)[i] = x}
<1>1. /\ r \o b \in Seq(Text) /\ Len(r \o b) = Len(r) + Len(b) /\ Len(r) \in Nat /\ Len(b) \in Nat
      /\ DOMAIN (r \o b) = 1..(Len(r) + Len(b)) /\ DOMAIN r = 1..Len(r) /\ DOMAIN b = 1..Len(b)
  OBVIOUS
<1>2. /\ \A i \in 1..Len(r) : (r \o b)[i] = r[i]
      /\ \A i \in 1..Len(b) : (r \o b)[Len(r) + i] = b[i]
  OBVIOUS
<1>3. ASSUME NEW i \in J, i \notin R PROVE i - Len(r) \in 1..Len(b) /\ b[i - Len(r)] = x
  <2>1. i \in 1..(Len(r) + Len(b)) /\ (r \o b)[i] = x BY <1>1
  <2>2. ~(i <= Len(r)) BY <1>1, <1>2, <1>3, <2>1
  <2>3. i - Len(r) \in 1..Len(b) /\ i = Len(r) + (i - Len(r)) BY <1>1, <2>1, <2>2
  <2> QED BY <1>2, <2>1, <2>3
<1>4. IsFiniteSet(R) /\ Cardinality(R) \in Nat BY CopiesNat DEF Copies
<1>5. IsFiniteSet(J) BY <1>1, CopiesNat
<1>6. CASE x \notin Faiss!ToSet(b)
  <2>1. \A i \in 1..Len(b) : b[i] # x BY <1>1, <1>6 DEF Faiss!ToSet
  <2>2. J \in SUBSET R BY <1>3, <2>1
  <2> HIDE DEF J, R
  <2>3. Cardinality(J) <= Cardinality(R) BY <1>4, <2>2, FS_Subset
  <2>4. Cardinality(J) <= Cardinality(R) + 0 BY <1>4, <2>3
  <2> QED BY <1>6, <2>4 DEF Copies, J, R
<1>7. CASE x \in Faiss!ToSet(b)
  <2>1. PICK j \in 1..Len(b) : b[j] = x BY <1>1, <1>7 DEF Faiss!ToSet
  <2>2. \A i \in 1..Len(b) : b[i] = x => i = j BY <1>1, <2>1 DEF Faiss!IsInjective
  <2>3. \A i \in J : i \notin R => i = Len(r) + j
    <3> SUFFICES ASSUME NEW i \in J, i \notin R PROVE i = Len(r) + j OBVIOUS
    <3>1. i - Len(r) = j BY <1>3, <2>2
    <3>2. i \in 1..(Len(r) + Len(b)) BY <1>1
    <3> QED BY <1>1, <3>1, <3>2
  <2>4. J \in SUBSET (R \cup {Len(r) + j}) BY <2>3
  <2> HIDE DEF J, R
  <2>5. /\ IsFiniteSet(R \cup {Len(r) + j})
        /\ \/ Cardinality(R \cup {Len(r) + j}) = Cardinality(R)
           \/ Cardinality(R \cup {Len(r) + j}) = Cardinality(R) + 1
    BY <1>4, FS_AddElement
  <2>6. Cardinality(J) <= Cardinality(R \cup {Len(r) + j}) BY <2>4, <2>5, FS_Subset
  <2>7. Cardinality(J) \in Nat BY <1>5, FS_CardinalityType
  <2>8. Cardinality(J) <= Cardinality(R) + 1 BY <1>4, <2>5, <2>6, <2>7
  <2> QED BY <1>7, <2>8 DEF Copies, J, R
<1> QED BY <1>6, <1>7

LEMMA JoinedTexts ==
    ASSUME NEW r \in Seq(Text), NEW b \in Seq(Text)
    PROVE  Faiss!ToSet(r) \subseteq Faiss!ToSet(r \o b)
<1>1. /\ DOMAIN r \subseteq DOMAIN (r \o b)
      /\ \A i \in DOMAIN r : (r \o b)[i] = r[i]
  OBVIOUS
<1> QED BY <1>1 DEF Faiss!ToSet

----------------------------------------------------------------------------
(* What is written at most as often as it was inserted *)

File == Seq(Text) \cup {Missing, Torn}

\* What the sessions hold are texts; a store that is being saved has vectors.
Types ==
    /\ indexFile \in File /\ metaFile \in File
    /\ vecs \in [Faiss!Sessions -> Seq(Text) \cup {Missing}]
    /\ recs \in [Faiss!Sessions -> Seq(Text)]
    /\ pc \in [Faiss!Sessions -> Faiss!SessionState]
    /\ goal \in [Faiss!Sessions -> {"idle", "inserted", "done"}]
    /\ attempts \in [Indexers -> 0..MaxAttempts]
    /\ overlap \in [Faiss!Sessions -> SUBSET Text]
    /\ saved \subseteq Text
    /\ clash \subseteq Faiss!Sessions /\ suspect \subseteq Faiss!Sessions
    /\ spoiled \in BOOLEAN
    /\ \A s \in Faiss!Sessions : Faiss!InSave(s) => vecs[s] \in Seq(Text)

\* Only an indexing task closes its store, or begins again, and it does so only
\* while it has an attempt left; at work, it has begun one.
Placed(s) ==
    /\ s \in Indexers /\ Faiss!Active(s) => attempts[s] # 0
    /\ pc[s] = "inserted" => s \in Indexers
    /\ Faiss!InSave(s) /\ goal[s] # "done" => s \in Indexers
    /\ s \in Indexers /\ (pc[s] = "idle" \/ (Faiss!InSave(s) /\ goal[s] = "idle"))
          => attempts[s] < MaxAttempts

Begun(s) == IF s \in Indexers THEN attempts[s] ELSE 1

\* The last attempt of s has not inserted anything yet.
Before(s) == pc[s] \in {"reading", "ready"} \/ (pc[s] = "idle" /\ s \in Requests)

\* The attempts that may have inserted x.
Inserted(x) ==
    {sk \in Faiss!Writers \X (1..MaxAttempts) :
        /\ x \in Faiss!ToSet(Batch[sk[1]])
        /\ sk[2] <= Begun(sk[1])
        /\ sk[2] = Begun(sk[1]) => ~Before(sk[1])}

Counted(x) ==
    /\ Faiss!Readable(metaFile) => Copies(metaFile, x) <= Cardinality(Inserted(x))
    /\ \A s \in Faiss!Sessions : Copies(recs[s], x) <= Cardinality(Inserted(x))

CopiesInv == /\ Types
             /\ \A s \in Faiss!Sessions : Placed(s)
             /\ \A x \in Text : Counted(x)

----------------------------------------------------------------------------
(* Vectors with their records, and what was saved *)

\* Sessions that save at the same time are suspect; one that is not has vectors that
\* are those of its records, and the index file is on its way.
Paired(s) ==
    /\ Faiss!InSave(s) => spoiled
    /\ Faiss!InSave(s) => \A x \in Faiss!Sessions \ {s} : Faiss!InSave(x) => s \in suspect
    /\ s \notin suspect =>
          /\ pc[s] \in {"ready", "inserted"} => Faiss!Vectors(s) = recs[s]
          /\ pc[s] = "reading" =>
                /\ ~spoiled
                /\ Faiss!Vectors(s) = IF Faiss!Readable(metaFile) THEN metaFile ELSE <<>>
          /\ Faiss!InSave(s) => vecs[s] = recs[s] /\ s \notin clash
          /\ pc[s] \in {"written", "dumping"} => indexFile = vecs[s]

\* Files that are not spoiled are alike, and neither of them is torn.
FilesPaired == ~spoiled => indexFile = metaFile /\ metaFile # Torn

PairedInv == FilesPaired /\ \A s \in Faiss!Sessions : Paired(s)

\* What was saved is in the file, and in what a session is to write next, but
\* for what it may lack and what maintenance drops.
SavedThere ==
    /\ metaFile = Missing => saved = {}
    /\ Faiss!Readable(metaFile) => saved \subseteq Faiss!ToSet(metaFile)

SavedHeld(s) ==
    /\ pc[s] \in {"ready", "inserted"} => saved \subseteq Faiss!ToSet(recs[s]) \cup overlap[s]
    /\ Faiss!InSave(s) => saved \subseteq Faiss!ToSet(recs[s]) \cup overlap[s] \cup Faiss!Dropped(s)
    /\ s \in Maintainers /\ pc[s] = "ready" => Faiss!Vectors(s) = recs[s] \/ overlap[s] = Text

SavedInv == SavedThere /\ \A s \in Faiss!Sessions : SavedHeld(s)

----------------------------------------------------------------------------
(* Maintenance *)

\* What _deduplicate keeps of records that are paired with their vectors.
LEMMA KeptApart ==
    ASSUME NEW r \in Seq(Text)
    PROVE  LET kept == Faiss!At(r, Faiss!KeptPositions(r, r))
           IN  /\ \A i, j \in DOMAIN kept : i < j => ~Faiss!Similarly(kept, i, j)
               /\ \A x \in Faiss!ToSet(r) \ Faiss!ToSet(kept) :
                     \E y \in Faiss!ToSet(kept) : <<x, y>> \in Similar
<1> DEFINE D == Faiss!Duplicates(r)
           P == Faiss!KeptPositions(r, r)
           kept == Faiss!At(r, P)
           c == Cardinality(P)
<1>1. /\ D \subseteq 1..Len(r)
      /\ \A j \in 1..Len(r) : j \in D <=> \E i \in (1..(j - 1)) \ D : Faiss!Similarly(r, i, j)
  BY DuplicatesAre
<1>2. DOMAIN r = 1..Len(r) /\ Len(r) \in Nat OBVIOUS
<1>3. P = (1..Len(r)) \ D BY <1>2 DEF Faiss!KeptPositions
<1> HIDE DEF D, P
<1>4. P \in SUBSET (1..Len(r)) BY <1>3
<1>5. kept \in Seq(Text) /\ Len(kept) = c /\ c \in Nat BY <1>4, AtInOrder
<1>6. PICK order \in [1..c -> P] :
        /\ \A k \in 1..c : kept[k] = r[order[k]]
        /\ \A k, l \in 1..c : k < l => order[k] < order[l]
  BY <1>4, AtInOrder
<1>7. Faiss!ToSet(kept) = {r[i] : i \in P} BY <1>4, KeptTexts
<1> HIDE DEF kept, c
<1>8. DOMAIN kept = 1..c BY <1>5
<1>9. ASSUME NEW i \in DOMAIN kept, NEW j \in DOMAIN kept, i < j, Faiss!Similarly(kept, i, j)
      PROVE  FALSE
  <2>1. order[i] \in P /\ order[j] \in P /\ order[i] < order[j] BY <1>6, <1>8, <1>9
  <2>2. Faiss!Similarly(r, order[i], order[j]) BY <1>6, <1>8, <1>9 DEF Faiss!Similarly
  <2>3. order[i] \in (1..(order[j] - 1)) \ D /\ order[j] \in 1..Len(r) /\ order[j] \notin D
    BY <1>2, <1>3, <2>1
  <2> QED BY <1>1, <2>2, <2>3
<1>10. ASSUME NEW x \in Faiss!ToSet(r), x \notin Faiss!ToSet(kept)
       PROVE  \E y \in Faiss!ToSet(kept) : <<x, y>> \in Similar
  <2>1. PICK j \in 1..Len(r) : x = r[j] BY <1>2 DEF Faiss!ToSet
  <2>2. j \in D BY <1>3, <1>7, <1>10, <2>1
  <2>3. PICK i \in (1..(j - 1)) \ D : Faiss!Similarly(r, i, j) BY <1>1, <2>2
  <2>4. i \in P /\ i \in 1..Len(r) BY <1>2, <1>3, <2>3
  <2>5. r[i] \in Faiss!ToSet(kept) BY <1>7, <2>4
  <2>6. <<r[i], x>> \in Similar BY <1>10, <2>1, <2>3, <2>5 DEF Faiss!Similarly
  <2>7. r[i] \in Text /\ x \in Text BY <1>2, <2>1, <2>4
  <2> QED BY <2>5, <2>6, <2>7, SimilarAssumption
<1> QED BY <1>9, <1>10 DEF kept, P

----------------------------------------------------------------------------
(* The steps of a session *)

\* s begins a save from a store it has loaded: of what it has, with its batch once
\* more if it had not inserted it, or of some of it if it is maintenance.
SaveBegins(s) ==
    \E v, r \in Seq(Text), g \in {"idle", "inserted", "done"} :
        /\ pc[s] \in {"ready", "inserted"}
        /\ Faiss!Save(s, v, r, g)
        /\ g # "done" => s \in Indexers
        /\ g = "idle" => attempts[s] < MaxAttempts
        /\ Faiss!Vectors(s) = recs[s] => v = r
        /\ s \in Faiss!Writers => Faiss!ToSet(recs[s]) \subseteq Faiss!ToSet(r)
        /\ s \in Maintainers /\ Faiss!Vectors(s) = recs[s] =>
              \A x \in Faiss!ToSet(recs[s]) \ Faiss!ToSet(r) :
                 \E y \in Faiss!ToSet(r) : <<x, y>> \in Similar
        /\ \A x \in Text :
              \/ Copies(r, x) <= Copies(recs[s], x)
              \/ /\ pc[s] = "ready" /\ s \in Faiss!Writers /\ x \in Faiss!ToSet(Batch[s])
                 /\ Copies(r, x) <= Copies(recs[s], x) + 1

\* s ends, or will begin again, and saves nothing.
Stops(s) ==
    /\ pc[s] \in {"ready", "inserted"}
    /\ \E g \in {"idle", "done"} :
          /\ pc' = [pc EXCEPT ![s] = g]
          /\ g = "idle" => s \in Indexers /\ attempts[s] < MaxAttempts
    /\ UNCHANGED <<indexFile, metaFile, vecs, recs, goal, attempts, faults, clash, spoiled, suspect, overlap, saved>>

Reads(s)  == Faiss!LoadIndex(s) \/ Faiss!LoadRecords(s)
Writes(s) == Faiss!IndexWritten(s) \/ Faiss!OpenMetadata(s) \/ Faiss!MetadataWritten(s)
Fails(s)  == Faiss!SaveFails(s) \/ Faiss!Crash(s)

Acts(s) == Reads(s) \/ Writes(s) \/ Fails(s) \/ SaveBegins(s) \/ Stops(s)

\* The texts of a store and of a batch are texts.
LEMMA BatchTypes ==
    ASSUME NEW s \in Faiss!Writers
    PROVE  Batch[s] \in Seq(Text) /\ Faiss!IsInjective(Batch[s])
BY BatchAssumption

LEMMA VectorsTypes ==
    ASSUME Types, NEW s \in Faiss!Sessions
    PROVE  Faiss!Vectors(s) \in Seq(Text) /\ recs[s] \in Seq(Text)
BY DEF Types, Faiss!Vectors

LEMMA InsertBegins ==
    ASSUME Types, NEW s \in Faiss!Sessions, Faiss!Insert(s)
    PROVE  SaveBegins(s)
<1> DEFINE v == Faiss!Vectors(s) \o Batch[s]
           r == recs[s] \o Batch[s]
           g == IF s \in Indexers THEN "inserted" ELSE "done"
<1>1. /\ pc[s] = "ready" /\ s \in Faiss!Writers /\ s \notin Maintainers
      /\ Faiss!Save(s, v, r, g)
  BY KindsAssumption DEF Faiss!Insert
<1>2. Batch[s] \in Seq(Text) /\ Faiss!IsInjective(Batch[s]) BY <1>1, BatchTypes
<1>3. Faiss!Vectors(s) \in Seq(Text) /\ recs[s] \in Seq(Text) BY VectorsTypes
<1>4. v \in Seq(Text) /\ r \in Seq(Text) BY <1>2, <1>3
<1>5. Faiss!ToSet(recs[s]) \subseteq Faiss!ToSet(r) BY <1>2, <1>3, JoinedTexts
<1>6. ASSUME NEW x \in Text
      PROVE  \/ Copies(r, x) <= Copies(recs[s], x)
             \/ x \in Faiss!ToSet(Batch[s]) /\ Copies(r, x) <= Copies(recs[s], x) + 1
  <2>1. Copies(r, x) <= Copies(recs[s], x) + (IF x \in Faiss!ToSet(Batch[s]) THEN 1 ELSE 0)
    BY <1>2, <1>3, JoinedCopies
  <2>2. Copies(recs[s], x) \in Nat BY <1>3, CopiesNat
  <2> HIDE DEF r
  <2> QED BY <2>1, <2>2
<1>7. Faiss!Vectors(s) = recs[s] => v = r OBVIOUS
<1>8. g \in {"idle", "inserted", "done"} /\ (g # "done" => s \in Indexers) /\ g # "idle" OBVIOUS
<1> HIDE DEF v, r, g
<1> QED BY <1>1, <1>4, <1>5, <1>6, <1>7, <1>8 DEF SaveBegins

LEMMA CloseBegins ==
    ASSUME Types, NEW s \in Faiss!Sessions, Faiss!CloseStore(s)
    PROVE  SaveBegins(s) \/ Stops(s)
<1> DEFINE next(failed) == IF failed /\ attempts[s] < MaxAttempts THEN "idle" ELSE "done"
<1>1. PICK failed \in BOOLEAN :
        /\ pc[s] = "inserted" \/ (pc[s] = "ready" /\ failed)
        /\ IF vecs[s] = Missing
           THEN /\ pc' = [pc EXCEPT ![s] = next(failed)]
                /\ UNCHANGED <<indexFile, metaFile, vecs, recs, goal, attempts, faults, clash, spoiled, suspect, overlap, saved>>
           ELSE Faiss!Save(s, vecs[s], recs[s], next(failed))
  BY DEF Faiss!CloseStore, Faiss!files, Faiss!history
<1>2. s \in Indexers /\ s \notin Maintainers BY KindsAssumption DEF Faiss!CloseStore, Faiss!Writers
<1> DEFINE g == next(failed)
<1>3. g \in {"idle", "done"} /\ (g = "idle" => attempts[s] < MaxAttempts) OBVIOUS
<1>4. CASE vecs[s] = Missing
  <2> HIDE DEF g
  <2> QED BY <1>1, <1>2, <1>3, <1>4 DEF Stops, g
<1>5. CASE vecs[s] # Missing
  <2>1. Faiss!Save(s, vecs[s], recs[s], g) /\ pc[s] \in {"ready", "inserted"} BY <1>1, <1>5
  <2>2. vecs[s] \in Seq(Text) /\ recs[s] \in Seq(Text) BY <1>5 DEF Types
  <2>3. Faiss!Vectors(s) = vecs[s] BY <1>5 DEF Faiss!Vectors
  <2>4. ASSUME NEW x \in Text PROVE Copies(recs[s], x) <= Copies(recs[s], x)
    <3>1. Copies(recs[s], x) \in Nat BY <2>2, CopiesNat
    <3> QED BY <3>1
  <2> HIDE DEF g
  <2> QED BY <1>2, <1>3, <2>1, <2>2, <2>3, <2>4 DEF SaveBegins
<1> QED BY <1>4, <1>5

LEMMA MaintainBegins ==
    ASSUME Types, NEW s \in Faiss!Sessions, Faiss!Maintain(s)
    PROVE  SaveBegins(s) \/ Stops(s)
<1> DEFINE P == Faiss!KeptPositions(Faiss!Vectors(s), recs[s])
           kept == Faiss!At(recs[s], P)
<1>1. /\ pc[s] = "ready" /\ s \in Maintainers
      /\ \/ Faiss!Save(s, kept, kept, "done")
         \/ /\ pc' = [pc EXCEPT ![s] = "done"]
            /\ UNCHANGED <<indexFile, metaFile, vecs, recs, goal, attempts, faults, clash, spoiled, suspect, overlap, saved>>
  BY DEF Faiss!Maintain, Faiss!files, Faiss!history
<1>2. s \notin Faiss!Writers /\ s \notin Requests /\ s \notin Indexers
  BY <1>1, KindsAssumption DEF Faiss!Writers
<1>3. recs[s] \in Seq(Text) BY VectorsTypes
<1>4. P \in SUBSET (1..Len(recs[s])) BY <1>3 DEF Faiss!KeptPositions
<1> HIDE DEF P
<1>5. kept \in Seq(Text) BY <1>3, <1>4, AtInOrder
<1>6. \A x \in Text : Copies(kept, x) <= Copies(recs[s], x) BY <1>3, <1>4, KeptCopies
<1>7. ASSUME Faiss!Vectors(s) = recs[s], NEW x \in Faiss!ToSet(recs[s]) \ Faiss!ToSet(kept)
      PROVE  \E y \in Faiss!ToSet(kept) : <<x, y>> \in Similar
  BY <1>3, <1>7, KeptApart DEF P
<1> HIDE DEF kept
<1> QED BY <1>1, <1>2, <1>5, <1>6, <1>7 DEF SaveBegins, Stops

\* A step is a step of one session, of one of these kinds.
LEMMA Steps ==
    ASSUME Types, [Faiss!Next]_Faiss!vars
    PROVE  \/ UNCHANGED store
           \/ \E s \in Faiss!Sessions :
                 Acts(s)
<1>1. \/ UNCHANGED store
      \/ \E s \in Faiss!Sessions :
            \/ Faiss!LoadIndex(s) \/ Faiss!LoadRecords(s)
            \/ Faiss!IndexWritten(s) \/ Faiss!OpenMetadata(s) \/ Faiss!MetadataWritten(s)
            \/ Faiss!SaveFails(s) \/ Faiss!Crash(s)
            \/ Faiss!Insert(s) \/ Faiss!Leave(s) \/ Faiss!CloseStore(s) \/ Faiss!Maintain(s)
  BY DEF Faiss!Next, Faiss!Finished, Faiss!vars, store
<1>2. ASSUME NEW s \in Faiss!Sessions, Faiss!Leave(s) PROVE Stops(s)
  BY <1>2 DEF Faiss!Leave, Stops, Faiss!files, Faiss!history
<1> QED BY <1>1, <1>2, InsertBegins, CloseBegins, MaintainBegins DEF Acts, Reads, Writes, Fails
----------------------------------------------------------------------------
(* Types and counts *)

\* The session that begins to save is the only one that is not where it was.
LEMMA TypesNext ==
    ASSUME Types, NEW s \in Faiss!Sessions, Placed(s),
           Acts(s)
    PROVE  Types'
<1> USE DEF Types, File, Faiss!SessionState, Faiss!InSave, Faiss!files, Faiss!history
<1>1. CASE Faiss!LoadIndex(s)
  <2>1. attempts' \in [Indexers -> 0..MaxAttempts]
    BY <1>1, WritersAssumption DEF Placed, Faiss!LoadIndex
  <2>2. vecs' \in [Faiss!Sessions -> Seq(Text) \cup {Missing}]
    BY <1>1 DEF Faiss!LoadIndex, Faiss!Readable
  <2>3. pc' \in [Faiss!Sessions -> Faiss!SessionState] /\ recs' \in [Faiss!Sessions -> Seq(Text)]
    BY <1>1 DEF Faiss!LoadIndex
  <2>4. overlap' \in [Faiss!Sessions -> SUBSET Text]
    BY <1>1 DEF Faiss!LoadIndex
  <2>5. /\ UNCHANGED <<indexFile, metaFile, goal, clash, spoiled, saved>>
        /\ suspect' \subseteq Faiss!Sessions
    BY <1>1 DEF Faiss!LoadIndex
  <2>6. ASSUME NEW x \in Faiss!Sessions, Faiss!InSave(x)' PROVE vecs'[x] \in Seq(Text)
    BY <1>1, <2>6 DEF Faiss!LoadIndex
  <2> QED BY <2>1, <2>2, <2>3, <2>4, <2>5, <2>6
<1>2. CASE Faiss!LoadRecords(s) BY <1>2 DEF Faiss!LoadRecords, Faiss!Readable
<1>3. CASE Faiss!IndexWritten(s) BY <1>3 DEF Faiss!IndexWritten, Faiss!Result
<1>4. CASE Faiss!OpenMetadata(s) BY <1>4 DEF Faiss!OpenMetadata, Faiss!Opens
<1>5. CASE Faiss!MetadataWritten(s)
  <2>1. \A x \in Faiss!Sessions : Faiss!ToSet(recs[x]) \subseteq Text BY DEF Faiss!ToSet
  <2>2. overlap' \in [Faiss!Sessions -> SUBSET Text]
    <3>1. CASE metaFile' = Torn BY <1>5, <3>1 DEF Faiss!MetadataWritten
    <3>2. CASE metaFile' # Torn
      <4>1. overlap' = [x \in Faiss!Sessions |-> IF x # s /\ Faiss!Active(x)
                          THEN overlap[x] \cup Faiss!ToSet(recs[s]) ELSE overlap[x]]
        BY <1>5, <3>2 DEF Faiss!MetadataWritten
      <4> QED BY <2>1, <4>1
    <3> QED BY <3>1, <3>2
  <2>3. saved' \subseteq Text BY <1>5, <2>1 DEF Faiss!MetadataWritten
  <2>4. UNCHANGED <<indexFile, vecs, recs, goal, attempts, clash, suspect>>
    BY <1>5 DEF Faiss!MetadataWritten
  <2>5. metaFile' \in {recs[s], Torn} /\ pc[s] = "dumping" /\ pc' = [pc EXCEPT ![s] = goal[s]]
    BY <1>5 DEF Faiss!MetadataWritten, Faiss!Result
  <2>6. spoiled' \in BOOLEAN
    <3>1. spoiled' = spoiled \/ spoiled' = (s \in suspect) BY <1>5 DEF Faiss!MetadataWritten
    <3>2. CASE spoiled' = spoiled BY <3>2
    <3>3. CASE spoiled' = (s \in suspect)
      <4>1. CASE s \in suspect BY <3>3, <4>1
      <4>2. CASE s \notin suspect BY <3>3, <4>2
      <4> QED BY <4>1, <4>2
    <3> QED BY <3>1, <3>2, <3>3
  <2> QED BY <2>2, <2>3, <2>4, <2>5, <2>6
<1>6. CASE Faiss!SaveFails(s) BY <1>6 DEF Faiss!SaveFails
<1>7. CASE Faiss!Crash(s) BY <1>7 DEF Faiss!Crash
<1>8. CASE SaveBegins(s)
  <2>1. clash' \subseteq Faiss!Sessions /\ suspect' \subseteq Faiss!Sessions /\ spoiled' \in BOOLEAN
    BY <1>8 DEF SaveBegins, Faiss!Save, Faiss!Opens
  <2> QED BY <1>8, <2>1 DEF SaveBegins, Faiss!Save
<1>9. CASE Stops(s) BY <1>9 DEF Stops
<1> QED BY <1>1, <1>2, <1>3, <1>4, <1>5, <1>6, <1>7, <1>8, <1>9 DEF Acts, Reads, Writes, Fails

LEMMA PlacedNext ==
    ASSUME Types, Types', NEW s \in Faiss!Sessions, NEW x \in Faiss!Sessions, Placed(x), Placed(s),
           Acts(s)
    PROVE  Placed(x)'
<1> USE DEF Types, Faiss!SessionState, Faiss!InSave, Faiss!files, Faiss!history, Placed, Faiss!Active
<1>1. CASE Faiss!LoadIndex(s)
  <2>1. x = s => pc'[x] \in {"reading", "ready"} BY <1>1 DEF Faiss!LoadIndex
  <2>2. x # s => /\ pc'[x] = pc[x] /\ goal'[x] = goal[x]
                 /\ x \in Indexers => attempts'[x] = attempts[x]
    BY <1>1 DEF Faiss!LoadIndex
  <2>3. x = s /\ s \in Indexers => attempts'[x] = attempts[x] + 1 /\ attempts[x] \in Nat
    BY <1>1, WritersAssumption DEF Faiss!LoadIndex
  <2>4. CASE x = s BY <2>1, <2>3, <2>4
  <2>5. CASE x # s BY <2>2, <2>5
  <2> QED BY <2>4, <2>5
<1>2. CASE Faiss!LoadRecords(s) BY <1>2 DEF Faiss!LoadRecords
<1>3. CASE Faiss!IndexWritten(s) BY <1>3 DEF Faiss!IndexWritten
<1>4. CASE Faiss!OpenMetadata(s) BY <1>4 DEF Faiss!OpenMetadata
<1>5. CASE Faiss!MetadataWritten(s) BY <1>5 DEF Faiss!MetadataWritten
<1>6. CASE Faiss!SaveFails(s) BY <1>6 DEF Faiss!SaveFails
<1>7. CASE Faiss!Crash(s) BY <1>7 DEF Faiss!Crash
<1>8. CASE SaveBegins(s) BY <1>8 DEF SaveBegins, Faiss!Save
<1>9. CASE Stops(s) BY <1>9 DEF Stops
<1> QED BY <1>1, <1>2, <1>3, <1>4, <1>5, <1>6, <1>7, <1>8, <1>9 DEF Acts, Reads, Writes, Fails

\* There are so many attempts.
LEMMA InsertedFinite ==
    ASSUME NEW x
    PROVE  IsFiniteSet(Inserted(x)) /\ Cardinality(Inserted(x)) \in Nat
<1>1. IsFiniteSet(1..MaxAttempts) BY WritersAssumption, FS_Interval
<1>2. IsFiniteSet(Faiss!Writers \X (1..MaxAttempts)) BY <1>1, WritersAssumption, FS_Product
<1>3. Inserted(x) \in SUBSET (Faiss!Writers \X (1..MaxAttempts)) BY DEF Inserted
<1>4. IsFiniteSet(Inserted(x)) BY <1>2, <1>3, FS_Subset
<1> QED BY <1>4, FS_CardinalityType

\* No attempt that may have inserted something is forgotten.
LEMMA InsertedStay ==
    ASSUME Types, Types', NEW s \in Faiss!Sessions, Placed(s), NEW x \in Text,
           Acts(s)
    PROVE  Inserted(x) \subseteq Inserted(x)'
<1> USE DEF Types, Faiss!SessionState, Faiss!InSave, Faiss!files, Faiss!history
<1>1. ASSUME NEW w \in Faiss!Writers
      PROVE  \/ Begun(w) < Begun(w)'
             \/ Begun(w)' = Begun(w) /\ (Before(w)' => Before(w))
  <2> USE DEF Begun, Before, Faiss!Sessions, Faiss!Writers
  <2>1. CASE Faiss!LoadIndex(s)
    <3>1. w # s => /\ pc'[w] = pc[w] /\ (w \in Indexers => attempts'[w] = attempts[w])
      BY <2>1 DEF Faiss!LoadIndex
    <3>2. CASE w # s BY <3>1, <3>2
    <3>3. CASE w = s /\ s \in Indexers
      <4>1. attempts'[s] = attempts[s] + 1 /\ attempts[s] \in Nat BY <2>1, <3>3, WritersAssumption DEF Faiss!LoadIndex
      <4> QED BY <3>3, <4>1
    <3>4. CASE w = s /\ s \notin Indexers BY <2>1, <3>4 DEF Faiss!LoadIndex
    <3> QED BY <3>2, <3>3, <3>4
  <2>2. CASE Faiss!LoadRecords(s) BY <2>2 DEF Faiss!LoadRecords
  <2>3. CASE Faiss!IndexWritten(s) BY <2>3 DEF Faiss!IndexWritten
  <2>4. CASE Faiss!OpenMetadata(s) BY <2>4 DEF Faiss!OpenMetadata
  <2>5. CASE Faiss!MetadataWritten(s) BY <2>5, KindsAssumption DEF Faiss!MetadataWritten, Placed
  <2>6. CASE Faiss!SaveFails(s) BY <2>6, KindsAssumption DEF Faiss!SaveFails, Placed
  <2>7. CASE Faiss!Crash(s) BY <2>7 DEF Faiss!Crash
  <2>8. CASE SaveBegins(s) BY <2>8 DEF SaveBegins, Faiss!Save
  <2>9. CASE Stops(s) BY <2>9, KindsAssumption DEF Stops
  <2> QED BY <2>1, <2>2, <2>3, <2>4, <2>5, <2>6, <2>7, <2>8, <2>9 DEF Acts, Reads, Writes, Fails
<1>2. \A w \in Faiss!Writers : Begun(w) \in Nat /\ Begun(w)' \in Nat
  BY WritersAssumption DEF Begun
<1>3. ASSUME NEW w \in Faiss!Writers, NEW k \in 1..MaxAttempts,
             k <= Begun(w), k = Begun(w) => ~Before(w)
      PROVE  k <= Begun(w)' /\ (k = Begun(w)' => ~Before(w)')
  <2>1. Begun(w) \in Nat /\ Begun(w)' \in Nat /\ k \in Nat BY <1>2, WritersAssumption
  <2>2. CASE Begun(w) < Begun(w)' BY <1>3, <2>1, <2>2
  <2>3. CASE Begun(w)' = Begun(w) /\ (Before(w)' => Before(w)) BY <1>3, <2>3
  <2> QED BY <1>1, <2>2, <2>3
<1> QED BY <1>3 DEF Inserted
LEMMA CountedNext ==
    ASSUME Types, Types', NEW s \in Faiss!Sessions, Placed(s), NEW x \in Text, Counted(x),
           Acts(s)
    PROVE  Counted(x)'
<1> DEFINE N == Cardinality(Inserted(x))
           M == Cardinality(Inserted(x)')
<1>1. N \in Nat /\ M \in Nat /\ N <= M
  <2>1. Inserted(x) \subseteq Inserted(x)' BY InsertedStay
  <2>2. IsFiniteSet(Inserted(x)) /\ N \in Nat BY InsertedFinite
  <2>3. IsFiniteSet(Inserted(x)') /\ M \in Nat
    <3>1. (IsFiniteSet(Inserted(x)) /\ Cardinality(Inserted(x)) \in Nat)' BY InsertedFinite, PTL
    <3> QED BY <3>1
  <2> QED BY <2>1, <2>2, <2>3, FS_Subset
<1>2. \A r \in Seq(Text) : Copies(r, x) \in Nat BY CopiesNat
<1>3. Copies(<<>>, x) = 0 /\ <<>> \in Seq(Text) BY NoCopies
<1>4. /\ Faiss!Readable(metaFile) => metaFile \in Seq(Text) /\ Copies(metaFile, x) <= N
      /\ \A w \in Faiss!Sessions : recs[w] \in Seq(Text) /\ Copies(recs[w], x) <= N
  BY DEF Counted, Types, File, Faiss!Readable
<1> HIDE DEF N, M
<1>5. ASSUME NEW r \in Seq(Text), Copies(r, x) <= N PROVE Copies(r, x) <= M
  BY <1>1, <1>2, <1>5
<1>6. Copies(<<>>, x) <= M BY <1>1, <1>3
<1> SUFFICES /\ Faiss!Readable(metaFile') => Copies(metaFile', x) <= M
             /\ \A w \in Faiss!Sessions : Copies(recs'[w], x) <= M
  BY DEF Counted, M, Faiss!Readable
<1>7. CASE UNCHANGED <<metaFile, recs>> BY <1>4, <1>5, <1>7
<1>8. CASE Faiss!LoadIndex(s)
  <2>1. metaFile' = metaFile /\ recs' = [recs EXCEPT ![s] = <<>>]
    BY <1>8 DEF Faiss!LoadIndex, Faiss!files
  <2>2. \A w \in Faiss!Sessions : recs'[w] = recs[w] \/ recs'[w] = <<>> BY <2>1 DEF Types
  <2> QED BY <1>4, <1>5, <1>6, <2>1, <2>2
<1>9. CASE Faiss!LoadRecords(s)
  <2>1. /\ metaFile' = metaFile
        /\ recs' = [recs EXCEPT ![s] = IF Faiss!Readable(metaFile) THEN metaFile ELSE <<>>]
    BY <1>9 DEF Faiss!LoadRecords, Faiss!files
  <2>2. \A w \in Faiss!Sessions : \/ recs'[w] = recs[w] \/ recs'[w] = <<>>
                                  \/ recs'[w] = metaFile /\ Faiss!Readable(metaFile)
    BY <2>1 DEF Types
  <2>3. ASSUME NEW w \in Faiss!Sessions PROVE Copies(recs'[w], x) <= M
    BY <1>4, <1>5, <1>6, <2>2
  <2> QED BY <1>4, <1>5, <2>1, <2>3
<1>10. CASE Writes(s)
  <2>1. recs' = recs /\ (metaFile' \in {metaFile, Torn, recs[s]})
    BY <1>10 DEF Writes, Faiss!IndexWritten, Faiss!OpenMetadata, Faiss!MetadataWritten, Faiss!Result
  <2> QED BY <1>4, <1>5, <2>1 DEF Faiss!Readable
<1>11. CASE Fails(s)
  BY <1>7, <1>11 DEF Fails, Faiss!SaveFails, Faiss!Crash, Faiss!files
<1>12. CASE Stops(s) BY <1>7, <1>12 DEF Stops
<1>13. CASE SaveBegins(s)
  <2>1. PICK v \in Seq(Text), r \in Seq(Text), g \in {"idle", "inserted", "done"} :
          /\ Faiss!Save(s, v, r, g)
          /\ \/ Copies(r, x) <= Copies(recs[s], x)
             \/ /\ pc[s] = "ready" /\ s \in Faiss!Writers /\ x \in Faiss!ToSet(Batch[s])
                /\ Copies(r, x) <= Copies(recs[s], x) + 1
    BY <1>13 DEF SaveBegins
  <2>2. metaFile' = metaFile /\ recs' = [recs EXCEPT ![s] = r] BY <2>1 DEF Faiss!Save
  <2>3. Copies(r, x) <= M
    <3>1. CASE Copies(r, x) <= Copies(recs[s], x)
      <4>1. Copies(r, x) \in Nat /\ Copies(recs[s], x) \in Nat BY <1>2, <1>4
      <4> QED BY <1>1, <1>4, <3>1, <4>1
    <3>2. CASE /\ pc[s] = "ready" /\ s \in Faiss!Writers /\ x \in Faiss!ToSet(Batch[s])
               /\ Copies(r, x) <= Copies(recs[s], x) + 1
      <4> DEFINE sk == <<s, Begun(s)>>
      <4>1. Begun(s) \in 1..MaxAttempts
        BY <3>2, WritersAssumption DEF Begun, Placed, Faiss!Active, Types
      <4>2. sk \notin Inserted(x) BY <3>2 DEF Inserted, Before
      <4>3. pc'[s] = "writing" /\ Begun(s)' = Begun(s)
        BY <2>1 DEF Faiss!Save, Types, Begun
      <4>4. sk \in Inserted(x)'
        BY <3>2, <4>1, <4>3, WritersAssumption DEF Inserted, Before
      <4>5. Inserted(x) \cup {sk} \subseteq Inserted(x)' BY <4>4, InsertedStay
      <4>6. IsFiniteSet(Inserted(x)) BY InsertedFinite
      <4>7. (IsFiniteSet(Inserted(x)) /\ Cardinality(Inserted(x)) \in Nat)' BY InsertedFinite, PTL
      <4> HIDE DEF sk
      <4>8. Cardinality(Inserted(x) \cup {sk}) = N + 1 BY <4>2, <4>6, FS_AddElement DEF N
      <4>9. N + 1 <= M BY <4>5, <4>7, <4>8, FS_Subset DEF M
      <4>10. Copies(r, x) \in Nat /\ Copies(recs[s], x) \in Nat BY <1>2, <1>4
      <4> QED BY <1>1, <1>4, <3>2, <4>9, <4>10
    <3> QED BY <2>1, <3>1, <3>2
  <2>4. \A w \in Faiss!Sessions : recs'[w] = recs[w] \/ recs'[w] = r BY <2>2 DEF Types
  <2> QED BY <1>4, <1>5, <2>2, <2>3, <2>4
<1> QED BY <1>8, <1>9, <1>10, <1>11, <1>12, <1>13 DEF Acts, Reads

\* No attempt and no request leaves more than its batch.
THEOREM CopiesInductive == Faiss!Spec => []CopiesInv
<1>1. Faiss!Init => CopiesInv
  <2> SUFFICES ASSUME Faiss!Init PROVE CopiesInv OBVIOUS
  <2> USE DEF Faiss!Init, Faiss!Start
  <2>1. Types
    <3>1. attempts \in [Indexers -> 0..MaxAttempts]
      <4>1. 0 \in 0..MaxAttempts BY WritersAssumption
      <4> QED BY <4>1
    <3>2. pc \in [Faiss!Sessions -> Faiss!SessionState] BY DEF Faiss!SessionState
    <3>3. recs \in [Faiss!Sessions -> Seq(Text)]
      <4>1. <<>> \in Seq(Text) OBVIOUS
      <4> QED BY <4>1
    <3>4. vecs \in [Faiss!Sessions -> Seq(Text) \cup {Missing}] OBVIOUS
    <3>5. \A s \in Faiss!Sessions : ~Faiss!InSave(s) BY DEF Faiss!InSave
    <3> QED BY <3>1, <3>2, <3>3, <3>4, <3>5 DEF Types, File
  <2>2. \A s \in Faiss!Sessions : Placed(s)
    BY WritersAssumption DEF Placed, Faiss!Active, Faiss!InSave, Faiss!Sessions, Faiss!Writers
  <2>3. ASSUME NEW x \in Text PROVE Counted(x)
    <3>1. Cardinality(Inserted(x)) \in Nat BY InsertedFinite
    <3>2. \A s \in Faiss!Sessions : recs[s] = <<>> OBVIOUS
    <3>3. ~Faiss!Readable(metaFile) BY DEF Faiss!Readable
    <3> QED BY <3>1, <3>2, <3>3, NoCopies DEF Counted
  <2> QED BY <2>1, <2>2, <2>3 DEF CopiesInv
<1>2. CopiesInv /\ [Faiss!Next]_Faiss!vars => CopiesInv'
  <2> SUFFICES ASSUME CopiesInv, [Faiss!Next]_Faiss!vars PROVE CopiesInv' OBVIOUS
  <2>1. Types /\ (\A s \in Faiss!Sessions : Placed(s)) /\ (\A x \in Text : Counted(x))
    BY DEF CopiesInv
  <2>2. CASE UNCHANGED store
    <3>1. Types'
      BY <2>1, <2>2 DEF Types, store, Faiss!InSave
    <3>2. ASSUME NEW s \in Faiss!Sessions PROVE Placed(s)'
      BY <2>1, <2>2 DEF Placed, store, Faiss!InSave, Faiss!Active
    <3>3. ASSUME NEW x \in Text PROVE Counted(x)'
      <4>1. Inserted(x)' = Inserted(x) BY <2>2 DEF Inserted, Begun, Before, store
      <4> QED BY <2>1, <2>2, <4>1 DEF Counted, store, Faiss!Readable
    <3> QED BY <3>1, <3>2, <3>3 DEF CopiesInv
  <2>3. ASSUME NEW s \in Faiss!Sessions,
               Acts(s)
        PROVE  CopiesInv'
    <3>1. Types' BY <2>1, <2>3, TypesNext
    <3>2. \A x \in Faiss!Sessions : Placed(x)' BY <2>1, <2>3, <3>1, PlacedNext
    <3>3. \A x \in Text : Counted(x)' BY <2>1, <2>3, <3>1, CountedNext
    <3> QED BY <3>1, <3>2, <3>3 DEF CopiesInv
  <2> QED BY <2>1, <2>2, <2>3, Steps
<1> QED BY <1>1, <1>2, PTL DEF Faiss!Spec

\* A text is in the files at most once for every attempt to index it and every
\* request that stored it, whatever fails and is tried again, and whether or not
\* the sessions overlap.
THEOREM CopiesBoundedAlways == Faiss!Spec => []CopiesBounded
<1>1. CopiesInv => CopiesBounded
  <2> SUFFICES ASSUME CopiesInv, NEW x \in Text, Faiss!Readable(metaFile)
               PROVE  Copies(metaFile, x) <=
                         Cardinality({sk \in Faiss!Writers \X (1..MaxAttempts) :
                                        x \in Faiss!ToSet(Batch[sk[1]]) /\ sk[2] <= Begun(sk[1])})
    BY CountsAlike DEF CopiesBounded, Faiss!CopiesBounded, Copies, Begun
  <2> DEFINE S == {sk \in Faiss!Writers \X (1..MaxAttempts) :
                     x \in Faiss!ToSet(Batch[sk[1]]) /\ sk[2] <= Begun(sk[1])}
  <2>1. Inserted(x) \subseteq S BY DEF Inserted
  <2>2. IsFiniteSet(S)
    <3>1. IsFiniteSet(1..MaxAttempts) BY WritersAssumption, FS_Interval
    <3>2. IsFiniteSet(Faiss!Writers \X (1..MaxAttempts)) BY <3>1, WritersAssumption, FS_Product
    <3>3. S \in SUBSET (Faiss!Writers \X (1..MaxAttempts)) OBVIOUS
    <3> HIDE DEF S
    <3> QED BY <3>2, <3>3, FS_Subset
  <2> HIDE DEF S
  <2>3. Cardinality(Inserted(x)) <= Cardinality(S) /\ Cardinality(S) \in Nat
    BY <2>1, <2>2, FS_Subset, FS_CardinalityType
  <2>4. Copies(metaFile, x) <= Cardinality(Inserted(x)) BY DEF CopiesInv, Counted
  <2>5. Copies(metaFile, x) \in Nat /\ Cardinality(Inserted(x)) \in Nat
    <3>1. metaFile \in Seq(Text) BY DEF CopiesInv, Types, File, Faiss!Readable
    <3> QED BY <3>1, CopiesNat, InsertedFinite
  <2>6. Copies(metaFile, x) <= Cardinality(S) BY <2>3, <2>4, <2>5
  <2> QED BY <2>6 DEF S
<1> QED BY <1>1, CopiesInductive, PTL
----------------------------------------------------------------------------
(* A search finds the record whose vector matched *)

\* Where a step of s leaves another session.
LEMMA Where ==
    ASSUME Types, NEW s \in Faiss!Sessions, NEW x \in Faiss!Sessions, x # s, Acts(s)
    PROVE  /\ pc'[x] \in {pc[x], "done"}
           /\ vecs'[x] = vecs[x] /\ recs'[x] = recs[x]
<1> USE DEF Types, Faiss!files, Faiss!history
<1>1. CASE Faiss!LoadIndex(s) BY <1>1 DEF Faiss!LoadIndex
<1>2. CASE Faiss!LoadRecords(s) BY <1>2 DEF Faiss!LoadRecords
<1>3. CASE Faiss!IndexWritten(s) BY <1>3 DEF Faiss!IndexWritten
<1>4. CASE Faiss!OpenMetadata(s) BY <1>4 DEF Faiss!OpenMetadata
<1>5. CASE Faiss!MetadataWritten(s) BY <1>5 DEF Faiss!MetadataWritten
<1>6. CASE Faiss!SaveFails(s) BY <1>6 DEF Faiss!SaveFails
<1>7. CASE Faiss!Crash(s) BY <1>7 DEF Faiss!Crash
<1>8. CASE SaveBegins(s) BY <1>8 DEF SaveBegins, Faiss!Save
<1>9. CASE Stops(s) BY <1>9 DEF Stops
<1> QED BY <1>1, <1>2, <1>3, <1>4, <1>5, <1>6, <1>7, <1>8, <1>9 DEF Acts, Reads, Writes, Fails

LEMMA LoadIndexPairs ==
    ASSUME Types, PairedInv, NEW s \in Faiss!Sessions, Faiss!LoadIndex(s)
    PROVE  PairedInv'
<1> DEFINE usable == Faiss!Readable(indexFile) /\ (s \in Faiss!Writers => metaFile # Missing)
           reads == usable \/ s \in Maintainers
<1>1. /\ pc[s] = "idle"
      /\ vecs' = [vecs EXCEPT ![s] = IF usable THEN indexFile ELSE Missing]
      /\ recs' = [recs EXCEPT ![s] = <<>>]
      /\ suspect' = IF reads /\ spoiled THEN suspect \cup {s} ELSE suspect \ {s}
      /\ pc' = [pc EXCEPT ![s] = IF reads THEN "reading" ELSE "ready"]
      /\ UNCHANGED <<indexFile, metaFile, clash, spoiled>>
  BY DEF Faiss!LoadIndex, Faiss!files
<1>2. /\ pc'[s] = IF reads THEN "reading" ELSE "ready"
      /\ vecs'[s] = IF usable THEN indexFile ELSE Missing
      /\ recs'[s] = <<>>
  BY <1>1 DEF Types
<1>3. ~Faiss!InSave(s) /\ ~Faiss!InSave(s)' BY <1>1, <1>2 DEF Faiss!InSave
<1>4. \A x \in Faiss!Sessions : Faiss!InSave(x)' <=> Faiss!InSave(x)
  BY <1>1, <1>3 DEF Types, Faiss!InSave
<1>5. ASSUME s \notin suspect', reads
      PROVE  /\ ~spoiled'
             /\ Faiss!Vectors(s)' = IF Faiss!Readable(metaFile') THEN metaFile' ELSE <<>>
  <2>1. ~spoiled /\ indexFile = metaFile /\ metaFile # Torn BY <1>1, <1>5 DEF PairedInv, FilesPaired
  <2>2. CASE usable BY <1>1, <1>2, <2>1, <2>2, FileAssumption DEF Faiss!Vectors, Faiss!Readable
  <2>3. CASE ~usable
    <3>1. s \notin Faiss!Writers BY <1>5, <2>3, KindsAssumption
    <3>2. ~Faiss!Readable(metaFile) BY <2>1, <2>3, <3>1
    <3> QED BY <1>1, <1>2, <2>1, <2>3, <3>2 DEF Faiss!Vectors, Faiss!Readable
  <2> QED BY <2>2, <2>3
<1>6. Paired(s)'
  <2>1. CASE reads
    <3>1. pc'[s] = "reading" BY <1>2, <2>1
    <3> QED BY <1>3, <1>5, <2>1, <3>1 DEF Paired, Faiss!Readable
  <2>2. CASE ~reads BY <1>2, <1>3, <2>2 DEF Paired, Faiss!Vectors
  <2> QED BY <2>1, <2>2
<1> HIDE DEF usable, reads
<1>7. ASSUME NEW x \in Faiss!Sessions, x # s PROVE Paired(x)'
  <2>1. Paired(x) BY DEF PairedInv
  <2>2. pc'[x] = pc[x] /\ vecs'[x] = vecs[x] /\ recs'[x] = recs[x] /\ (x \in suspect' <=> x \in suspect)
    BY <1>1, <1>7 DEF Types
  <2> QED BY <1>1, <1>4, <2>1, <2>2 DEF Paired, Faiss!Vectors, Faiss!Readable
<1>8. FilesPaired' BY <1>1 DEF PairedInv, FilesPaired
<1> QED BY <1>6, <1>7, <1>8 DEF PairedInv

LEMMA LoadRecordsPairs ==
    ASSUME Types, PairedInv, NEW s \in Faiss!Sessions, Faiss!LoadRecords(s)
    PROVE  PairedInv'
<1>1. /\ pc[s] = "reading"
      /\ recs' = [recs EXCEPT ![s] = IF Faiss!Readable(metaFile) THEN metaFile ELSE <<>>]
      /\ pc' = [pc EXCEPT ![s] = "ready"]
      /\ UNCHANGED <<indexFile, metaFile, vecs, clash, spoiled, suspect>>
  BY DEF Faiss!LoadRecords, Faiss!files
<1>2. pc'[s] = "ready" /\ recs'[s] = IF Faiss!Readable(metaFile) THEN metaFile ELSE <<>>
  BY <1>1 DEF Types
<1>3. \A x \in Faiss!Sessions : Faiss!InSave(x)' <=> Faiss!InSave(x)
  BY <1>1 DEF Types, Faiss!InSave
<1>4. Paired(s)'
  <2>1. ~Faiss!InSave(s)' BY <1>2 DEF Faiss!InSave
  <2>2. s \notin suspect => Faiss!Vectors(s) = recs'[s] BY <1>1, <1>2 DEF PairedInv, Paired
  <2> QED BY <1>1, <1>2, <2>1, <2>2 DEF Paired, Faiss!Vectors
<1>5. ASSUME NEW x \in Faiss!Sessions, x # s PROVE Paired(x)'
  <2>1. Paired(x) BY DEF PairedInv
  <2>2. pc'[x] = pc[x] /\ recs'[x] = recs[x] BY <1>1, <1>5 DEF Types
  <2> QED BY <1>1, <1>3, <2>1, <2>2 DEF Paired, Faiss!Vectors, Faiss!Readable
<1>6. FilesPaired' BY <1>1 DEF PairedInv, FilesPaired
<1> QED BY <1>4, <1>5, <1>6 DEF PairedInv

\* While s saves and is not suspect, nobody else saves or reads files that are alike.
LEMMA SavesAlone ==
    ASSUME PairedInv, NEW s \in Faiss!Sessions, Faiss!InSave(s)
    PROVE  /\ spoiled
           /\ \A x \in Faiss!Sessions \ {s} : Faiss!InSave(x) => s \in suspect /\ x \in suspect
           /\ \A x \in Faiss!Sessions : pc[x] = "reading" => x \in suspect
BY DEF PairedInv, Paired

\* Another session sees no difference when s writes, for it is suspect or does not
\* use the files.
LEMMA OthersPaired ==
    ASSUME Types, PairedInv, NEW s \in Faiss!Sessions, Faiss!InSave(s),
           NEW x \in Faiss!Sessions, x # s, pc'[x] = pc[x], vecs'[x] = vecs[x], recs'[x] = recs[x],
           suspect' = suspect, spoiled' \/ \A y \in Faiss!Sessions \ {s} : ~Faiss!InSave(y),
           \A y \in Faiss!Sessions \ {s} : Faiss!InSave(y)' <=> Faiss!InSave(y)
    PROVE  Paired(x)'
<1>1. Paired(x) BY DEF PairedInv
<1>2. Faiss!InSave(x) => x \in suspect BY SavesAlone
<1>3. pc[x] = "reading" => x \in suspect BY SavesAlone
<1>4. Faiss!InSave(x)' <=> Faiss!InSave(x) OBVIOUS
<1>5. pc[x] \in {"written", "dumping"} => Faiss!InSave(x) BY DEF Faiss!InSave
<1> QED BY <1>1, <1>2, <1>3, <1>4, <1>5 DEF Paired, Faiss!Vectors

LEMMA IndexWrittenPairs ==
    ASSUME Types, PairedInv, NEW s \in Faiss!Sessions, Faiss!IndexWritten(s)
    PROVE  PairedInv'
<1>1. /\ Faiss!InSave(s) /\ pc[s] = "writing"
      /\ indexFile' \in Faiss!Result(s, vecs[s])
      /\ pc' = [pc EXCEPT ![s] = "written"]
      /\ UNCHANGED <<metaFile, vecs, recs, clash, spoiled, suspect>>
  BY DEF Faiss!IndexWritten, Faiss!InSave, Faiss!history
<1>2. pc'[s] = "written" /\ Faiss!InSave(s)' BY <1>1 DEF Types, Faiss!InSave
<1>3. \A x \in Faiss!Sessions : Faiss!InSave(x)' <=> Faiss!InSave(x)
  BY <1>1, <1>2 DEF Types, Faiss!InSave
<1>4. spoiled BY <1>1, SavesAlone
<1>5. Paired(s)'
  <2>1. s \notin suspect => vecs[s] = recs[s] /\ s \notin clash BY <1>1 DEF PairedInv, Paired
  <2>2. s \notin suspect => indexFile' = vecs[s] BY <1>1, <2>1 DEF Faiss!Result
  <2>3. \A x \in Faiss!Sessions \ {s} : Faiss!InSave(x)' => s \in suspect' BY <1>1, <1>3, SavesAlone
  <2> QED BY <1>1, <1>2, <1>4, <2>1, <2>2, <2>3 DEF Paired
<1>6. ASSUME NEW x \in Faiss!Sessions, x # s PROVE Paired(x)'
  <2>1. pc'[x] = pc[x] BY <1>1, <1>6 DEF Types
  <2> QED BY <1>1, <1>3, <1>4, <1>6, <2>1, OthersPaired
<1>7. FilesPaired' BY <1>1, <1>4 DEF FilesPaired
<1> QED BY <1>5, <1>6, <1>7 DEF PairedInv

LEMMA OpenMetadataPairs ==
    ASSUME Types, PairedInv, NEW s \in Faiss!Sessions, Faiss!OpenMetadata(s)
    PROVE  PairedInv'
<1> DEFINE others == {x \in Faiss!Sessions \ {s} : pc[x] = "dumping"}
<1>1. /\ Faiss!InSave(s) /\ pc[s] = "written"
      /\ clash' = IF others = {} THEN clash \ {s} ELSE clash \cup others \cup {s}
      /\ pc' = [pc EXCEPT ![s] = "dumping"]
      /\ UNCHANGED <<indexFile, vecs, recs, spoiled, suspect>>
  BY DEF Faiss!OpenMetadata, Faiss!Opens, Faiss!InSave, Faiss!history
<1>2. pc'[s] = "dumping" /\ Faiss!InSave(s)' BY <1>1 DEF Types, Faiss!InSave
<1>3. \A x \in Faiss!Sessions : Faiss!InSave(x)' <=> Faiss!InSave(x)
  BY <1>1, <1>2 DEF Types, Faiss!InSave
<1>4. spoiled BY <1>1, SavesAlone
<1>5. Paired(s)'
  <2>1. s \notin suspect => vecs[s] = recs[s] /\ indexFile = vecs[s] BY <1>1 DEF PairedInv, Paired
  <2>2. \A x \in Faiss!Sessions \ {s} : Faiss!InSave(x) => s \in suspect BY <1>1, SavesAlone
  <2>3. s \notin suspect => others = {} BY <2>2 DEF Faiss!InSave
  <2>4. s \notin suspect => s \notin clash' BY <1>1, <2>3
  <2> HIDE DEF others
  <2> QED BY <1>1, <1>2, <1>3, <1>4, <2>1, <2>2, <2>4 DEF Paired
<1> HIDE DEF others
<1>6. ASSUME NEW x \in Faiss!Sessions, x # s PROVE Paired(x)'
  <2>1. pc'[x] = pc[x] BY <1>1, <1>6 DEF Types
  <2> QED BY <1>1, <1>3, <1>4, <1>6, <2>1, OthersPaired
<1>7. FilesPaired' BY <1>1, <1>4 DEF FilesPaired
<1> QED BY <1>5, <1>6, <1>7 DEF PairedInv

LEMMA MetadataPairs ==
    ASSUME Types, PairedInv, NEW s \in Faiss!Sessions, Faiss!MetadataWritten(s)
    PROVE  PairedInv'
<1>1. /\ Faiss!InSave(s) /\ pc[s] = "dumping"
      /\ metaFile' \in Faiss!Result(s, recs[s])
      /\ pc' = [pc EXCEPT ![s] = goal[s]]
      /\ IF metaFile' = Torn THEN spoiled' = spoiled ELSE spoiled' = (s \in suspect)
      /\ UNCHANGED <<indexFile, vecs, recs, clash, suspect>>
  BY DEF Faiss!MetadataWritten, Faiss!InSave, Faiss!history
<1>2. pc'[s] \in {"idle", "inserted", "done"} /\ ~Faiss!InSave(s)' BY <1>1 DEF Types, Faiss!InSave
<1>3. \A x \in Faiss!Sessions \ {s} : pc'[x] = pc[x] /\ (Faiss!InSave(x)' <=> Faiss!InSave(x))
  BY <1>1 DEF Types, Faiss!InSave
<1>4. vecs[s] \in Seq(Text) /\ vecs[s] # Missing /\ recs[s] \in Seq(Text) /\ recs[s] # Torn
  BY <1>1, FileAssumption DEF Types
<1>5. s \notin suspect => /\ vecs[s] = recs[s] /\ indexFile = vecs[s] /\ metaFile' = recs[s]
  BY <1>1 DEF PairedInv, Paired, Faiss!Result
<1>6. spoiled' \/ s \notin suspect
  <2>1. spoiled BY <1>1, SavesAlone
  <2> QED BY <1>1, <2>1
<1>7. Paired(s)' BY <1>1, <1>2, <1>4, <1>5 DEF Paired, Faiss!Vectors, Faiss!InSave
<1>8. ASSUME NEW x \in Faiss!Sessions, x # s PROVE Paired(x)'
  <2>1. spoiled BY <1>1, SavesAlone
  <2>2. spoiled' \/ \A y \in Faiss!Sessions \ {s} : ~Faiss!InSave(y) BY <1>1, <1>6, SavesAlone
  <2> QED BY <1>1, <1>3, <1>8, <2>1, <2>2, OthersPaired
<1>9. FilesPaired' BY <1>1, <1>4, <1>5, <1>6 DEF FilesPaired
<1> QED BY <1>7, <1>8, <1>9 DEF PairedInv

LEMMA FailsPairs ==
    ASSUME Types, PairedInv, NEW s \in Faiss!Sessions, Fails(s) \/ Stops(s)
    PROVE  PairedInv'
<1>1. /\ UNCHANGED <<indexFile, metaFile, vecs, recs, clash, spoiled, suspect>>
      /\ \A x \in Faiss!Sessions : \/ pc'[x] \in {pc[x], "idle", "done"}
                                   \/ Faiss!InSave(x) /\ pc'[x] = "inserted"
  <2> USE DEF Types, Faiss!files, Faiss!history
  <2>1. CASE Faiss!SaveFails(s) BY <2>1 DEF Faiss!SaveFails
  <2>2. CASE Faiss!Crash(s) BY <2>2 DEF Faiss!Crash
  <2>3. CASE Stops(s) BY <2>3 DEF Stops
  <2> QED BY <2>1, <2>2, <2>3 DEF Fails
<1>2. \A x \in Faiss!Sessions : Faiss!InSave(x)' => Faiss!InSave(x) /\ pc'[x] = pc[x]
  BY <1>1 DEF Faiss!InSave
<1>3. ASSUME NEW x \in Faiss!Sessions PROVE Paired(x)'
  <2>1. Paired(x) BY DEF PairedInv
  <2>2. CASE pc'[x] = pc[x] BY <1>1, <1>2, <2>1, <2>2 DEF Paired, Faiss!Vectors, Faiss!Readable
  <2>3. CASE pc'[x] \in {"idle", "done"} BY <2>3 DEF Paired, Faiss!InSave
  <2>4. CASE Faiss!InSave(x) /\ pc'[x] = "inserted"
    <3>1. vecs[x] # Missing BY <2>4, FileAssumption DEF Types
    <3> QED BY <1>1, <2>1, <2>4, <3>1 DEF Paired, Faiss!InSave, Faiss!Vectors
  <2> QED BY <1>1, <2>2, <2>3, <2>4
<1>4. FilesPaired' BY <1>1 DEF PairedInv, FilesPaired
<1> QED BY <1>3, <1>4 DEF PairedInv

LEMMA SaveBeginsPairs ==
    ASSUME Types, PairedInv, NEW s \in Faiss!Sessions, SaveBegins(s)
    PROVE  PairedInv'
<1> DEFINE saving  == {x \in Faiss!Sessions \ {s} : Faiss!InSave(x)}
           reading == {x \in Faiss!Sessions \ {s} : pc[x] = "reading"}
           others  == {x \in Faiss!Sessions \ {s} : pc[x] = "writing"}
<1>1. PICK v \in Seq(Text), r \in Seq(Text), g \in {"idle", "inserted", "done"} :
        /\ pc[s] \in {"ready", "inserted"}
        /\ Faiss!Save(s, v, r, g)
        /\ Faiss!Vectors(s) = recs[s] => v = r
  BY DEF SaveBegins
<1>2. /\ vecs' = [vecs EXCEPT ![s] = v] /\ recs' = [recs EXCEPT ![s] = r]
      /\ clash' = IF others = {} THEN clash \ {s} ELSE clash \cup others \cup {s}
      /\ spoiled' = TRUE
      /\ suspect' = suspect \cup saving \cup reading \cup (IF saving = {} THEN {} ELSE {s})
      /\ pc' = [pc EXCEPT ![s] = "writing"]
  BY <1>1 DEF Faiss!Save, Faiss!Opens
<1>3. others \subseteq saving BY DEF Faiss!InSave
<1>4. vecs'[s] = v /\ recs'[s] = r /\ pc'[s] = "writing" BY <1>2 DEF Types
<1>5. \A x \in Faiss!Sessions \ {s} : pc'[x] = pc[x] /\ vecs'[x] = vecs[x] /\ recs'[x] = recs[x]
  BY <1>2 DEF Types
<1>6. \A x \in Faiss!Sessions \ {s} : Faiss!InSave(x)' <=> Faiss!InSave(x) BY <1>5 DEF Faiss!InSave
<1>7. Paired(s)'
  <2>1. (\E x \in Faiss!Sessions \ {s} : Faiss!InSave(x)') => s \in suspect' BY <1>2, <1>6
  <2>2. s \notin suspect' => s \notin suspect /\ s \notin clash' BY <1>2, <1>3
  <2>3. s \notin suspect' => v = r BY <1>1, <2>2 DEF PairedInv, Paired
  <2> QED BY <1>2, <1>4, <2>1, <2>2, <2>3 DEF Paired
<1>8. ASSUME NEW x \in Faiss!Sessions, x # s PROVE Paired(x)'
  <2>1. Paired(x) BY DEF PairedInv
  <2>2. Faiss!InSave(x)' \/ pc'[x] = "reading" => x \in suspect' BY <1>2, <1>5, <1>6, <1>8
  <2>3. x \notin suspect' => x \notin suspect BY <1>2
  <2>4. pc'[x] \in {"written", "dumping"} => Faiss!InSave(x)' BY DEF Faiss!InSave
  <2>5. pc'[x] = pc[x] /\ vecs'[x] = vecs[x] /\ recs'[x] = recs[x] BY <1>5, <1>8
  <2> QED BY <1>2, <2>1, <2>2, <2>3, <2>4, <2>5 DEF Paired, Faiss!Vectors
<1>9. FilesPaired' BY <1>2 DEF FilesPaired
<1> QED BY <1>7, <1>8, <1>9 DEF PairedInv

----------------------------------------------------------------------------
(* What was saved is not lost *)

\* A step that leaves the metadata, what was saved and what the sessions may lack.
LEMMA Aside ==
    ASSUME Types, SavedInv, \A x \in Faiss!Sessions : Placed(x), UNCHANGED <<recs, vecs, overlap, saved>>,
           metaFile' \in {metaFile, Torn},
           \A x \in Faiss!Sessions : \/ pc'[x] \in {pc[x], "idle", "done"}
                                     \/ Faiss!InSave(x) /\ Faiss!InSave(x)'
                                     \/ Faiss!InSave(x) /\ pc'[x] = goal[x]
    PROVE  SavedInv'
<1>1. SavedThere' BY FileAssumption DEF SavedInv, SavedThere, Faiss!Readable
<1>2. ASSUME NEW x \in Faiss!Sessions PROVE SavedHeld(x)'
  <2>1. SavedHeld(x) BY DEF SavedInv
  <2>2. Faiss!Dropped(x)' = Faiss!Dropped(x) BY DEF Faiss!Dropped
  <2>3. CASE pc'[x] = pc[x] BY <2>1, <2>2, <2>3 DEF SavedHeld, Faiss!InSave, Faiss!Vectors
  <2>4. CASE pc'[x] \in {"idle", "done"} BY <2>4 DEF SavedHeld, Faiss!InSave
  <2>5. CASE Faiss!InSave(x) /\ Faiss!InSave(x)'
    <3>1. pc'[x] \notin {"ready", "inserted"} BY <2>5 DEF Faiss!InSave
    <3> QED BY <2>1, <2>2, <2>5, <3>1 DEF SavedHeld
  <2>6. CASE Faiss!InSave(x) /\ pc'[x] = goal[x] /\ goal[x] = "inserted"
    <3>1. x \notin Maintainers BY <2>6, KindsAssumption DEF Placed, Faiss!Writers
    <3>2. saved \subseteq Faiss!ToSet(recs[x]) \cup overlap[x] BY <2>1, <2>6, <3>1 DEF SavedHeld, Faiss!Dropped
    <3> QED BY <2>6, <3>1, <3>2 DEF SavedHeld, Faiss!InSave
  <2>7. goal[x] \in {"idle", "inserted", "done"} BY DEF Types
  <2> QED BY <2>3, <2>4, <2>5, <2>6, <2>7
<1> QED BY <1>1, <1>2 DEF SavedInv

LEMMA LoadIndexSaved ==
    ASSUME Types, SavedInv, NEW s \in Faiss!Sessions, Faiss!LoadIndex(s)
    PROVE  SavedInv'
<1> DEFINE usable == Faiss!Readable(indexFile) /\ (s \in Faiss!Writers => metaFile # Missing)
           reads == usable \/ s \in Maintainers
<1>1. /\ vecs' = [vecs EXCEPT ![s] = IF usable THEN indexFile ELSE Missing]
      /\ recs' = [recs EXCEPT ![s] = <<>>]
      /\ overlap' = [overlap EXCEPT ![s] = IF usable \/ metaFile = Missing THEN {} ELSE Text]
      /\ pc' = [pc EXCEPT ![s] = IF reads THEN "reading" ELSE "ready"]
      /\ UNCHANGED <<metaFile, saved>>
  BY DEF Faiss!LoadIndex, Faiss!files
<1>2. SavedHeld(s)'
  <2>1. pc'[s] = IF reads THEN "reading" ELSE "ready" BY <1>1 DEF Types
  <2>2. CASE reads BY <2>1, <2>2 DEF SavedHeld, Faiss!InSave
  <2>3. CASE ~reads
    <3>1. overlap'[s] = IF metaFile = Missing THEN {} ELSE Text BY <1>1, <2>3 DEF Types
    <3>2. saved' \subseteq overlap'[s] BY <1>1, <3>1 DEF Types, SavedInv, SavedThere
    <3>3. pc'[s] = "ready" /\ s \notin Maintainers BY <2>1, <2>3
    <3> QED BY <3>2, <3>3 DEF SavedHeld, Faiss!InSave
  <2> QED BY <2>2, <2>3
<1> HIDE DEF usable, reads
<1>3. ASSUME NEW x \in Faiss!Sessions, x # s PROVE SavedHeld(x)'
  <2>1. /\ pc'[x] = pc[x] /\ vecs'[x] = vecs[x] /\ recs'[x] = recs[x] /\ overlap'[x] = overlap[x]
    BY <1>1, <1>3 DEF Types
  <2>2. SavedHeld(x) BY DEF SavedInv
  <2> QED BY <1>1, <2>1, <2>2 DEF SavedHeld, Faiss!InSave, Faiss!Vectors, Faiss!Dropped
<1>4. SavedThere' BY <1>1 DEF SavedInv, SavedThere, Faiss!Readable
<1> QED BY <1>2, <1>3, <1>4 DEF SavedInv

LEMMA LoadRecordsSaved ==
    ASSUME Types, SavedInv, NEW s \in Faiss!Sessions, Faiss!LoadRecords(s)
    PROVE  SavedInv'
<1> DEFINE whole == metaFile # Torn /\ (s \in Maintainers => vecs[s] = metaFile)
<1>1. /\ recs' = [recs EXCEPT ![s] = IF Faiss!Readable(metaFile) THEN metaFile ELSE <<>>]
      /\ overlap' = [overlap EXCEPT ![s] = IF whole THEN {} ELSE Text]
      /\ pc' = [pc EXCEPT ![s] = "ready"]
      /\ UNCHANGED <<metaFile, vecs, saved>>
  BY DEF Faiss!LoadRecords, Faiss!files
<1>2. /\ pc'[s] = "ready"
      /\ recs'[s] = IF Faiss!Readable(metaFile) THEN metaFile ELSE <<>>
      /\ overlap'[s] = IF whole THEN {} ELSE Text
  BY <1>1 DEF Types
<1>3. saved' \subseteq Faiss!ToSet(recs'[s]) \cup overlap'[s]
  <2>1. CASE whole /\ Faiss!Readable(metaFile) BY <1>1, <1>2, <2>1 DEF SavedInv, SavedThere
  <2>2. CASE whole /\ ~Faiss!Readable(metaFile)
    BY <1>1, <2>2 DEF SavedInv, SavedThere, Faiss!Readable
  <2>3. CASE ~whole BY <1>1, <1>2, <2>3 DEF Types
  <2> QED BY <2>1, <2>2, <2>3
<1>4. s \in Maintainers => Faiss!Vectors(s)' = recs'[s] \/ overlap'[s] = Text
  <2>1. CASE ~whole BY <1>2, <2>1
  <2>2. CASE whole BY <1>1, <1>2, <2>2 DEF Faiss!Vectors, Faiss!Readable
  <2> QED BY <2>1, <2>2
<1> HIDE DEF whole
<1>5. SavedHeld(s)' BY <1>2, <1>3, <1>4 DEF SavedHeld, Faiss!InSave
<1>6. ASSUME NEW x \in Faiss!Sessions, x # s PROVE SavedHeld(x)'
  <2>1. /\ pc'[x] = pc[x] /\ recs'[x] = recs[x] /\ overlap'[x] = overlap[x]
    BY <1>1, <1>6 DEF Types
  <2>2. SavedHeld(x) BY DEF SavedInv
  <2> QED BY <1>1, <2>1, <2>2 DEF SavedHeld, Faiss!InSave, Faiss!Vectors, Faiss!Dropped
<1>7. SavedThere' BY <1>1 DEF SavedInv, SavedThere, Faiss!Readable
<1> QED BY <1>5, <1>6, <1>7 DEF SavedInv

LEMMA MetadataSaved ==
    ASSUME Types, SavedInv, \A x \in Faiss!Sessions : Placed(x),
           NEW s \in Faiss!Sessions, Faiss!MetadataWritten(s)
    PROVE  SavedInv'
<1>1. /\ Faiss!InSave(s) /\ pc[s] = "dumping"
      /\ metaFile' \in {recs[s], Torn}
      /\ pc' = [pc EXCEPT ![s] = goal[s]]
      /\ UNCHANGED <<vecs, recs>>
  BY DEF Faiss!MetadataWritten, Faiss!InSave, Faiss!Result
<1>2. CASE metaFile' = Torn
  <2>1. UNCHANGED <<overlap, saved>> BY <1>2 DEF Faiss!MetadataWritten, Faiss!history
  <2>2. \A x \in Faiss!Sessions : \/ pc'[x] \in {pc[x], "idle", "done"}
                                  \/ Faiss!InSave(x) /\ pc'[x] = goal[x]
    BY <1>1 DEF Types
  <2> QED BY <1>1, <1>2, <2>1, <2>2, Aside
<1>3. CASE metaFile' # Torn
  <2>1. /\ overlap' = [x \in Faiss!Sessions |->
                         IF x # s /\ Faiss!Active(x) THEN overlap[x] \cup Faiss!ToSet(recs[s]) ELSE overlap[x]]
        /\ saved' = (saved \ (overlap[s] \cup Faiss!Dropped(s))) \cup Faiss!ToSet(recs[s])
        /\ metaFile' = recs[s]
    BY <1>1, <1>3 DEF Faiss!MetadataWritten
  <2>2. saved' \subseteq Faiss!ToSet(recs[s]) BY <1>1, <2>1 DEF SavedInv, SavedHeld
  <2>3. recs[s] \in Seq(Text) /\ recs[s] # Missing /\ Faiss!ToSet(recs[s]) \subseteq Text
    BY FileAssumption DEF Types, Faiss!ToSet
  <2>4. SavedThere' BY <2>1, <2>2, <2>3 DEF SavedThere
  <2>5. SavedHeld(s)'
    <3>1. pc'[s] \in {"idle", "inserted", "done"} BY <1>1 DEF Types
    <3> QED BY <1>1, <2>2, <3>1 DEF SavedHeld, Faiss!InSave
  <2>6. ASSUME NEW x \in Faiss!Sessions, x # s PROVE SavedHeld(x)'
    <3>1. pc'[x] = pc[x] BY <1>1, <2>6 DEF Types
    <3>2. CASE ~Faiss!Active(x) BY <3>1, <3>2 DEF Faiss!Active, SavedHeld, Faiss!InSave
    <3>3. CASE Faiss!Active(x)
      <4>1. overlap'[x] = overlap[x] \cup Faiss!ToSet(recs[s]) BY <2>1, <2>6, <3>3
      <4>2. saved' \subseteq overlap'[x] BY <2>2, <4>1
      <4>3. overlap[x] = Text => overlap'[x] = Text BY <2>3, <4>1
      <4>4. Faiss!Vectors(x)' = Faiss!Vectors(x) /\ recs'[x] = recs[x] BY <1>1 DEF Faiss!Vectors
      <4>5. SavedHeld(x) BY DEF SavedInv
      <4> QED BY <3>1, <4>2, <4>3, <4>4, <4>5 DEF SavedHeld
    <3> QED BY <3>2, <3>3
  <2> QED BY <2>4, <2>5, <2>6 DEF SavedInv
<1> QED BY <1>2, <1>3

LEMMA SaveBeginsSaved ==
    ASSUME Types, SavedInv, \A x \in Faiss!Sessions : Placed(x),
           NEW s \in Faiss!Sessions, SaveBegins(s)
    PROVE  SavedInv'
<1>1. PICK v \in Seq(Text), r \in Seq(Text), g \in {"idle", "inserted", "done"} :
        /\ pc[s] \in {"ready", "inserted"}
        /\ Faiss!Save(s, v, r, g)
        /\ s \in Faiss!Writers => Faiss!ToSet(recs[s]) \subseteq Faiss!ToSet(r)
        /\ s \in Maintainers /\ Faiss!Vectors(s) = recs[s] =>
              \A x \in Faiss!ToSet(recs[s]) \ Faiss!ToSet(r) :
                 \E y \in Faiss!ToSet(r) : <<x, y>> \in Similar
  BY DEF SaveBegins
<1>2. /\ vecs' = [vecs EXCEPT ![s] = v] /\ recs' = [recs EXCEPT ![s] = r]
      /\ pc' = [pc EXCEPT ![s] = "writing"]
      /\ UNCHANGED <<metaFile, overlap, saved>>
  BY <1>1 DEF Faiss!Save
<1>3. recs'[s] = r /\ pc'[s] = "writing" BY <1>2 DEF Types
<1>4. saved \subseteq Faiss!ToSet(recs[s]) \cup overlap[s] BY <1>1 DEF SavedInv, SavedHeld
<1>5. saved' \subseteq Faiss!ToSet(recs'[s]) \cup overlap'[s] \cup Faiss!Dropped(s)'
  <2>1. CASE s \in Faiss!Writers BY <1>1, <1>2, <1>3, <1>4, <2>1
  <2>2. CASE s \in Maintainers
    <3>1. pc[s] = "ready" BY <1>1, <2>2, KindsAssumption DEF Placed, Faiss!Writers
    <3>2. CASE overlap[s] = Text BY <1>2, <3>2 DEF Types
    <3>3. CASE Faiss!Vectors(s) = recs[s]
      <4>1. Faiss!ToSet(recs[s]) \subseteq Text BY DEF Types, Faiss!ToSet
      <4>2. Faiss!Dropped(s)' = {x \in Text : \E y \in Faiss!ToSet(r) : <<x, y>> \in Similar}
        BY <1>3, <2>2 DEF Faiss!Dropped
      <4>3. Faiss!ToSet(recs[s]) \ Faiss!ToSet(r) \subseteq Faiss!Dropped(s)' BY <1>1, <2>2, <3>3, <4>1, <4>2
      <4> QED BY <1>2, <1>3, <1>4, <4>3
    <3>4. SavedHeld(s) BY DEF SavedInv
    <3> QED BY <2>2, <3>1, <3>2, <3>3, <3>4 DEF SavedHeld
  <2> QED BY <2>1, <2>2 DEF Faiss!Sessions
<1>6. SavedHeld(s)' BY <1>3, <1>5 DEF SavedHeld
<1>7. ASSUME NEW x \in Faiss!Sessions, x # s PROVE SavedHeld(x)'
  <2>1. pc'[x] = pc[x] /\ vecs'[x] = vecs[x] /\ recs'[x] = recs[x] BY <1>2, <1>7 DEF Types
  <2>2. SavedHeld(x) BY DEF SavedInv
  <2> QED BY <1>2, <2>1, <2>2 DEF SavedHeld, Faiss!InSave, Faiss!Vectors, Faiss!Dropped
<1>8. SavedThere' BY <1>2 DEF SavedInv, SavedThere, Faiss!Readable
<1> QED BY <1>6, <1>7, <1>8 DEF SavedInv

LEMMA SavedNext ==
    ASSUME Types, SavedInv, \A x \in Faiss!Sessions : Placed(x), NEW s \in Faiss!Sessions, Acts(s)
    PROVE  SavedInv'
<1> USE DEF Faiss!files, Faiss!history
<1>1. CASE Reads(s) BY <1>1, LoadIndexSaved, LoadRecordsSaved DEF Reads
<1>2. CASE Faiss!IndexWritten(s) \/ Faiss!OpenMetadata(s)
  <2>1. UNCHANGED <<recs, vecs, overlap, saved>> /\ metaFile' \in {metaFile, Torn}
    BY <1>2 DEF Faiss!IndexWritten, Faiss!OpenMetadata
  <2>2. \A x \in Faiss!Sessions : pc'[x] = pc[x] \/ (Faiss!InSave(x) /\ Faiss!InSave(x)')
    BY <1>2 DEF Faiss!IndexWritten, Faiss!OpenMetadata, Types, Faiss!InSave
  <2> QED BY <2>1, <2>2, Aside
<1>3. CASE Faiss!MetadataWritten(s) BY <1>3, MetadataSaved
<1>4. CASE Fails(s) \/ Stops(s)
  <2>1. UNCHANGED <<recs, vecs, overlap, saved, metaFile>>
    BY <1>4 DEF Fails, Faiss!SaveFails, Faiss!Crash, Stops
  <2>2. \A x \in Faiss!Sessions : \/ pc'[x] \in {pc[x], "idle", "done"}
                                  \/ Faiss!InSave(x) /\ pc'[x] = goal[x]
    <3>1. CASE Faiss!SaveFails(s) BY <3>1 DEF Faiss!SaveFails, Types
    <3>2. CASE Faiss!Crash(s) BY <3>2 DEF Faiss!Crash, Types
    <3>3. CASE Stops(s) BY <3>3 DEF Stops, Types
    <3> QED BY <1>4, <3>1, <3>2, <3>3 DEF Fails
  <2> QED BY <2>1, <2>2, Aside
<1>5. CASE SaveBegins(s) BY <1>5, SaveBeginsSaved
<1> QED BY <1>1, <1>2, <1>3, <1>4, <1>5 DEF Acts, Writes

----------------------------------------------------------------------------

\* However the sessions of however many processes overlap, crash and fail, what is
\* not suspect stays paired, and what was saved is lost to one kind of save.
THEOREM FilesInductive == Faiss!Spec => [](PairedInv /\ SavedInv)
<1>1. Faiss!Init => PairedInv /\ SavedInv
  <2> SUFFICES ASSUME Faiss!Init PROVE PairedInv /\ SavedInv OBVIOUS
  <2>1. /\ \A s \in Faiss!Sessions : pc[s] \in {"idle", "done"}
        /\ indexFile = Missing /\ metaFile = Missing /\ saved = {} /\ spoiled = FALSE
    BY DEF Faiss!Init, Faiss!Start
  <2>2. FilesPaired /\ SavedThere BY <2>1, FileAssumption DEF FilesPaired, SavedThere, Faiss!Readable
  <2>3. \A s \in Faiss!Sessions : Paired(s) /\ SavedHeld(s)
    BY <2>1 DEF Paired, SavedHeld, Faiss!InSave
  <2> QED BY <2>2, <2>3 DEF PairedInv, SavedInv
<1>2. CopiesInv /\ PairedInv /\ SavedInv /\ [Faiss!Next]_Faiss!vars => (PairedInv /\ SavedInv)'
  <2> SUFFICES ASSUME CopiesInv, PairedInv, SavedInv, [Faiss!Next]_Faiss!vars
               PROVE  (PairedInv /\ SavedInv)'
    OBVIOUS
  <2>1. Types /\ \A s \in Faiss!Sessions : Placed(s) BY DEF CopiesInv
  <2>2. CASE UNCHANGED store
    BY <2>2 DEF store, PairedInv, SavedInv, FilesPaired, SavedThere, Paired, SavedHeld,
                Faiss!InSave, Faiss!Vectors, Faiss!Readable, Faiss!Dropped
  <2>3. ASSUME NEW s \in Faiss!Sessions, Acts(s) PROVE (PairedInv /\ SavedInv)'
    <3>1. PairedInv'
      BY <2>1, <2>3, LoadIndexPairs, LoadRecordsPairs, IndexWrittenPairs, OpenMetadataPairs,
         MetadataPairs, FailsPairs, SaveBeginsPairs DEF Acts, Reads, Writes
    <3>2. SavedInv' BY <2>1, <2>3, SavedNext
    <3> QED BY <3>1, <3>2
  <2> QED BY <2>1, <2>2, <2>3, Steps
<1> QED BY <1>1, <1>2, CopiesInductive, PTL DEF Faiss!Spec

\* A search finds the record whose vector matched, unless the store was loaded while a
\* save had begun and not ended, or the files were written by saves that overlapped.
THEOREM AlignedAlways == Faiss!Spec => []Aligned
<1>1. PairedInv => Aligned
  BY DEF PairedInv, FilesPaired, Paired, Aligned, Faiss!Aligned
<1> QED BY <1>1, FilesInductive, PTL

\* A text that was saved is lost to the save of a store that was loaded before or could
\* not read the files whole, and to no other, whatever crashes, fails and overlaps.
THEOREM LostOnlyToOverlapAlways == Faiss!Spec => []LostOnlyToOverlap
<1>1. SavedInv => LostOnlyToOverlap
  BY DEF SavedInv, SavedThere, LostOnlyToOverlap, Faiss!LostOnlyToOverlap
<1> QED BY <1>1, FilesInductive, PTL
----------------------------------------------------------------------------
(* What maintenance removes *)

\* Only maintenance takes a maintenance session from ready to a save.
LEMMA OnlyMaintains ==
    ASSUME Types, [Faiss!Next]_Faiss!vars, NEW m \in Maintainers,
           pc[m] = "ready", pc'[m] = "writing"
    PROVE  Faiss!Maintain(m)
<1> USE DEF Types
<1>1. m \in Faiss!Sessions /\ m \notin Faiss!Writers /\ m \notin Indexers /\ m \notin Requests
  BY KindsAssumption DEF Faiss!Sessions, Faiss!Writers
<1>2. PICK s \in Faiss!Sessions :
        \/ Faiss!LoadIndex(s) \/ Faiss!LoadRecords(s)
        \/ Faiss!IndexWritten(s) \/ Faiss!OpenMetadata(s) \/ Faiss!MetadataWritten(s)
        \/ Faiss!SaveFails(s) \/ Faiss!Crash(s)
        \/ Faiss!Insert(s) \/ Faiss!Leave(s) \/ Faiss!CloseStore(s) \/ Faiss!Maintain(s)
  BY <1>1 DEF Faiss!Next, Faiss!Finished, Faiss!vars
<1>3. Acts(s) \/ Faiss!Leave(s)
  BY <1>2, InsertBegins, CloseBegins, MaintainBegins DEF Acts, Reads, Writes, Fails
<1>4. CASE s # m
  <2>1. ~Faiss!Leave(s) BY <1>1, <1>4 DEF Faiss!Leave
  <2> QED BY <1>1, <1>3, <1>4, <2>1, Where
<1>5. CASE s = m
  <2>1. ~Faiss!LoadIndex(m) BY DEF Faiss!LoadIndex
  <2>2. ~Faiss!LoadRecords(m) BY DEF Faiss!LoadRecords
  <2>3. ~Faiss!IndexWritten(m) /\ ~Faiss!OpenMetadata(m) /\ ~Faiss!MetadataWritten(m)
    BY DEF Faiss!IndexWritten, Faiss!OpenMetadata, Faiss!MetadataWritten
  <2>4. ~Faiss!SaveFails(m) BY DEF Faiss!SaveFails, Faiss!InSave
  <2>5. ~Faiss!Crash(m) BY <1>1 DEF Faiss!Crash, Faiss!SameProcess
  <2>6. ~Faiss!Insert(m) /\ ~Faiss!Leave(m) /\ ~Faiss!CloseStore(m)
    BY <1>1 DEF Faiss!Insert, Faiss!Leave, Faiss!CloseStore
  <2> QED BY <1>2, <1>5, <2>1, <2>2, <2>3, <2>4, <2>5, <2>6
<1> QED BY <1>4, <1>5

\* Of vectors and records that are paired, maintenance leaves no two similar ones, and
\* removes none without one that is similar to it and stays.
THEOREM DuplicatesOnlyRemovedAlways == Faiss!Spec => DuplicatesOnlyRemoved
<1> DEFINE Removes(m) ==
             Faiss!Vectors(m) = recs[m] /\ pc[m] = "ready" /\ pc'[m] = "writing" =>
               /\ \A i, j \in DOMAIN recs'[m] : i < j => ~Faiss!Similarly(recs'[m], i, j)
               /\ \A x \in Faiss!ToSet(recs[m]) \ Faiss!ToSet(recs'[m]) :
                     \E y \in Faiss!ToSet(recs'[m]) : <<x, y>> \in Similar
<1>1. ASSUME Types, [Faiss!Next]_Faiss!vars, NEW m \in Maintainers
      PROVE  Removes(m)
  <2> SUFFICES ASSUME Faiss!Vectors(m) = recs[m], pc[m] = "ready", pc'[m] = "writing"
               PROVE  /\ \A i, j \in DOMAIN recs'[m] : i < j => ~Faiss!Similarly(recs'[m], i, j)
                      /\ \A x \in Faiss!ToSet(recs[m]) \ Faiss!ToSet(recs'[m]) :
                            \E y \in Faiss!ToSet(recs'[m]) : <<x, y>> \in Similar
    OBVIOUS
  <2>1. Faiss!Maintain(m) BY <1>1, OnlyMaintains
  <2>2. m \in Faiss!Sessions BY DEF Faiss!Sessions
  <2>3. recs[m] \in Seq(Text) BY <1>1, <2>2 DEF Types
  <2> DEFINE kept == Faiss!At(recs[m], Faiss!KeptPositions(recs[m], recs[m]))
  <2>4. recs'[m] = kept
    <3>1. CASE pc' = [pc EXCEPT ![m] = "done"] BY <1>1, <2>2, <3>1 DEF Types
    <3>2. CASE Faiss!Save(m, kept, kept, "done")
      BY <1>1, <2>2, <3>2 DEF Types, Faiss!Save
    <3> QED BY <2>1, <3>1, <3>2 DEF Faiss!Maintain
  <2>5. /\ \A i, j \in DOMAIN kept : i < j => ~Faiss!Similarly(kept, i, j)
        /\ \A x \in Faiss!ToSet(recs[m]) \ Faiss!ToSet(kept) :
              \E y \in Faiss!ToSet(kept) : <<x, y>> \in Similar
    BY <2>3, KeptApart
  <2> HIDE DEF kept
  <2> QED BY <2>4, <2>5
<1>2. CopiesInv /\ [Faiss!Next]_Faiss!vars => [\A m \in Maintainers : Removes(m)]_Faiss!vars
  BY <1>1 DEF CopiesInv
<1>3. Faiss!Spec => [][\A m \in Maintainers : Removes(m)]_Faiss!vars
  BY <1>2, CopiesInductive, PTL DEF Faiss!Spec
<1> QED BY <1>3 DEF DuplicatesOnlyRemoved, Faiss!DuplicatesOnlyRemoved

=============================================================================
