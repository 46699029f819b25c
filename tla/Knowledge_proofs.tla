-------------------------- MODULE Knowledge_proofs --------------------------
(***************************************************************************)
(* Proofs about the parts of Knowledge, for any processes, documents,      *)
(* calls, sessions, memory types and limits.                               *)
(*                                                                         *)
(*   RagIndex: the types, PairedUnlessOverlap and SearchRecovers.  What a  *)
(*   build contains does not matter there, only that it is neither of the  *)
(*   marks for a missing and a torn file (BuildsWhole).  It does in        *)
(*   OnlySuspectLeftOut: chunks cover their document (ChunksCover), and    *)
(*   behind a first chunk that passed only suspect ones are rejected.      *)
(*                                                                         *)
(*   UnifiedMemory: FoundWasSaid, as one call at a time is inside a        *)
(*   session's lock, so that list and table have the stores' messages in   *)
(*   the order of the stores and a cut leaves an end of it (CutBehind);    *)
(*   and AuthorityKept, as any nonempty set of facts has a first one that  *)
(*   none is above (FirstExists).                                          *)
(*                                                                         *)
(*   VectorMigration: SummaryExact, as a run's points are the records of   *)
(*   the batches it has sent, whatever was answered.                       *)
(***************************************************************************)
EXTENDS Knowledge, FiniteSetTheorems, WellFoundedInduction, TLAPS

(***************************************************************************)
(* RagIndex                                                                *)
(***************************************************************************)
\* Until two saves overlap, there is one at a time.
OneSaver == \A p, q \in Procs : pc[p] \in Saving /\ pc[q] \in Saving => p = q

\* What a save that is at the stage of p has left on disk so far.
Staged(p) ==
    /\ pc[p] = "writingIndex" => disk.tmpIndex # Missing
    /\ pc[p] \in {"writingChunks", "unlinkIndex", "unlinkChunks", "renameIndex"} => disk.tmpIndex = own[p]
    /\ pc[p] = "writingChunks" => disk.tmpChunks # Missing
    /\ pc[p] \in {"unlinkIndex", "unlinkChunks", "renameIndex", "renameChunks"} => disk.tmpChunks = own[p]
    /\ pc[p] \in {"unlinkChunks", "renameIndex"} => disk.index = Missing
    /\ pc[p] \in {"renameIndex", "renameChunks"} => disk.chunks = Missing
    /\ pc[p] = "renameChunks" => disk.index = own[p]

FilesPaired ==
    /\ Torn \notin {disk.index, disk.chunks}
    /\ Missing \in {disk.index, disk.chunks} \/ disk.index = disk.chunks

\* What a load that no save has overlapped knows of the files.
Undisturbed(p) ==
    pc[p] \in Reading /\ ~raced[p] =>
        /\ disk.index # Missing /\ disk.chunks # Missing
        /\ pc[p] = "readChunks" => loaded[p].index = disk.index

Quiet ==
    /\ OneSaver
    /\ FilesPaired
    /\ \A p \in Procs : Staged(p) /\ Undisturbed(p)
    /\ \A p \in Procs : pc[p] = "idle" /\ ~raced[p] => loaded[p].index = loaded[p].chunks

\* A load beside which nobody saves, or else it is marked; a save is of what its
\* retriever uses.
Marked ==
    \A p \in Procs :
        /\ pc[p] \in Reading /\ ~raced[p] => \A q \in Procs : pc[q] \notin Saving
        /\ pc[p] \in Saving => loaded[p].index = loaded[p].chunks

IInv == TypeOK /\ Marked /\ (~clash => Quiet)

----------------------------------------------------------------------------
(* Builds *)

LEMMA MarksDiffer == Missing # Torn
<1>1. <<"missing">>[1] # <<"torn">>[1] OBVIOUS
<1>2. <<"missing">> # <<"torn">> BY <1>1
<1> QED BY <1>2 DEF Missing, Torn

LEMMA BuildsWhole == ASSUME NEW b \in Builds PROVE b # Missing /\ b # Torn
<1>1. PICK ds \in SUBSET Docs : b = Accepted(ds) BY DEF Builds
<1>2. \A c \in b : \E d \in Docs : \E x : c = <<d, x>> BY <1>1 DEF Accepted, Safe
<1>3. \A d, x : <<d, x>> # <<"missing">> /\ <<d, x>> # <<"torn">> OBVIOUS
<1> QED BY <1>2, <1>3 DEF Missing, Torn

LEMMA AcceptedBuild == ASSUME NEW ds \in SUBSET Docs PROVE Accepted(ds) \in Builds
BY DEF Builds

LEMMA EmptyBuild == {} \in Builds
<1>1. Accepted({}) = {} BY DEF Accepted
<1> QED BY <1>1, AcceptedBuild

----------------------------------------------------------------------------
(* The steps *)

USE DEF Saving, Reading, Writing

LEMMA Initially == Init => IInv
<1> SUFFICES ASSUME Init PROVE IInv OBVIOUS
<1> USE DEF Init
<1>1. TypeOK BY EmptyBuild DEF TypeOK, ProcState, NotLoaded
<1>2. Marked BY DEF Marked
<1>3. OneSaver BY DEF OneSaver
<1>4. FilesPaired BY MarksDiffer DEF FilesPaired
<1>5. \A p \in Procs : Staged(p) /\ Undisturbed(p) BY DEF Staged, Undisturbed
<1>6. \A p \in Procs : loaded[p].index = loaded[p].chunks BY DEF NotLoaded
<1> QED BY <1>1, <1>2, <1>3, <1>4, <1>5, <1>6 DEF IInv, Quiet

\* The types, action by action.
LEMMA TypesStep == TypeOK /\ [Next]_vars => TypeOK'
<1> SUFFICES ASSUME TypeOK, [Next]_vars PROVE TypeOK' OBVIOUS
<1> USE EmptyBuild, AcceptedBuild DEF TypeOK, ProcState, NotLoaded
<1>1. ASSUME NEW p \in Procs, Ingest(p) PROVE TypeOK' BY <1>1 DEF Ingest, Extract
<1>2. ASSUME NEW p \in Procs, StartSave(p) PROVE TypeOK' BY <1>2 DEF StartSave
<1>3. ASSUME NEW p \in Procs, EndWriteIndex(p) PROVE TypeOK' BY <1>3 DEF EndWriteIndex, Write
<1>4. ASSUME NEW p \in Procs, EndWriteChunks(p) PROVE TypeOK' BY <1>4 DEF EndWriteChunks, Write
<1>5. ASSUME NEW p \in Procs, Unlink(p) PROVE TypeOK' BY <1>5 DEF Unlink
<1>6. ASSUME NEW p \in Procs, RenameIndex(p) PROVE TypeOK' BY <1>6 DEF RenameIndex
<1>7. ASSUME NEW p \in Procs, RenameChunks(p) PROVE TypeOK' BY <1>7 DEF RenameChunks
<1>8. ASSUME NEW p \in Procs, SaveFails(p) PROVE TypeOK' BY <1>8 DEF SaveFails
<1>9. ASSUME NEW p \in Procs, Cleanup(p) PROVE TypeOK' BY <1>9 DEF Cleanup
<1>10. ASSUME NEW p \in Procs, Search(p) PROVE TypeOK'
  <2>1. loaded' \in [Procs -> [index : Builds, chunks : Builds]] BY <1>10 DEF Search
  <2>2. raced' \in [Procs -> BOOLEAN] BY <1>10 DEF Search
  <2> DEFINE Kept == pc' \in [Procs -> ProcState] /\ own' \in [Procs -> Builds]
  <2>3. ASSUME IndexMissing, docs # {} PROVE Kept
    <3>1. Extract(p) BY <1>10, <2>3 DEF Search, Rebuild
    <3> QED BY <3>1 DEF Extract
  <2>4. ASSUME ~(IndexMissing /\ docs # {}) PROVE Kept BY <1>10, <2>4 DEF Search, Rebuild
  <2> QED BY <1>10, <2>1, <2>2, <2>3, <2>4 DEF Search
<1>11. ASSUME NEW p \in Procs, ReadIndex(p) PROVE TypeOK' BY <1>11 DEF ReadIndex
<1>12. ASSUME NEW p \in Procs, ReadChunks(p) PROVE TypeOK' BY <1>12 DEF ReadChunks, Rebuild, Extract
<1>13. ASSUME NEW p \in Procs, Recover(p) PROVE TypeOK' BY <1>13 DEF Recover
<1>14. ASSUME NEW p \in Procs, Crash(p) PROVE TypeOK' BY <1>14 DEF Crash
<1>15. ASSUME NEW d \in Docs, Upload(d) PROVE TypeOK' BY <1>15 DEF Upload
<1>16. CASE UNCHANGED vars BY <1>16 DEF vars
<1> QED
  BY <1>1, <1>2, <1>3, <1>4, <1>5, <1>6, <1>7, <1>8, <1>9, <1>10, <1>11, <1>12, <1>13, <1>14, <1>15, <1>16
  DEF Next

\* What has happened stays.
LEMMA Overlapped == TypeOK /\ [Next]_vars => (clash => clash')
BY DEF TypeOK, Next, vars, Ingest, StartSave, EndWriteIndex, EndWriteChunks, Unlink, RenameIndex,
   RenameChunks, SaveFails, Cleanup, Search, ReadIndex, ReadChunks, Recover, Crash, Upload

LEMMA MarkedStep == TypeOK /\ Marked /\ [Next]_vars => Marked'
<1> SUFFICES ASSUME TypeOK, Marked, [Next]_vars PROVE Marked' OBVIOUS
<1> USE DEF TypeOK, ProcState, Marked, NotLoaded
<1>1. ASSUME NEW p \in Procs, Ingest(p) PROVE Marked' BY <1>1 DEF Ingest, Extract
<1>2. ASSUME NEW p \in Procs, StartSave(p) PROVE Marked' BY <1>2 DEF StartSave, Others
<1>3. ASSUME NEW p \in Procs, EndWriteIndex(p) PROVE Marked' BY <1>3 DEF EndWriteIndex, Write
<1>4. ASSUME NEW p \in Procs, EndWriteChunks(p) PROVE Marked' BY <1>4 DEF EndWriteChunks, Write
<1>5. ASSUME NEW p \in Procs, Unlink(p) PROVE Marked' BY <1>5 DEF Unlink
<1>6. ASSUME NEW p \in Procs, RenameIndex(p) PROVE Marked' BY <1>6 DEF RenameIndex
<1>7. ASSUME NEW p \in Procs, RenameChunks(p) PROVE Marked' BY <1>7 DEF RenameChunks
<1>8. ASSUME NEW p \in Procs, SaveFails(p) PROVE Marked' BY <1>8 DEF SaveFails
<1>9. ASSUME NEW p \in Procs, Cleanup(p) PROVE Marked' BY <1>9 DEF Cleanup
<1>10. ASSUME NEW p \in Procs, Search(p) PROVE Marked' BY <1>10 DEF Search, Rebuild, Extract, Others, IndexMissing
<1>11. ASSUME NEW p \in Procs, ReadIndex(p) PROVE Marked' BY <1>11 DEF ReadIndex
<1>12. ASSUME NEW p \in Procs, ReadChunks(p) PROVE Marked' BY <1>12 DEF ReadChunks, Rebuild, Extract
<1>13. ASSUME NEW p \in Procs, Recover(p) PROVE Marked' BY <1>13 DEF Recover
<1>14. ASSUME NEW p \in Procs, Crash(p) PROVE Marked' BY <1>14 DEF Crash
<1>15. ASSUME NEW d \in Docs, Upload(d) PROVE Marked' BY <1>15 DEF Upload
<1>16. CASE UNCHANGED vars BY <1>16 DEF vars
<1> QED
  BY <1>1, <1>2, <1>3, <1>4, <1>5, <1>6, <1>7, <1>8, <1>9, <1>10, <1>11, <1>12, <1>13, <1>14, <1>15, <1>16
  DEF Next

\* The invariant proper.  Each step below is of one process; the others' parts are as
\* they were, or are void because there is one saver.
LEMMA QuietStep ==
    ASSUME TypeOK, Marked, Quiet, clash' = FALSE, [Next]_vars
    PROVE  Quiet'
<1> USE DEF TypeOK, ProcState, Marked, Quiet, OneSaver, Staged, FilesPaired, Undisturbed, NotLoaded
<1> USE BuildsWhole, MarksDiffer
<1>1. ASSUME NEW p \in Procs, Ingest(p) PROVE Quiet' BY <1>1 DEF Ingest, Extract
<1>2. ASSUME NEW p \in Procs, StartSave(p) PROVE Quiet'
  <2>1. \A q \in Procs : pc[q] \notin Saving BY <1>2 DEF StartSave, Others
  <2>2. /\ disk' = [disk EXCEPT !.tmpIndex = Torn]
        /\ pc' = [pc EXCEPT ![p] = "writingIndex"]
        /\ loaded' = [loaded EXCEPT ![p] = [index |-> own[p], chunks |-> own[p]]]
        /\ raced' = [q \in Procs |-> raced[q] \/ pc[q] \in Reading]
        /\ UNCHANGED own
    BY <1>2 DEF StartSave
  <2>3. OneSaver' BY <2>1, <2>2
  <2>4. FilesPaired' BY <2>2
  <2>5. \A q \in Procs : Staged(q)' BY <2>1, <2>2
  <2>6. \A q \in Procs : Undisturbed(q)' BY <2>2
  <2>7. \A q \in Procs : pc'[q] = "idle" /\ ~raced'[q] => loaded'[q].index = loaded'[q].chunks
    BY <2>2
  <2> QED BY <2>3, <2>4, <2>5, <2>6, <2>7
<1>3. ASSUME NEW p \in Procs, EndWriteIndex(p) PROVE Quiet' BY <1>3 DEF EndWriteIndex, Write
<1>4. ASSUME NEW p \in Procs, EndWriteChunks(p) PROVE Quiet' BY <1>4 DEF EndWriteChunks, Write
<1>5. ASSUME NEW p \in Procs, Unlink(p) PROVE Quiet' BY <1>5 DEF Unlink
<1>6. ASSUME NEW p \in Procs, RenameIndex(p) PROVE Quiet' BY <1>6 DEF RenameIndex
<1>7. ASSUME NEW p \in Procs, RenameChunks(p) PROVE Quiet' BY <1>7 DEF RenameChunks
<1>8. ASSUME NEW p \in Procs, SaveFails(p) PROVE Quiet' BY <1>8 DEF SaveFails
<1>9. ASSUME NEW p \in Procs, Cleanup(p) PROVE Quiet' BY <1>9 DEF Cleanup
<1>10. ASSUME NEW p \in Procs, Search(p) PROVE Quiet' BY <1>10 DEF Search, Rebuild, Extract, Others, IndexMissing
<1>11. ASSUME NEW p \in Procs, ReadIndex(p) PROVE Quiet' BY <1>11 DEF ReadIndex
<1>12. ASSUME NEW p \in Procs, ReadChunks(p) PROVE Quiet' BY <1>12 DEF ReadChunks, Rebuild, Extract
<1>13. ASSUME NEW p \in Procs, Recover(p) PROVE Quiet' BY <1>13 DEF Recover
<1>14. ASSUME NEW p \in Procs, Crash(p) PROVE Quiet' BY <1>14 DEF Crash
<1>15. ASSUME NEW d \in Docs, Upload(d) PROVE Quiet' BY <1>15 DEF Upload
<1>16. CASE UNCHANGED vars BY <1>16 DEF vars
<1> QED
  BY <1>1, <1>2, <1>3, <1>4, <1>5, <1>6, <1>7, <1>8, <1>9, <1>10, <1>11, <1>12, <1>13, <1>14, <1>15, <1>16
  DEF Next

LEMMA InductiveStep == IInv /\ [Next]_vars => IInv'
<1> SUFFICES ASSUME IInv, [Next]_vars PROVE IInv' OBVIOUS
<1>1. TypeOK' BY TypesStep DEF IInv
<1>2. Marked' BY MarkedStep DEF IInv
<1>3. ASSUME ~clash' PROVE ~clash BY <1>3, Overlapped DEF IInv
<1>4. ASSUME ~clash' PROVE Quiet' BY <1>1, <1>3, <1>4, QuietStep DEF IInv, TypeOK
<1> QED BY <1>1, <1>2, <1>4 DEF IInv

THEOREM Inductive == Spec => []IInv
BY Initially, InductiveStep, PTL DEF Spec

----------------------------------------------------------------------------
(* Theorems *)

\* The types, for any processes and documents: what is in the files, in a retriever
\* or being written is always a build of uploaded documents, or nothing, or torn.
THEOREM TypeCorrect == Spec => []TypeOK
<1>1. IInv => TypeOK BY DEF IInv
<1> QED BY <1>1, Inductive, PTL

\* Whatever crashes or fails in the middle of a save, index and chunks are of one build
\* unless saves overlapped (retriever.py:253-293).
THEOREM PairedAlways == Spec => []PairedUnlessOverlap
<1>1. IInv => PairedUnlessOverlap BY DEF IInv, Quiet, FilesPaired, PairedUnlessOverlap
<1> QED BY <1>1, Inductive, PTL

\* A search that no save overlaps is never turned away by what it finds on disk
\* (retriever.py:278-313).
THEOREM SearchRecoversAlways == Spec => []SearchRecovers
<1>1. IInv => SearchRecovers BY DEF IInv, Quiet, FilesPaired, Undisturbed, SearchRecovers
<1> QED BY <1>1, Inductive, PTL

(***************************************************************************)
(* RagIndex: what is let into the index                                    *)
(***************************************************************************)
\* Sets of numbers have a smallest one, and a largest one if they are bounded.
LEMMA Smallest ==
    ASSUME NEW T \in SUBSET Nat, T # {}
    PROVE  \E m \in T : \A x \in T : m <= x
<1> DEFINE R == OpToRel(<, Nat)
<1>1. \A x, y \in Nat : x < y => <<x, y>> \in R BY DEF OpToRel
<1>2. IsWellFoundedOn(R, Nat) BY NatLessThanWellFounded
<1> HIDE DEF R
<1>3. PICK m \in T : \A y \in T : <<y, m>> \notin R BY <1>2, WFMin
<1>4. ASSUME NEW x \in T PROVE m <= x
  <2>1. x \in Nat /\ m \in Nat OBVIOUS
  <2>2. ~(x < m) BY <1>1, <1>3, <2>1
  <2> QED BY <2>1, <2>2
<1> QED BY <1>4

LEMMA Largest ==
    ASSUME NEW k \in Nat, NEW T \in SUBSET (0..k), T # {}
    PROVE  \E m \in T : \A x \in T : x <= m
<1> DEFINE U == {k - x : x \in T}
<1>1. \A x \in T : x \in 0..k OBVIOUS
<1>2. U \in SUBSET Nat /\ U # {}
  <2>1. ASSUME NEW x \in T PROVE k - x \in Nat BY <1>1
  <2> QED BY <2>1
<1>3. \A x \in T : k - x \in U OBVIOUS
<1> HIDE DEF U
<1>4. PICK u \in U : \A x \in U : u <= x BY <1>2, Smallest
<1>5. PICK m \in T : u = k - m BY <1>4 DEF U
<1>6. ASSUME NEW x \in T PROVE x <= m
  <2>1. u <= k - x BY <1>3, <1>4
  <2>2. x \in 0..k /\ m \in 0..k BY <1>1
  <2> QED BY <1>5, <2>1, <2>2
<1> QED BY <1>6

----------------------------------------------------------------------------
(* Adding up *)

\* The member that a fold takes first.
One(s) == CHOOSE x \in s : TRUE

\* g sums f over the sets of a family.
Sums(f, g, family) ==
    \A s \in family : g[s] = IF s = {} THEN 0 ELSE f[One(s)] + g[s \ {One(s)}]

\* The subsets of S of n members at most.
Small(S, n) == {s \in SUBSET S : Cardinality(s) <= n}

\* Without it there is one member less.
LEMMA OneLess ==
    ASSUME NEW S, IsFiniteSet(S), NEW s \in SUBSET S, s # {}
    PROVE  /\ One(s) \in s
           /\ s \ {One(s)} \in SUBSET S
           /\ Cardinality(s) \in Nat \ {0}
           /\ Cardinality(s \ {One(s)}) = Cardinality(s) - 1
<1>1. One(s) \in s BY DEF One
<1>2. IsFiniteSet(s) BY FS_Subset
<1>3. Cardinality(s) \in Nat /\ Cardinality(s) # 0 BY <1>2, FS_CardinalityType, FS_EmptySet
<1>4. Cardinality(s \ {One(s)}) = Cardinality(s) - 1 BY <1>1, <1>2, FS_RemoveElement
<1> QED BY <1>1, <1>3, <1>4

\* Sums over the subsets of a finite set exist, by the smallest n up to which they do not.
LEMMA SumsExist ==
    ASSUME NEW S, IsFiniteSet(S), NEW f, NEW n \in Nat
    PROVE  \E g : Sums(f, g, Small(S, n))
<1> DEFINE T == {m \in Nat : ~\E g : Sums(f, g, Small(S, m))}
<1> SUFFICES ASSUME T # {} PROVE FALSE OBVIOUS
<1>1. PICK m \in T : \A x \in T : m <= x BY Smallest
<1>2. m \in Nat /\ ~\E g : Sums(f, g, Small(S, m)) OBVIOUS
<1>3. m # 0
  <2> DEFINE z == [s \in SUBSET S |-> 0]
  <2>1. ASSUME NEW s \in Small(S, 0) PROVE s = {}
    <3>1. s \in SUBSET S /\ Cardinality(s) <= 0 BY DEF Small
    <3>2. s # {} => Cardinality(s) \in Nat \ {0} BY <3>1, OneLess
    <3> QED BY <3>1, <3>2
  <2>2. Sums(f, z, Small(S, 0)) BY <2>1 DEF Sums, Small
  <2> HIDE DEF z
  <2> QED BY <1>2, <2>2
<1>4. m - 1 \in Nat /\ m - 1 \notin T
  <2>1. m - 1 \in Nat /\ ~(m <= m - 1) BY <1>2, <1>3
  <2> QED BY <1>1, <2>1
<1>5. PICK g : Sums(f, g, Small(S, m - 1)) BY <1>4
<1> HIDE DEF T
<1> DEFINE h == [s \in SUBSET S |-> IF s = {} THEN 0 ELSE f[One(s)] + g[s \ {One(s)}]]
<1>6. \A s \in Small(S, m - 1) : h[s] = g[s] BY <1>5 DEF Sums, Small
<1>7. ASSUME NEW s \in Small(S, m), s # {} PROVE h[s] = f[One(s)] + h[s \ {One(s)}]
  <2>1. s \in SUBSET S /\ Cardinality(s) <= m BY DEF Small
  <2>2. s \ {One(s)} \in Small(S, m - 1) BY <1>2, <1>7, <2>1, OneLess DEF Small
  <2>3. h[s \ {One(s)}] = g[s \ {One(s)}] BY <1>6, <2>2
  <2> QED BY <1>7, <2>1, <2>3
<1>8. {} \in SUBSET S /\ h[{}] = 0 OBVIOUS
<1> HIDE DEF h
<1>9. Sums(f, h, Small(S, m)) BY <1>7, <1>8 DEF Sums
<1> QED BY <1>2, <1>9

\* and are natural numbers if the summands are.
LEMMA SumsNat ==
    ASSUME NEW S, IsFiniteSet(S), NEW f, \A x \in S : f[x] \in Nat, NEW g, Sums(f, g, SUBSET S)
    PROVE  \A s \in SUBSET S : g[s] \in Nat
<1> DEFINE T == {n \in Nat : \E s \in SUBSET S : Cardinality(s) = n /\ g[s] \notin Nat}
<1>1. SUFFICES ASSUME T # {} PROVE FALSE
  <2>1. \A s \in SUBSET S : Cardinality(s) \in Nat BY FS_Subset, FS_CardinalityType
  <2> QED BY <2>1
<1>2. PICK m \in T : \A x \in T : m <= x BY <1>1, Smallest
<1>3. PICK s \in SUBSET S : Cardinality(s) = m /\ g[s] \notin Nat OBVIOUS
<1>4. s # {} /\ g[s] = f[One(s)] + g[s \ {One(s)}]
  <2>1. g[s] = IF s = {} THEN 0 ELSE f[One(s)] + g[s \ {One(s)}] BY DEF Sums
  <2> QED BY <1>3, <2>1
<1>5. /\ One(s) \in s /\ s \ {One(s)} \in SUBSET S
      /\ Cardinality(s) \in Nat \ {0} /\ Cardinality(s \ {One(s)}) = Cardinality(s) - 1
  BY <1>4, OneLess
<1>6. m - 1 \in Nat /\ ~(m <= m - 1) BY <1>3, <1>5
<1>7. g[s \ {One(s)}] \in Nat BY <1>2, <1>3, <1>5, <1>6
<1> QED BY <1>3, <1>4, <1>5, <1>7

\* What a fold that adds up yields.
SumOf(f, S) ==
    LET iter[s \in SUBSET S] ==
          IF s = {} THEN 0 ELSE LET x == CHOOSE x \in s : TRUE IN f[x] + iter[s \ {x}]
    IN  iter[S]

\* It is a natural number.
LEMMA SumNat ==
    ASSUME NEW S, IsFiniteSet(S), NEW f, \A x \in S : f[x] \in Nat
    PROVE  SumOf(f, S) \in Nat
<1> DEFINE Is(g) == g = [s \in SUBSET S |-> IF s = {} THEN 0
                                         ELSE LET x == CHOOSE x \in s : TRUE IN f[x] + g[s \ {x}]]
<1>1. Cardinality(S) \in Nat BY FS_CardinalityType
<1>2. PICK g : Sums(f, g, Small(S, Cardinality(S))) BY <1>1, SumsExist
<1>3. Small(S, Cardinality(S)) = SUBSET S BY FS_Subset DEF Small
<1> DEFINE h == [s \in SUBSET S |-> g[s]]
<1>4. Is(h)
  <2>1. ASSUME NEW s \in SUBSET S
        PROVE  h[s] = IF s = {} THEN 0 ELSE LET x == CHOOSE x \in s : TRUE IN f[x] + h[s \ {x}]
    <3>1. g[s] = IF s = {} THEN 0 ELSE f[One(s)] + g[s \ {One(s)}] BY <1>2, <1>3 DEF Sums
    <3>2. s # {} => h[s \ {One(s)}] = g[s \ {One(s)}] OBVIOUS
    <3> QED BY <3>1, <3>2 DEF One
  <2> QED BY <2>1
<1> HIDE DEF h
<1> DEFINE it == CHOOSE g0 : Is(g0)
<1>5. Is(it) BY <1>4
<1>6. SumOf(f, S) = it[S] BY DEF SumOf
<1> HIDE DEF it
<1>7. Sums(f, it, SUBSET S) BY <1>5 DEF Sums, One
<1>8. S \in SUBSET S OBVIOUS
<1> HIDE DEF Is
<1> QED BY <1>6, <1>7, <1>8, SumsNat

\* What TextAssumption says of a document.
LEMMA SentencesTyped ==
    ASSUME NEW d \in Docs
    PROVE  /\ Len(Text[d]) \in Nat
           /\ IsFiniteSet(1..Len(Text[d]))
           /\ \A x \in 1..Len(Text[d]) : Text[d][x].words \in Nat /\ Text[d][x].score \in Nat
<1> DEFINE Sentence == [words : Nat, score : Nat]
<1>1. Text \in [Docs -> Seq(Sentence)] BY TextAssumption
<1>2. \A x \in Sentence : x.words \in Nat /\ x.score \in Nat OBVIOUS
<1> HIDE DEF Sentence
<1>3. Text[d] \in Seq(Sentence) BY <1>1
<1>4. Len(Text[d]) \in Nat /\ \A x \in 1..Len(Text[d]) : Text[d][x] \in Sentence BY <1>3
<1>5. IsFiniteSet(1..Len(Text[d])) BY <1>4, FS_Interval
<1> QED BY <1>2, <1>4, <1>5

\* Scores and lengths are natural numbers.
LEMMA ScoreNat ==
    ASSUME NEW d \in Docs, NEW c \in SUBSET (1..Len(Text[d]))
    PROVE  Score(d, c) \in Nat
<1> DEFINE f == [x \in 1..Len(Text[d]) |-> Text[d][x].score]
<1>1. \A x \in c : f[x] \in Nat BY SentencesTyped
<1>2. IsFiniteSet(c) BY SentencesTyped, FS_Subset
<1>3. Score(d, c) = SumOf(f, c) BY DEF Score, SumOf, FoldFunctionOnSet, MapThenFoldSet
<1> HIDE DEF f
<1> QED BY <1>1, <1>2, <1>3, SumNat

LEMMA TotalNat ==
    ASSUME NEW d \in Docs, NEW s \in 1..Len(Text[d]), NEW e \in 1..Len(Text[d])
    PROVE  Total(d, s, e, "words") \in Nat
<1> DEFINE f == [x \in 1..Len(Text[d]) |-> Text[d][x].words]
<1>1. Len(Text[d]) \in Nat BY SentencesTyped
<1>2. s..e \subseteq 1..Len(Text[d]) BY <1>1
<1>3. \A x \in s..e : f[x] \in Nat BY <1>2, SentencesTyped
<1>4. IsFiniteSet(s..e) BY <1>2, SentencesTyped, FS_Subset
<1>5. Total(d, s, e, "words") = SumOf(f, s..e)
  BY <1>2 DEF Total, SumOf, FoldFunctionOnSet, MapThenFoldSet
<1> HIDE DEF f
<1> QED BY <1>3, <1>4, <1>5, SumNat

----------------------------------------------------------------------------
(* Cutting and gating *)

\* A chunk ends where it starts or later, within the document.
LEMMA LastWithin ==
    ASSUME NEW d \in Docs, NEW s \in 1..Len(Text[d])
    PROVE  LastOf(d, s) \in s..Len(Text[d])
<1> DEFINE n == Len(Text[d])
           T == {e \in s..n : e = s \/ Total(d, s, e, "words") <= MaxWords}
<1>1. n \in Nat /\ s \in 1..n BY SentencesTyped
<1> HIDE DEF n
<1>2. T \in SUBSET (0..n) /\ T # {} BY <1>1
<1>3. PICK m \in T : \A x \in T : x <= m BY <1>1, <1>2, Largest
<1>4. m \in s..n /\ (m = s \/ Total(d, s, m, "words") <= MaxWords) OBVIOUS
<1>5. m = n \/ Total(d, s, m + 1, "words") > MaxWords
  <2> SUFFICES ASSUME m # n PROVE Total(d, s, m + 1, "words") > MaxWords OBVIOUS
  <2>1. m + 1 \in s..n /\ ~(m + 1 <= m) BY <1>1, <1>4
  <2>2. ~(Total(d, s, m + 1, "words") <= MaxWords) BY <1>3, <2>1
  <2>3. m + 1 \in 1..Len(Text[d]) BY <1>1, <2>1 DEF n
  <2>4. Total(d, s, m + 1, "words") \in Nat BY <2>3, TotalNat
  <2> QED BY <2>2, <2>4, ChunkAssumption
<1> HIDE DEF T
<1> QED BY <1>4, <1>5 DEF LastOf, n

\* The after chunk starts later, and leaves no sentence out.
LEMMA NextWithin ==
    ASSUME NEW d \in Docs, NEW s \in 1..Len(Text[d])
    PROVE  NextStart(s, LastOf(d, s)) \in (s + 1)..(LastOf(d, s) + 1)
<1>1. LastOf(d, s) \in s..Len(Text[d]) /\ Len(Text[d]) \in Nat BY LastWithin, SentencesTyped
<1> QED BY <1>1, ChunkAssumption DEF NextStart

\* from cuts a document into chunks from each of some sentences on.
Cuts(d, from, places) ==
    \A s \in places :
        from[s] = LET e == LastOf(d, s)
                  IN  <<s..e>> \o (IF e < Len(Text[d]) /\ NextStart(s, e) <= Len(Text[d])
                                   THEN from[NextStart(s, e)] ELSE <<>>)

\* The last m sentences.
Rest(d, m) == {s \in 1..Len(Text[d]) : s + m > Len(Text[d])}

\* A cut of them exists, by the smallest number of sentences that have none.
LEMMA CutsExist ==
    ASSUME NEW d \in Docs, NEW n \in Nat
    PROVE  \E from : Cuts(d, from, Rest(d, n))
<1> DEFINE T == {m \in Nat : ~\E g : Cuts(d, g, Rest(d, m))}
<1> SUFFICES ASSUME T # {} PROVE FALSE OBVIOUS
<1>1. PICK m \in T : \A x \in T : m <= x BY Smallest
<1>2. m \in Nat /\ ~\E g : Cuts(d, g, Rest(d, m)) OBVIOUS
<1>a. Len(Text[d]) \in Nat BY SentencesTyped
<1>3. m # 0
  <2>1. Rest(d, 0) = {} BY <1>a DEF Rest
  <2>2. Cuts(d, <<>>, Rest(d, 0)) BY <2>1 DEF Cuts
  <2> QED BY <1>2, <2>2
<1>4. m - 1 \in Nat /\ m - 1 \notin T
  <2>1. m - 1 \in Nat /\ ~(m <= m - 1) BY <1>2, <1>3
  <2> QED BY <1>1, <2>1
<1>5. PICK g : Cuts(d, g, Rest(d, m - 1)) BY <1>4
<1> HIDE DEF T
<1> DEFINE More(s) == LastOf(d, s) < Len(Text[d]) /\ NextStart(s, LastOf(d, s)) <= Len(Text[d])
           h == [s \in 1..Len(Text[d]) |->
                   <<s..LastOf(d, s)>> \o (IF More(s) THEN g[NextStart(s, LastOf(d, s))] ELSE <<>>)]
<1>6. \A s \in Rest(d, m - 1) : h[s] = g[s] BY <1>5 DEF Cuts, Rest
<1>7. ASSUME NEW s \in Rest(d, m)
      PROVE  h[s] = <<s..LastOf(d, s)>> \o (IF More(s) THEN h[NextStart(s, LastOf(d, s))] ELSE <<>>)
  <2>1. s \in 1..Len(Text[d]) /\ s + m > Len(Text[d]) BY DEF Rest
  <2>2. h[s] = <<s..LastOf(d, s)>> \o (IF More(s) THEN g[NextStart(s, LastOf(d, s))] ELSE <<>>)
    BY <2>1
  <2>3. ASSUME More(s) PROVE h[NextStart(s, LastOf(d, s))] = g[NextStart(s, LastOf(d, s))]
    <3>1. NextStart(s, LastOf(d, s)) \in (s + 1)..(LastOf(d, s) + 1) BY <2>1, NextWithin
    <3>2. LastOf(d, s) \in Int BY <2>1, <1>a, LastWithin
    <3>3. NextStart(s, LastOf(d, s)) \in Rest(d, m - 1) BY <1>2, <1>a, <2>1, <2>3, <3>1, <3>2 DEF Rest
    <3> QED BY <1>6, <3>3
  <2> HIDE DEF h, More
  <2> QED BY <2>2, <2>3
<1> HIDE DEF h
<1>8. Cuts(d, h, Rest(d, m)) BY <1>7 DEF Cuts
<1> QED BY <1>2, <1>8

\* What a document is cut into from s on: chunks of it that have all of its rest.
Covered(d, s, chunks) ==
    /\ chunks \in Seq(SUBSET (1..Len(Text[d])))
    /\ chunks # <<>>
    /\ \A k \in s..Len(Text[d]) : \E i \in 1..Len(chunks) : k \in chunks[i]

\* By the last place from which a cut has not all of the rest.
LEMMA CutsCover ==
    ASSUME NEW d \in Docs, NEW from, Cuts(d, from, 1..Len(Text[d]))
    PROVE  \A s \in 1..Len(Text[d]) : Covered(d, s, from[s])
<1> DEFINE n == Len(Text[d])
           T == {s \in 1..n : ~Covered(d, s, from[s])}
<1> SUFFICES ASSUME T # {} PROVE FALSE OBVIOUS
<1>1. n \in Nat BY SentencesTyped
<1>2. T \in SUBSET (0..n) BY <1>1
<1>3. PICK s \in T : \A x \in T : x <= s BY <1>1, <1>2, Largest
<1>4. s \in 1..n /\ ~Covered(d, s, from[s]) OBVIOUS
<1> DEFINE e == LastOf(d, s)
           after == NextStart(s, e)
<1>5. e \in s..n /\ after \in (s + 1)..(e + 1) BY <1>4, LastWithin, NextWithin
<1>6. from[s] = <<s..e>> \o (IF e < n /\ after <= n THEN from[after] ELSE <<>>) BY <1>4 DEF Cuts
<1>7. <<s..e>> \in Seq(SUBSET (1..n)) /\ Len(<<s..e>>) = 1 /\ <<s..e>>[1] = s..e
  <2>1. s..e \in SUBSET (1..n) BY <1>1, <1>4, <1>5
  <2> HIDE DEF n, e
  <2> QED BY <2>1
<1>8. CASE e < n /\ after <= n
  <2>1. after \in 1..n /\ ~(after <= s) BY <1>1, <1>4, <1>5, <1>8
  <2>2. Covered(d, after, from[after]) BY <1>3, <2>1
  <2> DEFINE c == from[after]
  <2>3. /\ c \in Seq(SUBSET (1..n)) /\ \A k \in after..n : \E i \in 1..Len(c) : k \in c[i]
        /\ from[s] = <<s..e>> \o c
    BY <1>6, <1>8, <2>2 DEF Covered
  <2> HIDE DEF n, e, after, c, T
  <2>4. /\ from[s] \in Seq(SUBSET (1..n)) /\ Len(from[s]) = 1 + Len(c) /\ Len(c) \in Nat
        /\ from[s][1] = s..e /\ \A i \in 1..Len(c) : from[s][i + 1] = c[i]
    BY <1>7, <2>3
  <2>5. ASSUME NEW k \in s..n PROVE \E i \in 1..Len(from[s]) : k \in from[s][i]
    <3>1. CASE k \in s..e
      <4>1. 1 \in 1..Len(from[s]) BY <2>4
      <4> QED BY <2>4, <3>1, <4>1
    <3>2. CASE k \notin s..e
      <4>1. k \in after..n BY <1>1, <1>4, <1>5, <3>2
      <4>2. PICK i \in 1..Len(c) : k \in c[i] BY <2>3, <4>1
      <4>3. i + 1 \in 1..Len(from[s]) BY <2>4
      <4> QED BY <2>4, <4>2, <4>3
    <3> QED BY <3>1, <3>2
  <2>6. from[s] # <<>> BY <2>4
  <2> QED BY <1>4, <2>4, <2>5, <2>6 DEF Covered, n
<1>9. CASE ~(e < n /\ after <= n)
  <2>1. e = n BY <1>1, <1>4, <1>5, <1>9
  <2>2. from[s] = <<s..e>> \o <<>> BY <1>6, <1>9
  <2> HIDE DEF n, e, after, T
  <2>3. from[s] = <<s..e>> BY <1>7, <2>2
  <2>4. from[s] \in Seq(SUBSET (1..n)) /\ from[s] # <<>> BY <1>7, <2>3
  <2>5. 1 \in 1..Len(from[s]) /\ from[s][1] = s..n BY <1>7, <2>1, <2>3
  <2> QED BY <1>4, <2>4, <2>5 DEF Covered, n
<1> QED BY <1>8, <1>9

\* chunk_text leaves no sentence out.
LEMMA ChunksCover ==
    ASSUME NEW d \in Docs, Text[d] # <<>>
    PROVE  Covered(d, 1, Chunks(d))
<1> DEFINE n == Len(Text[d])
           Is(g) == g = [s \in 1..n |->
                           LET e == LastOf(d, s)
                           IN  <<s..e>> \o (IF e < n /\ NextStart(s, e) <= n
                                            THEN g[NextStart(s, e)] ELSE <<>>)]
<1>1. n \in Nat /\ 1 \in 1..n
  <2>1. Text[d] \in Seq([words : Nat, score : Nat]) BY TextAssumption
  <2> DEFINE t == Text[d]
             Sentence == [words : Nat, score : Nat]
  <2>2. t \in Seq(Sentence) /\ t # <<>> BY <2>1
  <2> HIDE DEF t, Sentence
  <2>3. Len(t) \in Nat /\ Len(t) # 0 BY <2>2
  <2> QED BY <2>3 DEF t
<1>2. Rest(d, n) = 1..n BY <1>1 DEF Rest
<1>3. PICK g : Cuts(d, g, 1..n) BY <1>1, <1>2, CutsExist
<1> DEFINE h == [s \in 1..n |-> g[s]]
<1>4. Is(h)
  <2>1. ASSUME NEW s \in 1..n
        PROVE  h[s] = LET e == LastOf(d, s)
                      IN  <<s..e>> \o (IF e < n /\ NextStart(s, e) <= n
                                       THEN h[NextStart(s, e)] ELSE <<>>)
    <3>1. /\ LastOf(d, s) \in s..n
          /\ NextStart(s, LastOf(d, s)) \in (s + 1)..(LastOf(d, s) + 1)
      BY LastWithin, NextWithin
    <3>2. NextStart(s, LastOf(d, s)) <= n => NextStart(s, LastOf(d, s)) \in 1..n BY <1>1, <3>1
    <3> QED BY <1>3, <3>2 DEF Cuts
  <2> QED BY <2>1
<1> HIDE DEF h
<1> DEFINE from == CHOOSE g0 : Is(g0)
<1>5. Is(from) BY <1>4
<1>6. Chunks(d) = from[1] BY DEF Chunks
<1> HIDE DEF from
<1>7. Cuts(d, from, 1..n) BY <1>5 DEF Cuts
<1>8. Covered(d, 1, from[1]) BY <1>1, <1>7, CutsCover
<1> QED BY <1>6, <1>8

\* The gate rejects, behind a first chunk that passed, suspect chunks only.
LEMMA PassesAre ==
    ASSUME NEW d \in Docs, Chunks(d) \in Seq(SUBSET (1..Len(Text[d]))), Chunks(d) # <<>>,
           Score(d, Chunks(d)[1]) < Reject
    PROVE  \A i \in 1..Len(Chunks(d)) : Passes(d)[i] = (Score(d, Chunks(d)[i]) < Reject)
<1> DEFINE c == Chunks(d)
           n == Len(c)
           Below(i) == Score(d, c[i]) < Reject
           Is(g) == g = [i \in 1..n |-> Below(i) /\ (i = 1 \/ \E j \in 1..i - 1 : g[j])]
           all == [i \in 1..n |-> Below(i)]
<1>1. n \in Nat /\ 1 \in 1..n /\ Below(1)
  <2> DEFINE S == SUBSET (1..Len(Text[d]))
  <2>1. c \in Seq(S) /\ c # <<>> OBVIOUS
  <2> HIDE DEF S, c
  <2>2. Len(c) \in Nat /\ Len(c) # 0 BY <2>1
  <2> QED BY <2>2 DEF c
<1> HIDE DEF c, n, Below
<1>2. Is(all)
  <2>1. all[1] BY <1>1
  <2>2. ASSUME NEW i \in 1..n PROVE Below(i) = (Below(i) /\ (i = 1 \/ \E j \in 1..i - 1 : all[j]))
    <3>1. i = 1 \/ 1 \in 1..i - 1 BY <1>1
    <3>2. i = 1 \/ \E j \in 1..i - 1 : all[j] BY <2>1, <3>1
    <3>3. Below(i) \in BOOLEAN BY DEF Below
    <3> QED BY <3>2, <3>3
  <2>3. \A i \in 1..n : all[i] = Below(i) OBVIOUS
  <2>4. all = [i \in 1..n |-> all[i]] OBVIOUS
  <2> HIDE DEF all
  <2> QED BY <2>2, <2>3, <2>4
<1> DEFINE ok == CHOOSE g : Is(g)
<1>3. Is(ok) BY <1>2
<1>4. Passes(d) = ok BY DEF Passes, Below, c, n
<1> HIDE DEF ok, all
<1>5. ok[1] BY <1>1, <1>3
<1>6. ASSUME NEW i \in 1..n PROVE ok[i] = Below(i)
  <2>1. i = 1 \/ 1 \in 1..i - 1 BY <1>1
  <2>2. i = 1 \/ \E j \in 1..i - 1 : ok[j] BY <1>5, <2>1
  <2>3. ok[i] = (Below(i) /\ (i = 1 \/ \E j \in 1..i - 1 : ok[j])) BY <1>3
  <2>4. Below(i) \in BOOLEAN BY DEF Below
  <2> QED BY <2>2, <2>3, <2>4
<1> QED BY <1>4, <1>6 DEF c, n, Below

\* Nothing but suspect text is left out of the index, except behind a bad start.
LEMMA InnocentAccepted ==
    ASSUME NEW d \in Docs \ BadStart, NEW s \in (1..Len(Text[d])) \ Suspect[d]
    PROVE  \E c \in Accepted({d}) : s \in c[2]
<1>1. Text[d] # <<>> BY SentencesTyped
<1>2. Covered(d, 1, Chunks(d)) BY <1>1, ChunksCover
<1> DEFINE n == Len(Text[d])
           c == Chunks(d)
<1>3. /\ c \in Seq(SUBSET (1..n)) /\ c # <<>>
      /\ \E i \in 1..Len(c) : s \in c[i]
  BY <1>2 DEF Covered
<1>4. /\ 1 \in 1..Len(c) /\ \A i \in 1..Len(c) : c[i] \in SUBSET (1..n)
  <2> HIDE DEF c, n
  <2> QED BY <1>3
<1>5. \A i \in 1..Len(c) : Score(d, c[i]) \in Nat BY <1>4, ScoreNat
<1>6. PICK i \in 1..Len(c) : s \in c[i] /\ ~(Score(d, c[i]) >= Quarantine)
  BY <1>3 DEF Suspect
<1>7. Score(d, c[i]) < Quarantine /\ Score(d, c[i]) < Reject
  <2>1. Score(d, c[i]) \in Nat BY <1>5
  <2> QED BY <1>6, <2>1, GateAssumption
<1>8. Score(d, c[1]) < Reject
  <2>1. ~(Score(d, c[1]) >= Reject) BY <1>1 DEF BadStart
  <2>2. Score(d, c[1]) \in Nat BY <1>4, <1>5
  <2> QED BY <2>1, <2>2, GateAssumption
<1>9. Passes(d)[i] = (Score(d, c[i]) < Reject) BY <1>3, <1>8, PassesAre
<1>10. <<d, c[i]>> \in Safe[d] BY <1>7, <1>9 DEF Safe
<1>11. <<d, c[i]>> \in Accepted({d}) BY <1>10 DEF Accepted
<1> QED BY <1>6, <1>11

\* A sentence of an uploaded document is in the index unless all its chunks are suspect
\* or the document's first chunk was rejected, for any documents, any length and overlap
\* of chunks and any thresholds (retriever.py:137-161, content_safety.py:96-115, 204-251).
THEOREM OnlySuspectLeftOutAlways == Spec => []OnlySuspectLeftOut
<1>1. TypeOK => OnlySuspectLeftOut BY InnocentAccepted DEF TypeOK, OnlySuspectLeftOut
<1> QED BY <1>1, TypeCorrect, PTL

(***************************************************************************)
(* UnifiedMemory: one call at a time                                       *)
(***************************************************************************)
CallState == {"new", "user", "assistant", "recent", "history", "episodic", "profile", "done", "cancelled"}

Messages == [of : Stores, role : {"user", "assistant"}]

Snapshots == [conversation : Seq(Messages), vector : Seq(Stores), kg : Seq(Stores)]

MemoryTypes ==
    /\ at \in [Memory!Calls -> CallState]
    /\ recent \in [Memory!Sessions -> Seq(Messages)]
    /\ history \in [Memory!Sessions -> Seq(Messages)]
    /\ vector \in [{"episodic", "profile"} -> SUBSET Stores]
    /\ kg \in SUBSET Stores
    /\ snap \in [Readers -> Snapshots]
    /\ earlier \in [Stores -> SUBSET Stores]
    /\ spoilt \in SUBSET Memory!Calls
    /\ \A c \in Stores : at[c] \notin {"recent", "history"}
    /\ \A r \in Readers : at[r] \notin {"user", "assistant"}

Within(c) == at[c] \in Memory!Inside

OneWithin ==
    \A c, d \in Memory!Calls : Within(c) /\ Within(d) /\ Session[c] = Session[d] => c = d

CallOver(c) == at[c] \in {"done", "cancelled"}

\* A store inside knows the others of its session that are over.
KnowsEarlier ==
    \A c, d \in Stores : Within(d) /\ CallOver(c) /\ Session[c] = Session[d] => c \in earlier[d]

\* Whose messages are anywhere has begun.
Begun ==
    /\ \A s \in Memory!Sessions : \A m \in Memory!Members(recent[s]) \cup Memory!Members(history[s]) :
          Session[m.of] = s /\ at[m.of] # "new"
    /\ \A r \in Readers : \A m \in Memory!Members(snap[r].conversation) : at[m.of] # "new"

\* With e for earlier: a later message is of the same interaction or of a later one.
Ordered(e, q) ==
    \A i, j \in 1..Len(q) : i < j => q[i].of = q[j].of \/ q[i].of \in e[q[j].of]

InOrder == \A s \in Memory!Sessions : Ordered(earlier, recent[s]) /\ Ordered(earlier, history[s])

\* With e for earlier: SaidOrCut.
SaidOf(e, c, q) ==
    \/ {Memory!Message(c, "user"), Memory!Message(c, "assistant")} \subseteq Memory!Members(q)
    \/ q # <<>> /\ \A m \in Memory!Members(q) : m.of = c \/ c \in e[m.of]

\* What is found anywhere has been written.
Learnt(c) == at[c] \in {"profile", "done", "cancelled"}

AllLearnt ==
    /\ \A c \in vector["episodic"] \cup vector["profile"] \cup kg : Learnt(c)
    /\ \A r \in Readers : \A c \in Memory!Members(snap[r].vector) \cup Memory!Members(snap[r].kg) : Learnt(c)

\* What has become of an interaction none of whose layers failed.
Stored(c) ==
    LET s == Session[c]
        Added(q, role) == Memory!Message(c, role) \in Memory!Members(q)
    IN  /\ at[c] = "assistant" => Added(history[s], "user") /\ (recent[s] = <<>> \/ Added(recent[s], "user"))
        /\ at[c] \in {"episodic", "profile", "done"} =>
              /\ Added(history[s], "user") /\ Added(history[s], "assistant")
              /\ recent[s] = <<>> \/ SaidOf(earlier, c, recent[s])
        /\ at[c] # "cancelled"

\* A reader that has fetched the conversation has all that is over in it.
Fetched(r) ==
    at[r] \in {"episodic", "profile"} =>
        \A c \in Stores \ spoilt :
            Session[c] = Session[r] /\ at[c] = "done" => SaidOf(earlier, c, snap[r].conversation)

\* What FoundWasSaid says of one reader.
Told(r) ==
    at[r] = "done" =>
        \A c \in (Memory!Members(snap[r].vector) \cup Memory!Members(snap[r].kg)) \ spoilt :
            Session[c] = Session[r] => SaidOf(earlier, c, snap[r].conversation)

MemoryInv ==
    /\ MemoryTypes
    /\ OneWithin
    /\ KnowsEarlier
    /\ Begun
    /\ InOrder
    /\ AllLearnt
    /\ \A c \in Stores \ spoilt : Stored(c)
    /\ \A r \in Readers \ spoilt : Fetched(r) /\ Told(r)

LEMMA MemoryInit == Memory!Init => MemoryInv
<1> SUFFICES ASSUME Memory!Init PROVE MemoryInv OBVIOUS
<1> USE DEF Memory!Init, Memory!NoSnapshot, Memory!TopK
<1>0. \A c \in Memory!Calls : at[c] = "new" BY DEF Memory!Calls
<1>1. MemoryTypes BY DEF MemoryTypes, CallState, Snapshots, Messages, Memory!Calls
<1>2. OneWithin /\ KnowsEarlier BY <1>0 DEF OneWithin, KnowsEarlier, Within, CallOver, Memory!Inside, Memory!Calls
<1>3. Memory!Members(<<>>) = {} BY DEF Memory!Members
<1>4. Begun BY <1>3 DEF Begun
<1>5. InOrder BY DEF InOrder, Ordered
<1>6. AllLearnt BY <1>3 DEF AllLearnt
<1>7. \A c \in Stores \ spoilt : Stored(c) BY <1>0 DEF Stored, Memory!Calls
<1>8. \A r \in Readers \ spoilt : Fetched(r) /\ Told(r) BY <1>0 DEF Fetched, Told, Memory!Calls
<1> QED BY <1>1, <1>2, <1>4, <1>5, <1>6, <1>7, <1>8 DEF MemoryInv

LEMMA Appended == ASSUME NEW S, NEW s \in Seq(S), NEW x \in S
                  PROVE  /\ Append(s, x) \in Seq(S) /\ Append(s, x) # <<>>
                         /\ Len(Append(s, x)) = Len(s) + 1 /\ Append(s, x)[Len(s) + 1] = x
                         /\ \A i \in 1..Len(s) : Append(s, x)[i] = s[i]
                         /\ Memory!Members(Append(s, x)) = Memory!Members(s) \cup {x}
<1> DEFINE t == Append(s, x)
<1>1. /\ t \in Seq(S) /\ Len(t) = Len(s) + 1 /\ t[Len(s) + 1] = x /\ t # <<>>
      /\ \A i \in 1..Len(s) : t[i] = s[i]
  OBVIOUS
<1> HIDE DEF t
<1>2. 1..Len(t) = 1..Len(s) \cup {Len(s) + 1} BY <1>1
<1>3. Memory!Members(t) = Memory!Members(s) \cup {x} BY <1>1, <1>2 DEF Memory!Members
<1> QED BY <1>1, <1>3 DEF t

\* The last n of a conversation.
LEMMA LatestKept ==
    ASSUME NEW s \in Seq(Messages), NEW n \in Nat \ {0}, NEW t, t = Memory!Latest(s, n)
    PROVE  /\ t \in Seq(Messages)
           /\ Memory!Members(t) \subseteq Memory!Members(s)
<1>1. CASE Len(s) <= n BY <1>1 DEF Memory!Latest
<1>2. CASE ~(Len(s) <= n)
  <2> DEFINE k == Len(s) - n
  <2>1. t = SubSeq(s, Len(s) - n + 1, Len(s)) BY <1>2 DEF Memory!Latest
  <2>2. t \in Seq(Messages) /\ Len(t) = n /\ \A i \in 1..n : t[i] = s[k + i] BY <1>2, <2>1
  <2>3. k \in Nat /\ Len(s) = k + n /\ \A i \in 1..n : k + i \in 1..Len(s) BY <1>2
  <2> HIDE DEF k
  <2>4. ASSUME NEW i \in 1..Len(t) PROVE t[i] \in Memory!Members(s)
    BY <2>2, <2>3 DEF Memory!Members
  <2>5. Memory!Members(t) \subseteq Memory!Members(s) BY <2>4 DEF Memory!Members
  <2> QED BY <2>2, <2>3, <2>5
<1> QED BY <1>1, <1>2

\* Cut off by the limit is what comes first.
LEMMA CutBehind ==
    ASSUME NEW e, NEW q \in Seq(Messages), NEW n \in Nat \ {0}, Ordered(e, q),
           NEW c, SaidOf(e, c, q)
    PROVE  SaidOf(e, c, Memory!Latest(q, n))
<1> SUFFICES ASSUME NEW t, t = Memory!Latest(q, n) PROVE SaidOf(e, c, t) OBVIOUS
<1>1. t \in Seq(Messages) /\ Memory!Members(t) \subseteq Memory!Members(q) BY LatestKept
<1>2. CASE Len(q) <= n BY <1>2 DEF Memory!Latest
<1>3. CASE ~(Len(q) <= n)
  <2> DEFINE k == Len(q) - n
  <2>0. t = SubSeq(q, Len(q) - n + 1, Len(q)) BY <1>3 DEF Memory!Latest
  <2>4. k \in Nat /\ Len(q) = k + n /\ Len(t) = n /\ \A i \in 1..n : t[i] = q[k + i] BY <1>3, <2>0
  <2> HIDE DEF k
  <2>1. t # <<>> BY <1>1, <2>4
  <2>2. CASE \A m \in Memory!Members(q) : m.of = c \/ c \in e[m.of]
    BY <1>1, <2>1, <2>2 DEF SaidOf
  <2>3. ASSUME NEW role \in {"user", "assistant"},
               Memory!Message(c, role) \in Memory!Members(q),
               Memory!Message(c, role) \notin Memory!Members(t)
        PROVE  SaidOf(e, c, t)
    <3>1. PICK i \in 1..Len(q) : q[i] = Memory!Message(c, role) BY <2>3 DEF Memory!Members
    <3>2. i <= k
      <4> SUFFICES ASSUME ~(i <= k) PROVE FALSE OBVIOUS
      <4>1. i - k \in 1..n /\ k + (i - k) = i BY <2>4
      <4>2. t[i - k] = q[i] BY <2>4, <4>1
      <4> QED BY <2>3, <2>4, <3>1, <4>1, <4>2 DEF Memory!Members
    <3>3. q[i].of = c BY <3>1 DEF Memory!Message
    <3>4. ASSUME NEW j \in 1..n PROVE t[j].of = c \/ c \in e[t[j].of]
      <4>1. k + j \in 1..Len(q) /\ i < k + j BY <2>4, <3>2
      <4> QED BY <2>4, <3>3, <4>1 DEF Ordered
    <3>5. \A m \in Memory!Members(t) : m.of = c \/ c \in e[m.of] BY <2>4, <3>4 DEF Memory!Members
    <3> QED BY <2>1, <3>5 DEF SaidOf
  <2> QED BY <2>2, <2>3 DEF SaidOf
<1> QED BY <1>2, <1>3

\* A message of an interaction all others are earlier than.
LEMMA OrderedAppend ==
    ASSUME NEW e, NEW q \in Seq(Messages), NEW m \in Messages, Ordered(e, q),
           \A x \in Memory!Members(q) : x.of = m.of \/ x.of \in e[m.of]
    PROVE  Ordered(e, Append(q, m))
<1> DEFINE t == Append(q, m)
<1>1. /\ Len(t) = Len(q) + 1 /\ t[Len(q) + 1] = m /\ \A i \in 1..Len(q) : t[i] = q[i]
  BY Appended
<1> HIDE DEF t
<1>2. ASSUME NEW i \in 1..Len(t), NEW j \in 1..Len(t), i < j
      PROVE  t[i].of = t[j].of \/ t[i].of \in e[t[j].of]
  <2>1. i \in 1..Len(q) /\ t[i] = q[i] /\ q[i] \in Memory!Members(q)
    BY <1>1, <1>2 DEF Memory!Members
  <2>2. CASE j = Len(q) + 1 BY <1>1, <2>1, <2>2
  <2>3. CASE j # Len(q) + 1
    <3>1. j \in 1..Len(q) BY <1>1, <2>3
    <3> QED BY <1>1, <1>2, <2>1, <3>1 DEF Ordered
  <2> QED BY <2>2, <2>3
<1> QED BY <1>2 DEF Ordered, t

LEMMA SaidAppend ==
    ASSUME NEW e, NEW c, NEW q \in Seq(Messages), NEW m \in Messages,
           q = <<>> \/ SaidOf(e, c, q), m.of = c \/ c \in e[m.of]
    PROVE  SaidOf(e, c, Append(q, m))
<1>1. Append(q, m) # <<>> /\ Memory!Members(Append(q, m)) = Memory!Members(q) \cup {m}
  BY Appended
<1>2. q = <<>> => Memory!Members(q) = {} BY DEF Memory!Members
<1> QED BY <1>1, <1>2 DEF SaidOf

\* Only what is known of the messages' own interactions matters.
LEMMA KnownAlike ==
    ASSUME NEW e, NEW f, NEW q \in Seq(Messages), \A m \in Memory!Members(q) : f[m.of] = e[m.of]
    PROVE  /\ Ordered(e, q) => Ordered(f, q)
           /\ \A c : SaidOf(e, c, q) => SaidOf(f, c, q)
<1>1. \A i \in 1..Len(q) : f[q[i].of] = e[q[i].of] BY DEF Memory!Members
<1>2. Ordered(e, q) => Ordered(f, q) BY <1>1 DEF Ordered
<1> QED BY <1>2 DEF SaidOf

\* What a search finds is there.
LEMMA FoundThere ==
    ASSUME NEW S, NEW k, NEW q \in Memory!Found(S, k)
    PROVE  q \in Seq(S) /\ Memory!Members(q) \subseteq S
<1>1. q \in Memory!SeqOf(S, k) BY DEF Memory!Found
<1>2. PICK m \in 0..k : q \in [1..m -> S] BY <1>1 DEF Memory!SeqOf
<1>3. q \in Seq(S) BY <1>2
<1> QED BY <1>3 DEF Memory!Members

LEMMA MemoryTypesStep == MemoryTypes /\ [Memory!Next]_memory => MemoryTypes'
<1> SUFFICES ASSUME MemoryTypes, [Memory!Next]_memory PROVE MemoryTypes' OBVIOUS
<1> USE CallsAssumption DEF MemoryTypes, CallState, Memory!Calls
<1>0. \A c \in Memory!Calls : Session[c] \in Memory!Sessions BY DEF Memory!Sessions
<1>1. ASSUME NEW c \in Memory!Calls, Memory!BeginStore(c) PROVE MemoryTypes'
  <2>1. Memory!Ended(Session[c]) \in SUBSET Stores BY DEF Memory!Ended
  <2> QED BY <1>1, <2>1 DEF Memory!BeginStore
<1>2. ASSUME NEW c \in Memory!Calls, Memory!BeginRead(c) PROVE MemoryTypes' BY <1>2 DEF Memory!BeginRead
<1>3. ASSUME NEW c \in Memory!Calls, Memory!AddMessage(c) PROVE MemoryTypes'
  <2> DEFINE m == Memory!Message(c, at[c])
  <2>1. c \in Stores /\ at[c] \in {"user", "assistant"} /\ m \in Messages
    BY <1>3 DEF Memory!AddMessage, Messages, Memory!Message
  <2>2. recent[Session[c]] \in Seq(Messages) /\ history[Session[c]] \in Seq(Messages) BY <1>0
  <2> HIDE DEF m
  <2>3. Append(recent[Session[c]], m) \in Seq(Messages) /\ Append(history[Session[c]], m) \in Seq(Messages)
    BY <2>1, <2>2
  <2>4. recent' \in [Memory!Sessions -> Seq(Messages)]
    BY <1>3, <2>3 DEF Memory!AddMessage, m
  <2>5. history' \in [Memory!Sessions -> Seq(Messages)]
    BY <1>3, <2>3 DEF Memory!AddMessage, m
  <2> QED BY <1>3, <2>1, <2>4, <2>5 DEF Memory!AddMessage
<1>4. ASSUME NEW c \in Memory!Calls, Memory!StoreEpisodic(c) \/ Memory!StoreProfile(c) PROVE MemoryTypes'
  <2>1. c \in Stores /\ UNCHANGED <<recent, history, snap, earlier>>
    BY <1>4 DEF Memory!StoreEpisodic, Memory!StoreProfile
  <2>2. vector' \in [{"episodic", "profile"} -> SUBSET Stores]
    <3>1. \A m \in {"episodic", "profile"} :
             Memory!Remember(c, m) => vector' \in [{"episodic", "profile"} -> SUBSET Stores]
      BY <2>1 DEF Memory!Remember
    <3> QED BY <1>4, <3>1 DEF Memory!StoreEpisodic, Memory!StoreProfile, Memory!Refuse
  <2>3. kg' \in SUBSET Stores /\ spoilt' \in SUBSET Memory!Calls
    BY <1>4, <2>1 DEF Memory!StoreEpisodic, Memory!StoreProfile, Memory!EndStore, Memory!Refuse
  <2>4. at'[c] \in {"profile", "done"} /\ at' = [at EXCEPT ![c] = at'[c]]
    BY <1>4 DEF Memory!StoreEpisodic, Memory!StoreProfile, Memory!EndStore
  <2> QED BY <2>1, <2>2, <2>3, <2>4
<1>5. ASSUME NEW c \in Memory!Calls, Memory!FetchRecent(c) \/ Memory!FetchHistory(c) PROVE MemoryTypes'
  <2>1. c \in Readers /\ snap[c] \in Snapshots BY <1>5 DEF Memory!FetchRecent, Memory!FetchHistory
  <2>2. recent[Session[c]] \in Seq(Messages) /\ history[Session[c]] \in Seq(Messages) BY <1>0
  <2>3. /\ Memory!Latest(recent[Session[c]], Limit) \in Seq(Messages)
        /\ Memory!Latest(history[Session[c]], Limit) \in Seq(Messages)
    BY <2>2, LatestKept, LimitAssumption
  <2>4. \A q \in Seq(Messages) : [snap[c] EXCEPT !.conversation = q] \in Snapshots
    BY <2>1 DEF Snapshots
  <2>5. snap' \in [Readers -> Snapshots]
    BY <1>5, <2>3, <2>4 DEF Memory!FetchRecent, Memory!FetchHistory
  <2> QED BY <1>5, <2>1, <2>5 DEF Memory!FetchRecent, Memory!FetchHistory
<1>6. ASSUME NEW c \in Memory!Calls, Memory!SearchEpisodic(c) \/ Memory!SearchProfile(c) PROVE MemoryTypes'
  <2>1. c \in Readers /\ snap[c] \in Snapshots BY <1>6 DEF Memory!SearchEpisodic, Memory!SearchProfile
  <2>2. \A v, k \in Seq(Stores) : [snap[c] EXCEPT !.vector = v, !.kg = k] \in Snapshots
    BY <2>1 DEF Snapshots
  <2>3. \A v \in Seq(Stores) : [snap[c] EXCEPT !.vector = v] \in Snapshots BY <2>1 DEF Snapshots
  <2>4. <<>> \in Seq(Stores) /\ snap[c].vector \in Seq(Stores) BY <2>1 DEF Snapshots
  <2>5. \A v \in Seq(Stores) : Memory!EndFetch(c, v) => snap' \in [Readers -> Snapshots]
    <3> SUFFICES ASSUME NEW v \in Seq(Stores), Memory!EndFetch(c, v) PROVE snap' \in [Readers -> Snapshots]
      OBVIOUS
    <3>1. PICK asked \in Memory!Found(kg, Memory!Cardinality(kg)) :
              snap' = [snap EXCEPT ![c].vector = v, ![c].kg = asked]
      BY DEF Memory!EndFetch
    <3>2. asked \in Seq(kg) BY FoundThere
    <3>3. asked \in Seq(Stores) BY <3>2
    <3> QED BY <2>1, <2>2, <3>1, <3>3
  <2>6. snap' \in [Readers -> Snapshots]
    <3>1. CASE Memory!SearchFails(c) BY <2>4, <2>5, <3>1 DEF Memory!SearchFails
    <3>2. ASSUME NEW found \in Memory!Found(vector["episodic"], Memory!TopK["episodic"]),
                 snap' = [snap EXCEPT ![c].vector = found]
          PROVE  snap' \in [Readers -> Snapshots]
      <4>1. found \in Seq(vector["episodic"]) BY FoundThere
      <4>2. found \in Seq(Stores) BY <4>1
      <4> QED BY <2>1, <2>3, <3>2, <4>2
    <3>3. ASSUME NEW found \in Memory!Found(vector["profile"], Memory!TopK["profile"]),
                 Memory!EndFetch(c, found \o snap[c].vector)
          PROVE  snap' \in [Readers -> Snapshots]
      <4>1. found \in Seq(vector["profile"]) BY FoundThere
      <4>2. found \in Seq(Stores) BY <4>1
      <4>3. found \o snap[c].vector \in Seq(Stores) BY <2>4, <4>2
      <4> QED BY <2>5, <3>3, <4>3
    <3> QED BY <1>6, <3>1, <3>2, <3>3 DEF Memory!SearchEpisodic, Memory!SearchProfile
  <2>7. at'[c] \in {"profile", "done"} /\ at' = [at EXCEPT ![c] = at'[c]]
    BY <1>6 DEF Memory!SearchEpisodic, Memory!SearchProfile, Memory!SearchFails, Memory!EndFetch
  <2> QED BY <1>6, <2>1, <2>6, <2>7 DEF Memory!SearchEpisodic, Memory!SearchProfile, Memory!SearchFails
<1>7. ASSUME NEW c \in Memory!Calls, Memory!Cancel(c) PROVE MemoryTypes' BY <1>7 DEF Memory!Cancel
<1>8. ASSUME NEW s \in Memory!Sessions, Memory!Expire(s) PROVE MemoryTypes' BY <1>8 DEF Memory!Expire
<1>9. CASE UNCHANGED memory BY <1>9 DEF memory
<1> QED BY <1>1, <1>2, <1>3, <1>4, <1>5, <1>5, <1>6, <1>7, <1>8, <1>9 DEF Memory!Next

\* How a step moves a call: into its lock, onwards inside, or out of it.
LEMMA CallMoves ==
    ASSUME MemoryTypes, [Memory!Next]_memory
    PROVE  \/ UNCHANGED <<at, earlier>>
           \/ \E c \in Memory!Calls :
                 /\ at[c] = "new" /\ Memory!Free(Session[c])
                 /\ at' = [at EXCEPT ![c] = IF c \in Stores THEN "user" ELSE "recent"]
                 /\ IF c \in Stores THEN earlier' = [earlier EXCEPT ![c] = Memory!Ended(Session[c])]
                    ELSE UNCHANGED earlier
           \/ \E c \in Memory!Calls :
                 /\ Within(c)
                 /\ \E l \in CallState \ {"new", "user", "recent"} :
                       /\ at' = [at EXCEPT ![c] = l]
                       /\ l = "assistant" => at[c] = "user"
                       /\ l = "history" => at[c] = "recent"
                       /\ l = "episodic" => at[c] \in {"assistant", "recent", "history"}
                       /\ Learnt(c) => l \in {"done", "cancelled"}
                       /\ l \in {"profile", "done"} => at[c] \in {"episodic", "profile"}
                 /\ UNCHANGED earlier
<1> USE DEF MemoryTypes, CallState, Within, Memory!Inside, Learnt, Memory!Calls
<1>1. ASSUME NEW c \in Memory!Calls, Memory!BeginStore(c) \/ Memory!BeginRead(c)
      PROVE  /\ at[c] = "new" /\ Memory!Free(Session[c])
             /\ at' = [at EXCEPT ![c] = IF c \in Stores THEN "user" ELSE "recent"]
             /\ IF c \in Stores THEN earlier' = [earlier EXCEPT ![c] = Memory!Ended(Session[c])]
                ELSE UNCHANGED earlier
  BY <1>1, CallsAssumption DEF Memory!BeginStore, Memory!BeginRead
<1>2. ASSUME NEW c \in Memory!Calls,
             \/ Memory!AddMessage(c) \/ Memory!StoreEpisodic(c) \/ Memory!StoreProfile(c)
             \/ Memory!FetchRecent(c) \/ Memory!FetchHistory(c)
             \/ Memory!SearchEpisodic(c) \/ Memory!SearchProfile(c) \/ Memory!Cancel(c)
      PROVE  /\ Within(c)
             /\ \E l \in CallState \ {"new", "user", "recent"} :
                   /\ at' = [at EXCEPT ![c] = l]
                   /\ l = "assistant" => at[c] = "user"
                   /\ l = "history" => at[c] = "recent"
                   /\ l = "episodic" => at[c] \in {"assistant", "recent", "history"}
                   /\ Learnt(c) => l \in {"done", "cancelled"}
                   /\ l \in {"profile", "done"} => at[c] \in {"episodic", "profile"}
             /\ UNCHANGED earlier
  <2> DEFINE l == at'[c]
  <2>1. CASE Memory!AddMessage(c)
    <3>1. at' = [at EXCEPT ![c] = IF at[c] = "user" THEN "assistant" ELSE "episodic"]
      BY <2>1 DEF Memory!AddMessage
    <3>2. l = (IF at[c] = "user" THEN "assistant" ELSE "episodic") /\ at' = [at EXCEPT ![c] = l] BY <3>1
    <3> QED BY <2>1, <3>2 DEF Memory!AddMessage
  <2>2. CASE Memory!StoreEpisodic(c)
    <3>1. at[c] = "episodic" /\ l \in {"profile", "done"} /\ at' = [at EXCEPT ![c] = l] /\ UNCHANGED earlier
      BY <2>2 DEF Memory!StoreEpisodic, Memory!EndStore
    <3> QED BY <3>1
  <2>3. CASE Memory!StoreProfile(c)
    <3>1. at[c] = "profile" /\ l = "done" /\ at' = [at EXCEPT ![c] = l] /\ UNCHANGED earlier
      BY <2>3 DEF Memory!StoreProfile, Memory!EndStore
    <3> QED BY <3>1
  <2>4. CASE Memory!FetchRecent(c)
    <3>1. at[c] = "recent" /\ l \in {"history", "episodic"} /\ at' = [at EXCEPT ![c] = l] /\ UNCHANGED earlier
      BY <2>4 DEF Memory!FetchRecent
    <3> QED BY <3>1
  <2>5. CASE Memory!FetchHistory(c)
    <3>1. at[c] = "history" /\ l = "episodic" /\ at' = [at EXCEPT ![c] = l] /\ UNCHANGED earlier
      BY <2>5 DEF Memory!FetchHistory
    <3> QED BY <3>1
  <2>6. CASE Memory!SearchEpisodic(c)
    <3>1. at[c] = "episodic" /\ l \in {"profile", "done"} /\ at' = [at EXCEPT ![c] = l] /\ UNCHANGED earlier
      BY <2>6 DEF Memory!SearchEpisodic, Memory!SearchFails, Memory!EndFetch
    <3> QED BY <3>1
  <2>7. CASE Memory!SearchProfile(c)
    <3>1. at[c] = "profile" /\ l = "done" /\ at' = [at EXCEPT ![c] = l] /\ UNCHANGED earlier
      BY <2>7 DEF Memory!SearchProfile, Memory!SearchFails, Memory!EndFetch
    <3> QED BY <3>1
  <2>8. CASE Memory!Cancel(c)
    <3>1. l = "cancelled" /\ at' = [at EXCEPT ![c] = l] /\ UNCHANGED earlier /\ Within(c)
      BY <2>8 DEF Memory!Cancel
    <3> QED BY <3>1
  <2> QED BY <1>2, <2>1, <2>2, <2>3, <2>4, <2>5, <2>6, <2>7, <2>8
<1>3. ASSUME NEW s \in Memory!Sessions, Memory!Expire(s) PROVE UNCHANGED <<at, earlier>>
  BY <1>3 DEF Memory!Expire
<1>4. CASE UNCHANGED memory BY <1>4 DEF memory
<1> QED BY <1>1, <1>2, <1>3, <1>4 DEF Memory!Next

\* Calls get on, and what is known at a store's begin stays.
LEMMA Onwards ==
    ASSUME MemoryTypes, [Memory!Next]_memory
    PROVE  /\ \A c \in Memory!Calls : at[c] # "new" => at'[c] # "new"
           /\ \A c \in Memory!Calls : CallOver(c) => at'[c] = at[c]
           /\ \A c \in Memory!Calls : Learnt(c) => Learnt(c)'
           /\ \A c \in Stores : at[c] # "new" => earlier'[c] = earlier[c]
           /\ spoilt \subseteq spoilt'
<1> USE DEF MemoryTypes, Within, Memory!Inside, CallOver, Learnt, Memory!Calls
<1>1. /\ \A c \in Memory!Calls : at[c] # "new" => at'[c] # "new"
      /\ \A c \in Memory!Calls : CallOver(c) => at'[c] = at[c]
      /\ \A c \in Memory!Calls : Learnt(c) => Learnt(c)'
      /\ \A c \in Stores : at[c] # "new" => earlier'[c] = earlier[c]
  BY CallMoves DEF CallState
<1>2. spoilt \subseteq spoilt'
  BY DEF memory, Memory!Next, Memory!BeginStore, Memory!BeginRead, Memory!AddMessage, Memory!StoreEpisodic,
     Memory!StoreProfile, Memory!Refuse, Memory!FetchRecent, Memory!FetchHistory, Memory!SearchEpisodic,
     Memory!SearchProfile, Memory!SearchFails, Memory!Cancel, Memory!Expire
<1> QED BY <1>1, <1>2

LEMMA LockStep ==
    MemoryTypes /\ OneWithin /\ KnowsEarlier /\ [Memory!Next]_memory => OneWithin' /\ KnowsEarlier'
<1> SUFFICES ASSUME MemoryTypes, OneWithin, KnowsEarlier, [Memory!Next]_memory
             PROVE  OneWithin' /\ KnowsEarlier'
  OBVIOUS
<1>0. Stores \subseteq Memory!Calls BY DEF Memory!Calls
<1> USE DEF MemoryTypes, Within, Memory!Inside, CallOver
<1>1. CASE UNCHANGED <<at, earlier>> BY <1>1 DEF OneWithin, KnowsEarlier
<1>2. ASSUME NEW c \in Memory!Calls, at[c] = "new", Memory!Free(Session[c]),
             at' = [at EXCEPT ![c] = IF c \in Stores THEN "user" ELSE "recent"],
             IF c \in Stores THEN earlier' = [earlier EXCEPT ![c] = Memory!Ended(Session[c])]
             ELSE UNCHANGED earlier
      PROVE  OneWithin' /\ KnowsEarlier'
  <2>1. OneWithin' BY <1>2 DEF OneWithin, Memory!Free
  <2>2. KnowsEarlier' BY <1>0, <1>2 DEF KnowsEarlier, Memory!Ended
  <2> QED BY <2>1, <2>2
<1>3. ASSUME NEW c \in Memory!Calls, Within(c), NEW l \in CallState, at' = [at EXCEPT ![c] = l], UNCHANGED earlier
      PROVE  OneWithin' /\ KnowsEarlier'
  <2>1. OneWithin' BY <1>3 DEF OneWithin
  <2>2. KnowsEarlier' BY <1>0, <1>3 DEF KnowsEarlier, OneWithin
  <2> QED BY <2>1, <2>2
<1> QED BY <1>1, <1>2, <1>3, CallMoves

\* What a step does to one session's messages: nothing, or a store inside says one more.
Talk(s, q, r) ==
    \/ r = q
    \/ \E d \in Stores : /\ Session[d] = s /\ at[d] \in {"user", "assistant"} /\ at'[d] # at[d]
                         /\ r = Append(q, Memory!Message(d, at[d]))

LEMMA Talks ==
    ASSUME MemoryTypes, [Memory!Next]_memory, NEW s \in Memory!Sessions
    PROVE  /\ recent'[s] = <<>> \/ Talk(s, recent[s], recent'[s])
           /\ Talk(s, history[s], history'[s])
<1> USE DEF MemoryTypes, Talk
<1>1. ASSUME NEW c \in Memory!Calls, Memory!AddMessage(c)
      PROVE  Talk(s, recent[s], recent'[s]) /\ Talk(s, history[s], history'[s])
  <2> DEFINE m == Memory!Message(c, at[c])
  <2>1. c \in Stores /\ at[c] \in {"user", "assistant"}
    BY <1>1, CallsAssumption DEF Memory!AddMessage, Memory!Calls
  <2>2. at'[c] # at[c] BY <1>1, <2>1 DEF Memory!AddMessage
  <2>3. recent' \in {recent, [recent EXCEPT ![Session[c]] = Append(@, m)]}
    BY <1>1 DEF Memory!AddMessage
  <2>4. history' \in {history, [history EXCEPT ![Session[c]] = Append(@, m)]}
    BY <1>1 DEF Memory!AddMessage
  <2> HIDE DEF m
  <2>5. recent'[s] = recent[s] \/ (Session[c] = s /\ recent'[s] = Append(recent[s], m)) BY <2>3
  <2>6. history'[s] = history[s] \/ (Session[c] = s /\ history'[s] = Append(history[s], m)) BY <2>4
  <2> QED BY <2>1, <2>2, <2>5, <2>6 DEF m
<1>2. ASSUME NEW c \in Memory!Calls,
             \/ Memory!BeginStore(c) \/ Memory!BeginRead(c) \/ Memory!StoreEpisodic(c) \/ Memory!StoreProfile(c)
             \/ Memory!FetchRecent(c) \/ Memory!FetchHistory(c)
             \/ Memory!SearchEpisodic(c) \/ Memory!SearchProfile(c) \/ Memory!Cancel(c)
      PROVE  UNCHANGED <<recent, history>>
  BY <1>2 DEF Memory!BeginStore, Memory!BeginRead, Memory!StoreEpisodic, Memory!StoreProfile, Memory!FetchRecent,
     Memory!FetchHistory, Memory!SearchEpisodic, Memory!SearchProfile, Memory!Cancel
<1>3. ASSUME NEW z \in Memory!Sessions, Memory!Expire(z)
      PROVE  recent'[s] \in {recent[s], <<>>} /\ UNCHANGED history
  BY <1>3 DEF Memory!Expire
<1>4. CASE UNCHANGED memory BY <1>4 DEF memory
<1> QED BY <1>1, <1>2, <1>3, <1>4 DEF Memory!Next

\* What a step does to one reader's snapshot.
LEMMA Reads ==
    ASSUME MemoryTypes, [Memory!Next]_memory, NEW r \in Readers
    PROVE  /\ \/ snap'[r].conversation = snap[r].conversation
              \/ \E q \in {recent[Session[r]], history[Session[r]]} :
                    snap'[r].conversation = Memory!Latest(q, Limit)
           /\ Memory!Members(snap'[r].vector) \subseteq
                 Memory!Members(snap[r].vector) \cup vector["episodic"] \cup vector["profile"]
           /\ Memory!Members(snap'[r].kg) \subseteq Memory!Members(snap[r].kg) \cup kg
<1> USE DEF MemoryTypes
<1> DEFINE Goal ==
           /\ \/ snap'[r].conversation = snap[r].conversation
              \/ \E q \in {recent[Session[r]], history[Session[r]]} :
                    snap'[r].conversation = Memory!Latest(q, Limit)
           /\ Memory!Members(snap'[r].vector) \subseteq
                 Memory!Members(snap[r].vector) \cup vector["episodic"] \cup vector["profile"]
           /\ Memory!Members(snap'[r].kg) \subseteq Memory!Members(snap[r].kg) \cup kg
<1>1. snap[r] \in Snapshots OBVIOUS
<1>2. ASSUME NEW c \in Memory!Calls, Memory!FetchRecent(c) \/ Memory!FetchHistory(c) PROVE Goal
  <2>1. ASSUME c = r, NEW q \in {recent[Session[r]], history[Session[r]]},
               snap' = [snap EXCEPT ![r].conversation = Memory!Latest(q, Limit)]
        PROVE  Goal
    <3>1. snap'[r] = [snap[r] EXCEPT !.conversation = Memory!Latest(q, Limit)] BY <2>1
    <3>2. /\ snap'[r].conversation = Memory!Latest(q, Limit)
          /\ snap'[r].vector = snap[r].vector /\ snap'[r].kg = snap[r].kg
      BY <1>1, <3>1 DEF Snapshots
    <3> QED BY <2>1, <3>2
  <2>2. CASE c # r BY <1>2, <2>2 DEF Memory!FetchRecent, Memory!FetchHistory
  <2>3. CASE UNCHANGED snap BY <2>3
  <2> QED BY <1>2, <2>1, <2>2, <2>3 DEF Memory!FetchRecent, Memory!FetchHistory
<1>3. ASSUME NEW c \in Memory!Calls, Memory!SearchEpisodic(c) \/ Memory!SearchProfile(c) PROVE Goal
  <2>1. CASE c # r
    <3>1. \A v : Memory!EndFetch(c, v) => snap'[r] = snap[r] BY <2>1 DEF Memory!EndFetch
    <3>2. snap'[r] = snap[r]
      BY <1>3, <2>1, <3>1 DEF Memory!SearchEpisodic, Memory!SearchProfile, Memory!SearchFails
    <3> QED BY <3>2
  <2>2. ASSUME c = r, NEW v, Memory!EndFetch(r, v)
        PROVE  /\ snap'[r].conversation = snap[r].conversation /\ snap'[r].vector = v
               /\ Memory!Members(snap'[r].kg) \subseteq kg
    <3>1. PICK asked \in Memory!Found(kg, Memory!Cardinality(kg)) :
              snap' = [snap EXCEPT ![r].vector = v, ![r].kg = asked]
      BY <2>2 DEF Memory!EndFetch
    <3>2. Memory!Members(asked) \subseteq kg BY FoundThere
    <3>3. snap'[r] = [snap[r] EXCEPT !.vector = v, !.kg = asked] BY <3>1
    <3>4. snap'[r].conversation = snap[r].conversation /\ snap'[r].vector = v /\ snap'[r].kg = asked
      BY <1>1, <3>3 DEF Snapshots
    <3> QED BY <3>2, <3>4
  <2>3. CASE c = r /\ Memory!SearchFails(r)
    <3>1. Memory!Members(<<>>) = {} BY DEF Memory!Members
    <3> QED BY <2>2, <2>3, <3>1 DEF Memory!SearchFails
  <2>4. ASSUME c = r, NEW found \in Memory!Found(vector["episodic"], Memory!TopK["episodic"]),
               snap' = [snap EXCEPT ![r].vector = found]
        PROVE  Goal
    <3>1. Memory!Members(found) \subseteq vector["episodic"] BY FoundThere
    <3>2. snap'[r].conversation = snap[r].conversation /\ snap'[r].vector = found /\ snap'[r].kg = snap[r].kg
      BY <1>1, <2>4 DEF Snapshots
    <3> QED BY <3>1, <3>2
  <2>5. ASSUME c = r, NEW found \in Memory!Found(vector["profile"], Memory!TopK["profile"]),
               Memory!EndFetch(r, found \o snap[r].vector)
        PROVE  Goal
    <3>1. found \in Seq(vector["profile"]) /\ Memory!Members(found) \subseteq vector["profile"] BY FoundThere
    <3>2. snap[r].vector \in Seq(Stores) BY <1>1 DEF Snapshots
    <3> DEFINE both == found \o snap[r].vector
    <3>3. \A i \in 1..Len(both) : \/ i \in 1..Len(found) /\ both[i] = found[i]
                                  \/ /\ i - Len(found) \in 1..Len(snap[r].vector)
                                     /\ both[i] = snap[r].vector[i - Len(found)]
      BY <3>1, <3>2
    <3> HIDE DEF both
    <3>4. Memory!Members(both) \subseteq Memory!Members(found) \cup Memory!Members(snap[r].vector)
      BY <3>3 DEF Memory!Members
    <3>5. snap'[r].conversation = snap[r].conversation /\ snap'[r].vector = both
          /\ Memory!Members(snap'[r].kg) \subseteq kg
      BY <2>2, <2>5 DEF both
    <3> QED BY <3>1, <3>4, <3>5
  <2> QED BY <1>3, <2>1, <2>3, <2>4, <2>5 DEF Memory!SearchEpisodic, Memory!SearchProfile
<1>4. ASSUME NEW c \in Memory!Calls,
             \/ Memory!BeginStore(c) \/ Memory!BeginRead(c) \/ Memory!AddMessage(c)
             \/ Memory!StoreEpisodic(c) \/ Memory!StoreProfile(c) \/ Memory!Cancel(c)
      PROVE  UNCHANGED snap
  BY <1>4 DEF Memory!BeginStore, Memory!BeginRead, Memory!AddMessage, Memory!StoreEpisodic, Memory!StoreProfile,
     Memory!Cancel
<1>5. ASSUME NEW s \in Memory!Sessions, Memory!Expire(s) PROVE UNCHANGED snap BY <1>5 DEF Memory!Expire
<1>6. CASE UNCHANGED memory BY <1>6 DEF memory
<1> QED BY <1>2, <1>3, <1>4, <1>5, <1>6 DEF Memory!Next

LEMMA OfStores == \A q \in Seq(Messages) : \A m \in Memory!Members(q) : m.of \in Stores
<1> SUFFICES ASSUME NEW q \in Seq(Messages), NEW m \in Memory!Members(q) PROVE m.of \in Stores OBVIOUS
<1>1. PICK i \in 1..Len(q) : m = q[i] BY DEF Memory!Members
<1>2. m \in Messages BY <1>1
<1> QED BY <1>2 DEF Messages

LEMMA BegunStep == MemoryTypes /\ Begun /\ [Memory!Next]_memory => Begun'
<1> SUFFICES ASSUME MemoryTypes, Begun, [Memory!Next]_memory PROVE Begun' OBVIOUS
<1>0. /\ \A s \in Memory!Sessions : recent[s] \in Seq(Messages) /\ history[s] \in Seq(Messages)
      /\ \A r \in Readers : Session[r] \in Memory!Sessions
      /\ Stores \subseteq Memory!Calls
  BY DEF MemoryTypes, Memory!Sessions, Memory!Calls
<1>1. \A c \in Memory!Calls : at[c] # "new" => at'[c] # "new" BY Onwards
<1>2. MemoryTypes' BY MemoryTypesStep
<1>3. \A q \in Seq(Messages) : \A m \in Memory!Members(q) : m.of \in Stores BY OfStores
<1>4. ASSUME NEW s \in Memory!Sessions, NEW q \in Seq(Messages), NEW z, Talk(s, q, z),
             \A m \in Memory!Members(q) : Session[m.of] = s /\ at[m.of] # "new"
      PROVE  \A m \in Memory!Members(z) : Session[m.of] = s /\ at'[m.of] # "new"
  <2>1. CASE z = q BY <1>0, <1>1, <1>3, <1>4, <2>1
  <2>2. ASSUME NEW d \in Stores, Session[d] = s, at[d] \in {"user", "assistant"},
               z = Append(q, Memory!Message(d, at[d]))
        PROVE  \A m \in Memory!Members(z) : Session[m.of] = s /\ at'[m.of] # "new"
    <3> DEFINE n == Memory!Message(d, at[d])
    <3>1. n \in Messages /\ n.of = d BY <2>2 DEF Messages, Memory!Message
    <3> HIDE DEF n
    <3>2. Memory!Members(z) = Memory!Members(q) \cup {n} BY <2>2, <3>1, Appended DEF n
    <3>3. at'[d] # "new" BY <1>0, <1>1, <2>2
    <3> QED BY <1>0, <1>1, <1>3, <1>4, <2>2, <3>1, <3>2, <3>3
  <2> QED BY <1>4, <2>1, <2>2 DEF Talk
<1>5. ASSUME NEW s \in Memory!Sessions
      PROVE  \A m \in Memory!Members(recent'[s]) \cup Memory!Members(history'[s]) :
                Session[m.of] = s /\ at'[m.of] # "new"
  <2>1. Memory!Members(<<>>) = {} BY DEF Memory!Members
  <2>2. /\ \A m \in Memory!Members(recent[s]) : Session[m.of] = s /\ at[m.of] # "new"
        /\ \A m \in Memory!Members(history[s]) : Session[m.of] = s /\ at[m.of] # "new"
    BY DEF Begun
  <2>3. \A m \in Memory!Members(history'[s]) : Session[m.of] = s /\ at'[m.of] # "new"
    BY <1>0, <1>4, <2>2, Talks
  <2>4. \A m \in Memory!Members(recent'[s]) : Session[m.of] = s /\ at'[m.of] # "new"
    <3>1. CASE recent'[s] = <<>> BY <2>1, <3>1
    <3>2. CASE Talk(s, recent[s], recent'[s]) BY <1>0, <1>4, <2>2, <3>2
    <3> QED BY <3>1, <3>2, Talks
  <2> QED BY <2>3, <2>4
<1>6. ASSUME NEW r \in Readers, NEW m \in Memory!Members(snap'[r].conversation) PROVE at'[m.of] # "new"
  <2>1. snap[r].conversation \in Seq(Messages) BY DEF MemoryTypes, Snapshots
  <2>2. CASE snap'[r].conversation = snap[r].conversation BY <1>0, <1>1, <1>3, <1>6, <2>1, <2>2 DEF Begun
  <2>3. ASSUME NEW q \in {recent[Session[r]], history[Session[r]]},
               snap'[r].conversation = Memory!Latest(q, Limit)
        PROVE  at'[m.of] # "new"
    <3>1. q \in Seq(Messages) BY <1>0
    <3>2. m \in Memory!Members(q) BY <1>6, <2>3, <3>1, LatestKept, LimitAssumption
    <3>3. m.of \in Stores /\ at[m.of] # "new" BY <1>0, <1>3, <3>1, <3>2 DEF Begun
    <3> QED BY <1>0, <1>1, <3>3
  <2> QED BY <2>2, <2>3, Reads
<1> QED BY <1>5, <1>6 DEF Begun

\* Whatever a store inside finds begun in its session is earlier.
LEMMA AllEarlier ==
    ASSUME MemoryTypes, OneWithin, KnowsEarlier,
           NEW d \in Stores, Within(d), NEW c \in Stores, at[c] # "new", Session[c] = Session[d]
    PROVE  c = d \/ c \in earlier[d]
<1>1. c \in Memory!Calls /\ d \in Memory!Calls BY DEF Memory!Calls
<1>2. c # d => ~Within(c) BY <1>1 DEF OneWithin
<1>3. ~Within(c) => CallOver(c) BY <1>1 DEF MemoryTypes, CallState, Within, CallOver, Memory!Inside
<1> QED BY <1>2, <1>3 DEF KnowsEarlier

\* Of messages that have begun, a step forgets nothing.
LEMMA StillKnown ==
    ASSUME MemoryTypes, [Memory!Next]_memory,
           NEW q \in Seq(Messages), \A m \in Memory!Members(q) : at[m.of] # "new"
    PROVE  /\ Ordered(earlier, q) => Ordered(earlier', q)
           /\ \A c : SaidOf(earlier, c, q) => SaidOf(earlier', c, q)
<1>1. \A m \in Memory!Members(q) : m.of \in Stores BY OfStores
<1>2. \A m \in Memory!Members(q) : earlier'[m.of] = earlier[m.of] BY <1>1, Onwards
<1> QED BY <1>2, KnownAlike

LEMMA InOrderStep ==
    MemoryTypes /\ OneWithin /\ KnowsEarlier /\ Begun /\ InOrder /\ [Memory!Next]_memory => InOrder'
<1> SUFFICES ASSUME MemoryTypes, OneWithin, KnowsEarlier, Begun, InOrder, [Memory!Next]_memory,
                    NEW s \in Memory!Sessions
             PROVE  Ordered(earlier', recent'[s]) /\ Ordered(earlier', history'[s])
  BY DEF InOrder
<1>1. ASSUME NEW q \in Seq(Messages), NEW z, Talk(s, q, z), Ordered(earlier, q),
             \A m \in Memory!Members(q) : Session[m.of] = s /\ at[m.of] # "new"
      PROVE  Ordered(earlier', z)
  <2>1. CASE z = q BY <1>1, <2>1, StillKnown
  <2>2. ASSUME NEW d \in Stores, Session[d] = s, at[d] \in {"user", "assistant"},
               z = Append(q, Memory!Message(d, at[d]))
        PROVE  Ordered(earlier', z)
    <3> DEFINE n == Memory!Message(d, at[d])
    <3>1. n \in Messages /\ n.of = d BY <2>2 DEF Messages, Memory!Message
    <3>2. Within(d) BY <2>2 DEF Within, Memory!Inside
    <3>3. \A m \in Memory!Members(q) : m.of \in Stores BY OfStores
    <3> HIDE DEF n
    <3>4. \A m \in Memory!Members(q) : m.of = n.of \/ m.of \in earlier[n.of]
      BY <1>1, <2>2, <3>1, <3>2, <3>3, AllEarlier
    <3>5. z = Append(q, n) BY <2>2 DEF n
    <3>6. Ordered(earlier, z) BY <1>1, <3>1, <3>4, <3>5, OrderedAppend
    <3>7. z \in Seq(Messages) /\ Memory!Members(z) = Memory!Members(q) \cup {n} BY <3>1, <3>5, Appended
    <3>8. \A m \in Memory!Members(z) : at[m.of] # "new" BY <1>1, <2>2, <3>1, <3>7
    <3> QED BY <3>6, <3>7, <3>8, StillKnown
  <2> QED BY <1>1, <2>1, <2>2 DEF Talk
<1>2. /\ recent[s] \in Seq(Messages) /\ history[s] \in Seq(Messages)
      /\ Ordered(earlier, recent[s]) /\ Ordered(earlier, history[s])
      /\ \A m \in Memory!Members(recent[s]) : Session[m.of] = s /\ at[m.of] # "new"
      /\ \A m \in Memory!Members(history[s]) : Session[m.of] = s /\ at[m.of] # "new"
  BY DEF MemoryTypes, InOrder, Begun
<1>3. Ordered(earlier', <<>>) BY DEF Ordered
<1>4. Ordered(earlier', history'[s]) BY <1>1, <1>2, Talks
<1>5. Ordered(earlier', recent'[s])
  <2>1. CASE recent'[s] = <<>> BY <1>3, <2>1
  <2>2. CASE Talk(s, recent[s], recent'[s]) BY <1>1, <1>2, <2>2
  <2> QED BY <2>1, <2>2, Talks
<1> QED BY <1>4, <1>5

LEMMA LearntStep == MemoryTypes /\ AllLearnt /\ [Memory!Next]_memory => AllLearnt'
<1> SUFFICES ASSUME MemoryTypes, AllLearnt, [Memory!Next]_memory PROVE AllLearnt' OBVIOUS
<1>0. Stores \subseteq Memory!Calls /\ \A c \in Stores : Learnt(c) => Learnt(c)' BY Onwards DEF Memory!Calls
<1>1. \A c \in vector'["episodic"] \cup vector'["profile"] \cup kg' :
         c \in vector["episodic"] \cup vector["profile"] \cup kg \/ Learnt(c)'
  <2>1. ASSUME NEW c \in Memory!Calls, Memory!StoreEpisodic(c) \/ Memory!StoreProfile(c)
        PROVE  /\ Learnt(c)'
               /\ vector'["episodic"] \subseteq vector["episodic"] \cup {c}
               /\ vector'["profile"] \subseteq vector["profile"] \cup {c}
               /\ kg' \subseteq kg \cup {c}
    BY <2>1 DEF MemoryTypes, Learnt, Memory!StoreEpisodic, Memory!StoreProfile, Memory!EndStore, Memory!Refuse,
       Memory!Remember
  <2>2. ASSUME NEW c \in Memory!Calls,
               \/ Memory!BeginStore(c) \/ Memory!BeginRead(c) \/ Memory!AddMessage(c)
               \/ Memory!FetchRecent(c) \/ Memory!FetchHistory(c)
               \/ Memory!SearchEpisodic(c) \/ Memory!SearchProfile(c) \/ Memory!Cancel(c)
        PROVE  UNCHANGED <<vector, kg>>
    BY <2>2 DEF Memory!BeginStore, Memory!BeginRead, Memory!AddMessage, Memory!FetchRecent, Memory!FetchHistory,
       Memory!SearchEpisodic, Memory!SearchProfile, Memory!Cancel
  <2>3. ASSUME NEW s \in Memory!Sessions, Memory!Expire(s) PROVE UNCHANGED <<vector, kg>>
    BY <2>3 DEF Memory!Expire
  <2>4. CASE UNCHANGED memory BY <2>4 DEF memory
  <2> QED BY <2>1, <2>2, <2>3, <2>4 DEF Memory!Next
<1>2. vector["episodic"] \cup vector["profile"] \cup kg \subseteq Stores BY DEF MemoryTypes
<1>3. \A c \in vector["episodic"] \cup vector["profile"] \cup kg : Learnt(c)' BY <1>0, <1>2 DEF AllLearnt
<1>4. ASSUME NEW r \in Readers, NEW c \in Memory!Members(snap'[r].vector) \cup Memory!Members(snap'[r].kg)
      PROVE  Learnt(c)'
  <2>1. snap[r].vector \in Seq(Stores) /\ snap[r].kg \in Seq(Stores) BY DEF MemoryTypes, Snapshots
  <2>2. Memory!Members(snap[r].vector) \cup Memory!Members(snap[r].kg) \subseteq Stores
    BY <2>1 DEF Memory!Members
  <2> QED BY <1>0, <1>3, <1>4, <2>2, Reads DEF AllLearnt
<1> QED BY <1>1, <1>3, <1>4 DEF AllLearnt

\* A reader has its conversation from its first fetch on, and its snapshot from its end.
LEMMA ConversationStays ==
    ASSUME MemoryTypes, [Memory!Next]_memory, NEW r \in Readers, at[r] \in {"episodic", "profile"}
    PROVE  snap'[r].conversation = snap[r].conversation
<1>1. snap \in [Readers -> Snapshots] /\ snap[r] \in Snapshots BY DEF MemoryTypes
<1>2. ASSUME NEW c \in Memory!Calls, Memory!FetchRecent(c) \/ Memory!FetchHistory(c)
      PROVE  snap'[r] = snap[r]
  <2>1. c # r BY <1>2 DEF Memory!FetchRecent, Memory!FetchHistory
  <2> QED BY <1>1, <1>2, <2>1 DEF Memory!FetchRecent, Memory!FetchHistory
<1>3. ASSUME NEW c \in Memory!Calls, Memory!SearchEpisodic(c) \/ Memory!SearchProfile(c)
      PROVE  snap'[r].conversation = snap[r].conversation
  <2>1. ASSUME NEW d, NEW v, NEW k, snap' = [snap EXCEPT ![d].vector = v, ![d].kg = k]
        PROVE  snap'[r].conversation = snap[r].conversation
    <3>1. snap'[r] = snap[r] \/ snap'[r] = [snap[r] EXCEPT !.vector = v, !.kg = k] BY <1>1, <2>1
    <3> QED BY <1>1, <3>1 DEF Snapshots
  <2>2. ASSUME NEW d, NEW v, snap' = [snap EXCEPT ![d].vector = v]
        PROVE  snap'[r].conversation = snap[r].conversation
    <3>1. snap'[r] = snap[r] \/ snap'[r] = [snap[r] EXCEPT !.vector = v] BY <1>1, <2>2
    <3> QED BY <1>1, <3>1 DEF Snapshots
  <2>3. ASSUME NEW v, Memory!EndFetch(c, v) PROVE snap'[r].conversation = snap[r].conversation
    <3>1. PICK k \in Memory!Found(kg, Memory!Cardinality(kg)) :
              snap' = [snap EXCEPT ![c].vector = v, ![c].kg = k]
      BY <2>3 DEF Memory!EndFetch
    <3> QED BY <2>1, <3>1
  <2> QED BY <1>3, <2>2, <2>3 DEF Memory!SearchEpisodic, Memory!SearchProfile, Memory!SearchFails
<1>4. ASSUME NEW c \in Memory!Calls,
             \/ Memory!BeginStore(c) \/ Memory!BeginRead(c) \/ Memory!AddMessage(c)
             \/ Memory!StoreEpisodic(c) \/ Memory!StoreProfile(c) \/ Memory!Cancel(c)
      PROVE  UNCHANGED snap
  BY <1>4 DEF Memory!BeginStore, Memory!BeginRead, Memory!AddMessage, Memory!StoreEpisodic, Memory!StoreProfile,
     Memory!Cancel
<1>5. ASSUME NEW s \in Memory!Sessions, Memory!Expire(s) PROVE UNCHANGED snap BY <1>5 DEF Memory!Expire
<1>6. CASE UNCHANGED memory BY <1>6 DEF memory
<1> QED BY <1>2, <1>3, <1>4, <1>5, <1>6 DEF Memory!Next

LEMMA SnapshotStays ==
    ASSUME MemoryTypes, [Memory!Next]_memory, NEW r \in Readers, at[r] = "done"
    PROVE  snap'[r] = snap[r]
<1>1. snap \in [Readers -> Snapshots] BY DEF MemoryTypes
<1>2. ASSUME NEW c \in Memory!Calls,
             \/ Memory!FetchRecent(c) \/ Memory!FetchHistory(c)
             \/ Memory!SearchEpisodic(c) \/ Memory!SearchProfile(c)
      PROVE  snap'[r] = snap[r]
  <2>1. c # r
    BY <1>2 DEF Memory!FetchRecent, Memory!FetchHistory, Memory!SearchEpisodic, Memory!SearchProfile
  <2>2. \A v : Memory!EndFetch(c, v) => snap'[r] = snap[r] BY <1>1, <2>1 DEF Memory!EndFetch
  <2> QED BY <1>1, <1>2, <2>1, <2>2 DEF Memory!FetchRecent, Memory!FetchHistory, Memory!SearchEpisodic,
          Memory!SearchProfile, Memory!SearchFails
<1>3. ASSUME NEW c \in Memory!Calls,
             \/ Memory!BeginStore(c) \/ Memory!BeginRead(c) \/ Memory!AddMessage(c)
             \/ Memory!StoreEpisodic(c) \/ Memory!StoreProfile(c) \/ Memory!Cancel(c)
      PROVE  UNCHANGED snap
  BY <1>3 DEF Memory!BeginStore, Memory!BeginRead, Memory!AddMessage, Memory!StoreEpisodic, Memory!StoreProfile,
     Memory!Cancel
<1>4. ASSUME NEW s \in Memory!Sessions, Memory!Expire(s) PROVE UNCHANGED snap BY <1>4 DEF Memory!Expire
<1>5. CASE UNCHANGED memory BY <1>5 DEF memory
<1> QED BY <1>2, <1>3, <1>4, <1>5 DEF Memory!Next

\* What comes before the search of vector memory is a fetch of the conversation.
LEMMA FetchesFirst ==
    ASSUME MemoryTypes, [Memory!Next]_memory, NEW r \in Readers,
           at[r] \notin {"episodic", "profile"}, at'[r] \in {"episodic", "profile"}
    PROVE  Memory!FetchRecent(r) \/ Memory!FetchHistory(r)
<1>1. r \in Memory!Calls /\ r \notin Stores /\ at \in [Memory!Calls -> CallState]
      /\ at[r] \notin {"user", "assistant"}
  BY CallsAssumption DEF MemoryTypes, Memory!Calls
<1>2. ASSUME NEW c \in Memory!Calls,
             \/ Memory!BeginStore(c) \/ Memory!BeginRead(c) \/ Memory!AddMessage(c) \/ Memory!StoreEpisodic(c)
             \/ Memory!StoreProfile(c) \/ Memory!SearchEpisodic(c) \/ Memory!SearchProfile(c) \/ Memory!Cancel(c)
      PROVE  FALSE
  <2>1. \E l : at' = [at EXCEPT ![c] = l]
    BY <1>2 DEF Memory!BeginStore, Memory!BeginRead, Memory!AddMessage, Memory!StoreEpisodic, Memory!StoreProfile,
       Memory!EndStore, Memory!SearchEpisodic, Memory!SearchProfile, Memory!SearchFails, Memory!EndFetch,
       Memory!Cancel
  <2>2. c = r BY <1>1, <2>1
  <2> QED BY <1>1, <1>2, <2>2 DEF Memory!BeginStore, Memory!BeginRead, Memory!AddMessage, Memory!StoreEpisodic,
          Memory!StoreProfile, Memory!SearchEpisodic, Memory!SearchProfile, Memory!Cancel
<1>3. ASSUME NEW c \in Memory!Calls, Memory!FetchRecent(c) \/ Memory!FetchHistory(c)
      PROVE  Memory!FetchRecent(r) \/ Memory!FetchHistory(r)
  <2>1. at' = [at EXCEPT ![c] = "history"] \/ at' = [at EXCEPT ![c] = "episodic"]
    BY <1>3 DEF Memory!FetchRecent, Memory!FetchHistory
  <2>2. c = r BY <1>1, <2>1
  <2> QED BY <1>3, <2>2
<1>4. ASSUME NEW s \in Memory!Sessions, Memory!Expire(s) PROVE FALSE BY <1>4 DEF Memory!Expire
<1>5. CASE UNCHANGED memory BY <1>5 DEF memory
<1> QED BY <1>2, <1>3, <1>4, <1>5 DEF Memory!Next

\* A store that the step does not move.
LEMMA StoredWaits ==
    ASSUME MemoryInv, NEW c \in Stores, Stored(c), [Memory!Next]_memory, at'[c] = at[c]
    PROVE  Stored(c)'
<1> DEFINE s == Session[c]
<1>1. /\ s \in Memory!Sessions /\ c \in Memory!Calls
      /\ recent[s] \in Seq(Messages) /\ history[s] \in Seq(Messages)
  BY DEF MemoryInv, MemoryTypes, Memory!Sessions, Memory!Calls
<1>2. \A m \in Memory!Members(recent[s]) : at[m.of] # "new" BY <1>1 DEF MemoryInv, Begun
<1>3. Memory!Members(history[s]) \subseteq Memory!Members(history'[s])
  <2>1. Talk(s, history[s], history'[s]) BY <1>1, Talks DEF MemoryInv
  <2>2. ASSUME NEW d \in Stores, at[d] \in {"user", "assistant"},
               history'[s] = Append(history[s], Memory!Message(d, at[d]))
        PROVE  Memory!Members(history[s]) \subseteq Memory!Members(history'[s])
    <3>1. Memory!Message(d, at[d]) \in Messages BY <2>2 DEF Messages, Memory!Message
    <3> QED BY <1>1, <2>2, <3>1, Appended
  <2> QED BY <2>1, <2>2 DEF Talk
<1>4. CASE recent'[s] = recent[s]
  <2>1. SaidOf(earlier, c, recent[s]) => SaidOf(earlier', c, recent'[s])
    BY <1>1, <1>2, <1>4, StillKnown DEF MemoryInv
  <2> QED BY <1>3, <1>4, <2>1 DEF Stored
<1>5. CASE recent'[s] = <<>> BY <1>3, <1>5 DEF Stored
<1>6. ASSUME NEW d \in Stores, Session[d] = s, at[d] \in {"user", "assistant"}, at'[d] # at[d],
             recent'[s] = Append(recent[s], Memory!Message(d, at[d]))
      PROVE  Stored(c)'
  <2> DEFINE m == Memory!Message(d, at[d])
  <2>1. m \in Messages /\ m.of = d BY <1>6 DEF Messages, Memory!Message
  <2> HIDE DEF m
  <2>2. Within(d) /\ c # d /\ d \in Memory!Calls BY <1>6 DEF Within, Memory!Inside, Memory!Calls
  <2>3. ~Within(c) BY <1>1, <1>6, <2>2 DEF MemoryInv, OneWithin
  <2>4. CASE at[c] = "new" BY <2>4 DEF Stored
  <2>5. CASE at[c] = "done"
    <3>1. c \in earlier[d] BY <1>6, <2>2, <2>5, AllEarlier DEF MemoryInv
    <3>2. recent'[s] = Append(recent[s], m) BY <1>6 DEF m
    <3>3. SaidOf(earlier, c, recent'[s]) BY <1>1, <2>1, <2>5, <3>1, <3>2, SaidAppend DEF Stored
    <3>4. recent'[s] \in Seq(Messages) /\ Memory!Members(recent'[s]) = Memory!Members(recent[s]) \cup {m}
      BY <1>1, <2>1, <3>2, Appended
    <3>5. \A x \in Memory!Members(recent'[s]) : at[x.of] # "new" BY <1>2, <1>6, <2>1, <3>4
    <3>6. SaidOf(earlier', c, recent'[s]) BY <3>3, <3>4, <3>5, StillKnown DEF MemoryInv
    <3> QED BY <1>3, <2>5, <3>6 DEF Stored
  <2> QED BY <1>1, <2>3, <2>4, <2>5 DEF Stored, Within, Memory!Inside, MemoryInv, MemoryTypes, CallState
<1> QED BY <1>1, <1>4, <1>5, <1>6, Talks DEF MemoryInv, Talk

LEMMA BothSaid ==
    ASSUME NEW e, NEW c, NEW q, Memory!Message(c, "user") \in Memory!Members(q),
           Memory!Message(c, "assistant") \in Memory!Members(q)
    PROVE  SaidOf(e, c, q)
BY DEF SaidOf

LEMMA StoredStep ==
    ASSUME MemoryInv, NEW c \in Stores, Stored(c), [Memory!Next]_memory, c \notin spoilt'
    PROVE  Stored(c)'
<1> DEFINE s == Session[c]
<1>1. /\ s \in Memory!Sessions /\ c \in Memory!Calls /\ c \notin Readers
      /\ recent[s] \in Seq(Messages) /\ history[s] \in Seq(Messages) /\ at \in [Memory!Calls -> CallState]
  BY CallsAssumption DEF MemoryInv, MemoryTypes, Memory!Sessions, Memory!Calls
<1>2. CASE at'[c] = at[c] BY <1>2, StoredWaits
<1>3. CASE Memory!BeginStore(c)
  <2>1. at'[c] = "user" BY <1>1, <1>3 DEF Memory!BeginStore
  <2> QED BY <2>1 DEF Stored
<1>4. CASE Memory!AddMessage(c)
  <2> DEFINE m == Memory!Message(c, at[c])
  <2>1. /\ at[c] \in {"user", "assistant"} /\ at'[c] = (IF at[c] = "user" THEN "assistant" ELSE "episodic")
        /\ UNCHANGED earlier
    BY <1>1, <1>4 DEF Memory!AddMessage
  <2>2. m \in Messages /\ m.of = c BY <2>1 DEF Messages, Memory!Message
  <2>3. recent'[s] = Append(recent[s], m) /\ history'[s] = Append(history[s], m)
    <3>1. c \in spoilt \cup {c} OBVIOUS
    <3>2. /\ recent' = [recent EXCEPT ![s] = Append(@, m)]
          /\ history' = [history EXCEPT ![s] = Append(@, m)]
      BY <1>4, <3>1 DEF Memory!AddMessage
    <3> HIDE DEF m
    <3> QED BY <1>1, <3>2 DEF MemoryInv, MemoryTypes
  <2> HIDE DEF m
  <2>4. /\ Memory!Members(recent'[s]) = Memory!Members(recent[s]) \cup {m}
        /\ Memory!Members(history'[s]) = Memory!Members(history[s]) \cup {m}
    BY <1>1, <2>2, <2>3, Appended
  <2>5. CASE at[c] = "user"
    <3>1. m = Memory!Message(c, "user") BY <2>5 DEF m
    <3> QED BY <2>1, <2>4, <2>5, <3>1 DEF Stored
  <2>6. CASE at[c] = "assistant"
    <3>1. m = Memory!Message(c, "assistant") BY <2>6 DEF m
    <3>2. SaidOf(earlier, c, recent'[s])
      <4>1. CASE recent[s] = <<>>
        <5>1. m.of = c \/ c \in earlier[m.of] BY <2>2
        <5>2. SaidOf(earlier, c, Append(recent[s], m)) BY <1>1, <2>2, <4>1, <5>1, SaidAppend
        <5> QED BY <2>3, <5>2
      <4>2. CASE recent[s] # <<>>
        <5>1. Memory!Message(c, "user") \in Memory!Members(recent[s]) BY <2>6, <4>2 DEF Stored
        <5>2. /\ Memory!Message(c, "user") \in Memory!Members(recent'[s])
              /\ Memory!Message(c, "assistant") \in Memory!Members(recent'[s])
          BY <2>4, <3>1, <5>1
        <5> QED BY <5>2, BothSaid
      <4> QED BY <4>1, <4>2
    <3> QED BY <2>1, <2>4, <2>6, <3>1, <3>2 DEF Stored
  <2> QED BY <2>1, <2>5, <2>6
<1>5. CASE Memory!StoreEpisodic(c) \/ Memory!StoreProfile(c)
  <2>1. /\ at[c] \in {"episodic", "profile"} /\ at'[c] \in {"profile", "done"}
        /\ UNCHANGED <<recent, history, earlier>>
    BY <1>1, <1>5 DEF Memory!StoreEpisodic, Memory!StoreProfile, Memory!EndStore
  <2> QED BY <2>1 DEF Stored
<1>6. CASE Memory!Cancel(c) BY <1>6 DEF Memory!Cancel
<1>7. CASE \E d \in Memory!Calls :
             \/ Memory!BeginStore(d) \/ Memory!BeginRead(d) \/ Memory!AddMessage(d) \/ Memory!StoreEpisodic(d)
             \/ Memory!StoreProfile(d) \/ Memory!FetchRecent(d) \/ Memory!FetchHistory(d)
             \/ Memory!SearchEpisodic(d) \/ Memory!SearchProfile(d) \/ Memory!Cancel(d)
  <2>1. PICK d \in Memory!Calls :
             \/ Memory!BeginStore(d) \/ Memory!BeginRead(d) \/ Memory!AddMessage(d) \/ Memory!StoreEpisodic(d)
             \/ Memory!StoreProfile(d) \/ Memory!FetchRecent(d) \/ Memory!FetchHistory(d)
             \/ Memory!SearchEpisodic(d) \/ Memory!SearchProfile(d) \/ Memory!Cancel(d)
    BY <1>7
  <2>2. CASE d # c
    <3>1. \E l : at' = [at EXCEPT ![d] = l]
      BY <2>1 DEF Memory!BeginStore, Memory!BeginRead, Memory!AddMessage, Memory!StoreEpisodic, Memory!StoreProfile,
         Memory!EndStore, Memory!FetchRecent, Memory!FetchHistory, Memory!SearchEpisodic, Memory!SearchProfile,
         Memory!SearchFails, Memory!EndFetch, Memory!Cancel
    <3> QED BY <1>1, <1>2, <2>2, <3>1
  <2>3. CASE d = c
    <3>1. ~Memory!BeginRead(c) /\ ~Memory!SearchEpisodic(c) /\ ~Memory!SearchProfile(c)
      BY <1>1 DEF Memory!BeginRead, Memory!SearchEpisodic, Memory!SearchProfile
    <3>2. ~Memory!FetchRecent(c) /\ ~Memory!FetchHistory(c)
      BY DEF MemoryInv, MemoryTypes, Memory!FetchRecent, Memory!FetchHistory
    <3> QED BY <1>3, <1>4, <1>5, <1>6, <2>1, <2>3, <3>1, <3>2
  <2> QED BY <2>2, <2>3
<1>8. CASE \E z \in Memory!Sessions : Memory!Expire(z) BY <1>2, <1>8 DEF Memory!Expire
<1>9. CASE UNCHANGED memory BY <1>2, <1>9 DEF memory
<1> QED BY <1>7, <1>8, <1>9 DEF Memory!Next

\* While a reader is inside, no store of its session gets done.
LEMMA NobodyElse ==
    ASSUME MemoryInv, [Memory!Next]_memory, NEW r \in Readers, Within(r),
           NEW c \in Stores, Session[c] = Session[r], at'[c] = "done"
    PROVE  at[c] = "done"
<1>1. r \in Memory!Calls /\ c \in Memory!Calls /\ c # r BY CallsAssumption DEF Memory!Calls
<1>2. ~Within(c) BY <1>1 DEF MemoryInv, OneWithin
<1> QED BY <1>1, <1>2, CallMoves DEF MemoryInv, MemoryTypes

\* What a reader has fetched once its conversation is there.
LEMMA FetchedStep ==
    ASSUME MemoryInv, NEW r \in Readers, r \notin spoilt, Fetched(r), [Memory!Next]_memory, r \notin spoilt'
    PROVE  Fetched(r)'
<1> SUFFICES ASSUME at'[r] \in {"episodic", "profile"},
                    NEW c \in Stores \ spoilt', Session[c] = Session[r], at'[c] = "done"
             PROVE  SaidOf(earlier', c, snap'[r].conversation)
  BY DEF Fetched
<1> DEFINE s == Session[r]
<1>1. /\ r \in Memory!Calls /\ c \in Memory!Calls /\ r \notin Stores /\ s \in Memory!Sessions
      /\ recent[s] \in Seq(Messages) /\ history[s] \in Seq(Messages)
      /\ snap[r] \in Snapshots /\ at \in [Memory!Calls -> CallState]
  BY CallsAssumption DEF MemoryInv, MemoryTypes, Memory!Sessions, Memory!Calls
<1>2. c \notin spoilt BY Onwards DEF MemoryInv
<1>3. \A q \in {recent[s], history[s]} :
         q \in Seq(Messages) /\ Ordered(earlier, q) /\ \A m \in Memory!Members(q) : at[m.of] # "new"
  BY <1>1 DEF MemoryInv, InOrder, Begun
<1>4. snap[r].conversation \in Seq(Messages) /\ \A m \in Memory!Members(snap[r].conversation) : at[m.of] # "new"
  BY <1>1 DEF Snapshots, MemoryInv, Begun
<1>5. CASE at[r] \in {"episodic", "profile"}
  <2>1. at[c] = "done" BY <1>5, NobodyElse DEF Within, Memory!Inside
  <2>2. SaidOf(earlier, c, snap[r].conversation) BY <1>2, <1>5, <2>1 DEF Fetched
  <2>3. snap'[r].conversation = snap[r].conversation BY <1>1, <1>5, ConversationStays DEF MemoryInv
  <2> QED BY <1>4, <2>2, <2>3, StillKnown DEF MemoryInv
<1>6. CASE at[r] \notin {"episodic", "profile"}
  <2>1. Memory!FetchRecent(r) \/ Memory!FetchHistory(r) BY <1>1, <1>6, FetchesFirst DEF MemoryInv
  <2>2. at[c] = "done"
    BY <1>1, <2>1, NobodyElse DEF Within, Memory!Inside, Memory!FetchRecent, Memory!FetchHistory
  <2>3. Stored(c) BY <1>2 DEF MemoryInv
  <2>4. PICK q \in {recent[s], history[s]} :
            SaidOf(earlier, c, q) /\ snap' = [snap EXCEPT ![r].conversation = Memory!Latest(q, Limit)]
    <3>1. SaidOf(earlier, c, history[s]) BY <2>2, <2>3 DEF Stored, SaidOf
    <3>2. CASE Memory!FetchHistory(r)
      <4>1. r \in spoilt \cup {r} OBVIOUS
      <4>2. snap' = [snap EXCEPT ![r].conversation = Memory!Latest(history[s], Limit)]
        BY <3>2, <4>1 DEF Memory!FetchHistory
      <4> QED BY <3>1, <4>2
    <3>3. CASE Memory!FetchRecent(r)
      <4>1. /\ recent[s] # <<>>
            /\ snap' = [snap EXCEPT ![r].conversation = Memory!Latest(recent[s], Limit)]
        BY <1>1, <3>3 DEF Memory!FetchRecent
      <4>2. SaidOf(earlier, c, recent[s]) BY <2>2, <2>3, <4>1 DEF Stored
      <4> QED BY <4>1, <4>2
    <3> QED BY <2>1, <3>2, <3>3
  <2> DEFINE t == Memory!Latest(q, Limit)
  <2>5. snap'[r].conversation = t
    <3>1. snap'[r] = [snap[r] EXCEPT !.conversation = t] BY <2>4 DEF MemoryInv, MemoryTypes
    <3> QED BY <1>1, <3>1 DEF Snapshots
  <2>6. SaidOf(earlier, c, t) BY <1>3, <2>4, CutBehind, LimitAssumption
  <2>7. t \in Seq(Messages) /\ \A m \in Memory!Members(t) : at[m.of] # "new"
    BY <1>3, LatestKept, LimitAssumption
  <2> QED BY <2>5, <2>6, <2>7, StillKnown DEF MemoryInv
<1> QED BY <1>5, <1>6

LEMMA ToldStep ==
    ASSUME MemoryInv, NEW r \in Readers, r \notin spoilt, Fetched(r), Told(r), [Memory!Next]_memory
    PROVE  Told(r)'
<1> SUFFICES ASSUME at'[r] = "done",
                    NEW c \in (Memory!Members(snap'[r].vector) \cup Memory!Members(snap'[r].kg)) \ spoilt',
                    Session[c] = Session[r]
             PROVE  SaidOf(earlier', c, snap'[r].conversation)
  BY DEF Told
<1>1. /\ r \in Memory!Calls /\ snap[r] \in Snapshots /\ at \in [Memory!Calls -> CallState]
      /\ spoilt \subseteq spoilt'
  BY Onwards DEF MemoryInv, MemoryTypes, Memory!Calls
<1>2. snap[r].conversation \in Seq(Messages) /\ \A m \in Memory!Members(snap[r].conversation) : at[m.of] # "new"
  BY <1>1 DEF Snapshots, MemoryInv, Begun
<1>3. CASE at[r] = "done"
  <2>1. snap'[r] = snap[r] BY <1>1, <1>3, SnapshotStays DEF MemoryInv
  <2>2. SaidOf(earlier, c, snap[r].conversation) BY <1>1, <1>3, <2>1 DEF Told
  <2> QED BY <1>2, <2>1, <2>2, StillKnown DEF MemoryInv
<1>4. CASE at[r] # "done"
  <2>1. at[r] \in {"episodic", "profile"} /\ Within(r)
    BY <1>1, <1>4, CallMoves DEF MemoryInv, MemoryTypes, Within, Memory!Inside
  <2>2. snap'[r].conversation = snap[r].conversation BY <1>1, <2>1, ConversationStays DEF MemoryInv
  <2>3. c \in Stores /\ Learnt(c)'
    <3>1. MemoryTypes' BY MemoryTypesStep DEF MemoryInv
    <3>2. snap'[r].vector \in Seq(Stores) /\ snap'[r].kg \in Seq(Stores) BY <3>1 DEF MemoryTypes, Snapshots
    <3>3. AllLearnt' BY LearntStep DEF MemoryInv
    <3> QED BY <3>2, <3>3 DEF AllLearnt, Memory!Members
  <2>4. c \in Memory!Calls /\ c # r /\ c \notin spoilt BY <1>1, <2>3, CallsAssumption DEF Memory!Calls
  <2>5. ~Within(c) BY <1>1, <2>1, <2>4 DEF MemoryInv, OneWithin
  <2>6. at'[c] \in {"done", "cancelled"} => at[c] = at'[c]
    BY <2>4, <2>5, CallMoves DEF MemoryInv, MemoryTypes
  <2>7. at'[c] # "profile" BY <2>4, <2>5, CallMoves DEF MemoryInv, MemoryTypes, Within, Memory!Inside
  <2>8. at[c] = "done" BY <2>3, <2>4, <2>6, <2>7 DEF Learnt, MemoryInv, Stored
  <2>9. SaidOf(earlier, c, snap[r].conversation) BY <2>1, <2>3, <2>4, <2>8 DEF Fetched
  <2> QED BY <1>2, <2>2, <2>9, StillKnown DEF MemoryInv
<1> QED BY <1>3, <1>4

LEMMA MemoryStep == MemoryInv /\ [Memory!Next]_memory => MemoryInv'
<1> SUFFICES ASSUME MemoryInv, [Memory!Next]_memory PROVE MemoryInv' OBVIOUS
<1>1. MemoryTypes' BY MemoryTypesStep DEF MemoryInv
<1>2. OneWithin' /\ KnowsEarlier' BY LockStep DEF MemoryInv
<1>3. Begun' /\ InOrder' /\ AllLearnt' BY BegunStep, InOrderStep, LearntStep DEF MemoryInv
<1>4. spoilt \subseteq spoilt' BY Onwards DEF MemoryInv
<1>5. \A c \in Stores \ spoilt' : Stored(c)' BY <1>4, StoredStep DEF MemoryInv
<1>6. \A r \in Readers \ spoilt' : Fetched(r)' /\ Told(r)'
  BY <1>4, FetchedStep, ToldStep DEF MemoryInv
<1> QED BY <1>1, <1>2, <1>3, <1>5, <1>6 DEF MemoryInv

THEOREM MemoryInductive == Memory!Spec => []MemoryInv
BY MemoryInit, MemoryStep, PTL DEF Memory!Spec, Memory!vars, memory

\* What a snapshot finds of its session was said in it or is older than all that is told
\* of it, for any calls, sessions and limit (memory_controller.py:71-178).
THEOREM FoundWasSaidAlways == Memory!Spec => []FoundWasSaid
<1>1. MemoryInv => FoundWasSaid
  BY DEF MemoryInv, Told, SaidOf, FoundWasSaid, Memory!FoundWasSaid, Memory!SaidOrCut
<1> QED BY <1>1, MemoryInductive, PTL

(***************************************************************************)
(* UnifiedMemory: the resolver                                             *)
(***************************************************************************)
\* The facts that can be stated, at places and with stamps up to k.
Values == {Said[c] : c \in Stores} \cup {Related[c] : c \in Stores}
Stated(k) == [value : Values, source : 1..3, time : 0..k, confidence : 0..10, place : 0..k]

\* Each at a place of its own.
Apart(facts) == \A x, y \in facts : x.place = y.place => x = y

\* Nothing is above w.
First(facts, w) == w \in facts /\ \A y \in facts : ~Memory!Above(y, w)

\* Of some facts, those where a field is largest.
LEMMA Greatest ==
    ASSUME NEW S, S # {}, NEW k \in Nat, NEW f, \A x \in S : f[x] \in 0..k
    PROVE  \E m \in 0..k : /\ {x \in S : f[x] = m} # {}
                           /\ \A x \in S : f[x] <= m
<1> DEFINE T == {f[x] : x \in S}
<1>1. T \in SUBSET (0..k) /\ T # {} OBVIOUS
<1>2. \A x \in S : f[x] \in T OBVIOUS
<1>3. \A y \in T : \E x \in S : y = f[x] OBVIOUS
<1> HIDE DEF T
<1>4. PICK m \in T : \A x \in T : x <= m BY <1>1, Largest
<1>5. m \in 0..k BY <1>1, <1>4
<1> QED BY <1>2, <1>3, <1>4, <1>5

\* Any facts have a first one: the largest source, then time, then trust, then the
\* earliest place.
LEMMA FirstExists ==
    ASSUME NEW k \in Nat, NEW facts \in SUBSET Stated(k), facts # {}
    PROVE  \E w \in facts : First(facts, w)
<1>0. \A x \in facts : /\ x.source \in 0..3 /\ x.time \in 0..k /\ x.confidence \in 0..10
                        /\ x.place \in 0..k
  <2>1. ASSUME NEW x \in facts PROVE x \in Stated(k) OBVIOUS
  <2> QED BY <2>1 DEF Stated
<1> DEFINE source[x \in facts] == x.source
           time[x \in facts] == x.time
           trust[x \in facts] == x.confidence
           before[x \in facts] == k - x.place
<1>1. \A x \in facts : /\ source[x] = x.source /\ time[x] = x.time /\ trust[x] = x.confidence
                       /\ before[x] = k - x.place
  OBVIOUS
<1> HIDE DEF source, time, trust, before
<1>2. PICK s \in 0..3 : {x \in facts : source[x] = s} # {} /\ \A x \in facts : source[x] <= s
  BY <1>0, <1>1, Greatest
<1> DEFINE A == {x \in facts : source[x] = s}
<1>3. A # {} /\ \A x \in A : x \in facts /\ time[x] \in 0..k BY <1>0, <1>1, <1>2
<1> HIDE DEF A
<1>4. PICK t \in 0..k : {x \in A : time[x] = t} # {} /\ \A x \in A : time[x] <= t
  BY <1>3, Greatest
<1> DEFINE B == {x \in A : time[x] = t}
<1>5. B # {} /\ \A x \in B : x \in facts /\ trust[x] \in 0..10 BY <1>0, <1>1, <1>3, <1>4
<1> HIDE DEF B
<1>6. PICK c \in 0..10 : {x \in B : trust[x] = c} # {} /\ \A x \in B : trust[x] <= c
  BY <1>5, Greatest
<1> DEFINE C == {x \in B : trust[x] = c}
<1>7. C # {} /\ \A x \in C : x \in facts /\ before[x] \in 0..k
  <2>1. \A x \in facts : k - x.place \in 0..k BY <1>0
  <2> QED BY <1>1, <1>5, <1>6, <2>1
<1> HIDE DEF C
<1>8. PICK b \in 0..k : {x \in C : before[x] = b} # {} /\ \A x \in C : before[x] <= b
  BY <1>7, Greatest
<1>9. PICK w \in C : before[w] = b BY <1>8
<1>10. w \in facts /\ source[w] = s /\ time[w] = t /\ trust[w] = c
  BY <1>3, <1>5, <1>7, <1>9 DEF A, B, C
<1>11. ASSUME NEW y \in facts PROVE ~Memory!Above(y, w)
  <2>1. /\ source[y] <= s /\ (source[y] = s => time[y] <= t)
        /\ source[y] = s /\ time[y] = t => trust[y] <= c
        /\ source[y] = s /\ time[y] = t /\ trust[y] = c => before[y] <= b
    BY <1>2, <1>4, <1>6, <1>8 DEF A, B, C
  <2>2. /\ y.source \in Nat /\ y.time \in Nat /\ y.confidence \in Nat /\ y.place \in Nat /\ w.place \in Nat
        /\ s \in Nat /\ t \in Nat /\ c \in Nat
    BY <1>0, <1>10
  <2>3. /\ w.source = s /\ w.time = t /\ w.confidence = c /\ k - w.place = b
        /\ y.source = source[y] /\ y.time = time[y] /\ y.confidence = trust[y] /\ before[y] = k - y.place
    BY <1>1, <1>9, <1>10
  <2> HIDE DEF A, B, C
  <2> QED BY <2>1, <2>2, <2>3 DEF Memory!Above
<1> QED BY <1>10, <1>11 DEF First

LEMMA WinnerFirst ==
    ASSUME NEW k \in Nat, NEW facts \in SUBSET Stated(k), facts # {}
    PROVE  First(facts, Memory!Winner(facts))
<1>1. \E x \in facts : \A y \in facts : ~Memory!Above(y, x) BY FirstExists DEF First
<1> QED BY <1>1 DEF Memory!Winner, First

LEMMA FirstUnique ==
    ASSUME NEW k \in Nat, NEW facts \in SUBSET Stated(k), Apart(facts),
           NEW v, NEW w, First(facts, v), First(facts, w)
    PROVE  v = w
<1>1. v \in facts /\ w \in facts /\ ~Memory!Above(v, w) /\ ~Memory!Above(w, v) BY DEF First
<1>2. v \in Stated(k) /\ w \in Stated(k) BY <1>1
<1>3. /\ v.source \in Nat /\ v.time \in Nat /\ v.confidence \in Nat /\ v.place \in Nat
      /\ w.source \in Nat /\ w.time \in Nat /\ w.confidence \in Nat /\ w.place \in Nat
  BY <1>2 DEF Stated
<1>4. v.place = w.place BY <1>1, <1>3 DEF Memory!Above
<1> QED BY <1>1, <1>4 DEF Apart

\* What a snapshot states.
LEMMA FactsStated ==
    ASSUME NEW s \in Snapshots
    PROVE  \E k \in Nat : Memory!Facts(s) \in SUBSET Stated(k) /\ Apart(Memory!Facts(s))
<1> DEFINE l == Len(s.conversation)
           n == Len(s.vector)
           m == Len(s.kg)
           users == {i \in 1..l : s.conversation[i].role = "user"}
           Talked(i) == Memory!Fact(Said[s.conversation[i].of], Memory!Conversation, 0, 10, i)
           Searched(i) == Memory!Fact(Said[s.vector[i]], Memory!Vector, i, 7, l + i)
           Asked(i) == Memory!Fact(Related[s.kg[i]], Memory!Graph, n + i, Trust[s.kg[i]], l + n + i)
           k == l + n + m
<1>1. Memory!Facts(s) = {Talked(i) : i \in users} \cup {Searched(i) : i \in 1..n} \cup {Asked(i) : i \in 1..m}
  BY DEF Memory!Facts
<1>2. s.conversation \in Seq(Messages) /\ s.vector \in Seq(Stores) /\ s.kg \in Seq(Stores) BY DEF Snapshots
<1>3. l \in Nat /\ n \in Nat /\ m \in Nat BY <1>2
<1>4. /\ \A i \in users : i \in 1..l /\ s.conversation[i].of \in Stores
      /\ \A i \in 1..n : s.vector[i] \in Stores
      /\ \A i \in 1..m : s.kg[i] \in Stores
  BY <1>2, OfStores DEF Memory!Members
<1>5. \A c \in Stores : Said[c] \in Values /\ Related[c] \in Values /\ Trust[c] \in 0..10
  BY TrustAssumption DEF Values
<1>6. Memory!Vector \in 1..3 /\ Memory!Graph \in 1..3 /\ Memory!Conversation \in 1..3
  BY DEF Memory!Conversation, Memory!Vector, Memory!Graph
<1> HIDE DEF l, n, m, users
<1>7. /\ k \in Nat /\ 0 \in 0..k /\ 7 \in 0..10 /\ 10 \in 0..10
      /\ \A i \in 1..l : i \in 0..k
      /\ \A i \in 1..n : i \in 0..k /\ l + i \in 0..k
      /\ \A i \in 1..m : n + i \in 0..k /\ l + n + i \in 0..k
  BY <1>3
<1>8. /\ \A i \in 1..l : \A j \in 1..n : i # l + j
      /\ \A i \in 1..l : \A j \in 1..m : i # l + n + j
      /\ \A i \in 1..n : \A j \in 1..m : l + i # l + n + j
      /\ \A i, j \in 1..n : l + i = l + j => i = j
      /\ \A i, j \in 1..m : l + n + i = l + n + j => i = j
  BY <1>3
<1> HIDE DEF k
<1>9. ASSUME NEW i \in users PROVE Talked(i) \in Stated(k) /\ Talked(i).place = i
  <2>1. Said[s.conversation[i].of] \in Values /\ i \in 0..k BY <1>4, <1>5, <1>7
  <2>2. Memory!Conversation \in 1..3 /\ 0 \in 0..k /\ 10 \in 0..10 BY <1>6, <1>7
  <2>3. /\ Memory!Fact(Said[s.conversation[i].of], Memory!Conversation, 0, 10, i) \in Stated(k)
        /\ Memory!Fact(Said[s.conversation[i].of], Memory!Conversation, 0, 10, i).place = i
    BY <1>7, <2>1, <2>2 DEF Stated, Memory!Fact
  <2> QED BY <2>3
<1>10. ASSUME NEW i \in 1..n PROVE Searched(i) \in Stated(k) /\ Searched(i).place = l + i
  <2>1. Said[s.vector[i]] \in Values /\ i \in 0..k /\ l + i \in 0..k BY <1>4, <1>5, <1>7
  <2>2. Memory!Vector \in 1..3 /\ 7 \in 0..10 BY <1>6, <1>7
  <2>3. /\ Memory!Fact(Said[s.vector[i]], Memory!Vector, i, 7, l + i) \in Stated(k)
        /\ Memory!Fact(Said[s.vector[i]], Memory!Vector, i, 7, l + i).place = l + i
    BY <1>7, <2>1, <2>2 DEF Stated, Memory!Fact
  <2> QED BY <2>3
<1>11. ASSUME NEW i \in 1..m PROVE Asked(i) \in Stated(k) /\ Asked(i).place = l + n + i
  <2>1. Related[s.kg[i]] \in Values /\ Trust[s.kg[i]] \in 0..10 /\ n + i \in 0..k /\ l + n + i \in 0..k
    BY <1>4, <1>5, <1>7
  <2>2. Memory!Graph \in 1..3 BY <1>6
  <2>3. /\ Memory!Fact(Related[s.kg[i]], Memory!Graph, n + i, Trust[s.kg[i]], l + n + i) \in Stated(k)
        /\ Memory!Fact(Related[s.kg[i]], Memory!Graph, n + i, Trust[s.kg[i]], l + n + i).place = l + n + i
    BY <1>7, <2>1, <2>2 DEF Stated, Memory!Fact
  <2> QED BY <2>3
<1> HIDE DEF Talked, Searched, Asked
<1>12. Memory!Facts(s) \in SUBSET Stated(k) BY <1>1, <1>9, <1>10, <1>11
<1>13. Apart(Memory!Facts(s))
  <2> SUFFICES ASSUME NEW x \in Memory!Facts(s), NEW y \in Memory!Facts(s), x.place = y.place PROVE x = y
    BY DEF Apart
  <2>1. \/ \E i \in users : x = Talked(i) /\ x.place = i
        \/ \E i \in 1..n : x = Searched(i) /\ x.place = l + i
        \/ \E i \in 1..m : x = Asked(i) /\ x.place = l + n + i
    BY <1>1, <1>9, <1>10, <1>11
  <2>2. \/ \E i \in users : y = Talked(i) /\ y.place = i
        \/ \E i \in 1..n : y = Searched(i) /\ y.place = l + i
        \/ \E i \in 1..m : y = Asked(i) /\ y.place = l + n + i
    BY <1>1, <1>9, <1>10, <1>11
  <2> QED BY <1>4, <1>8, <2>1, <2>2
<1> QED BY <1>7, <1>12, <1>13

\* What is resolved is the first of the fit facts, and the winner of the conflict the
\* first of them all.
LEMMA HighestFit ==
    ASSUME NEW k \in Nat, NEW facts \in SUBSET Stated(k), Apart(facts),
           NEW fit, fit = {x \in facts : x.source = Memory!Graph => x.confidence >= Threshold}
    PROVE  /\ Memory!Resolved(facts) \subseteq fit
           /\ fit # {} => \E x \in Memory!Resolved(facts) : \A y \in fit : x.source >= y.source
           /\ Memory!ConflictWinner(facts) \cap fit \subseteq Memory!Resolved(facts)
<1>1. Memory!Resolved(facts) = IF fit = {} THEN {} ELSE {Memory!Winner(fit)}
  <2>1. {x \in facts : Memory!Trusted(x)} = fit BY DEF Memory!Trusted
  <2> QED BY <2>1 DEF Memory!Resolved
<1>2. fit \in SUBSET Stated(k) /\ fit \subseteq facts OBVIOUS
<1>3. ASSUME fit # {} PROVE First(fit, Memory!Winner(fit)) BY <1>2, <1>3, WinnerFirst
<1>4. Memory!Resolved(facts) \subseteq fit BY <1>1, <1>3 DEF First
<1>5. ASSUME fit # {}, NEW y \in fit PROVE Memory!Winner(fit).source >= y.source
  <2>1. Memory!Winner(fit) \in Stated(k) /\ y \in Stated(k) /\ ~Memory!Above(y, Memory!Winner(fit))
    BY <1>2, <1>3, <1>5 DEF First
  <2>2. Memory!Winner(fit).source \in Nat /\ y.source \in Nat BY <2>1 DEF Stated
  <2> QED BY <2>1, <2>2 DEF Memory!Above
<1>6. ASSUME NEW x \in Memory!ConflictWinner(facts), x \in fit PROVE x \in Memory!Resolved(facts)
  <2>1. x = Memory!Winner(facts) /\ facts # {} BY <1>2, <1>6 DEF Memory!ConflictWinner
  <2>2. First(facts, x) BY <2>1, WinnerFirst
  <2>3. First(fit, x) BY <1>2, <1>6, <2>2 DEF First
  <2>4. Apart(fit) BY <1>2 DEF Apart
  <2>5. x = Memory!Winner(fit) BY <1>2, <1>3, <1>6, <2>3, <2>4, FirstUnique
  <2> QED BY <1>1, <1>6, <2>5
<1> QED BY <1>1, <1>4, <1>5, <1>6

\* What is resolved is fit and of the highest authority that is, for any calls, sessions,
\* values and trust (authority.py:190-301).
THEOREM AuthorityKeptAlways == Memory!Spec => []AuthorityKept
<1>1. MemoryTypes => AuthorityKept
  <2> SUFFICES ASSUME MemoryTypes, NEW r \in Readers
               PROVE  LET facts == Memory!Facts(snap[r])
                          fit   == {x \in facts : x.source = Memory!Graph => x.confidence >= Threshold}
                      IN  /\ Memory!Resolved(facts) \subseteq fit
                          /\ fit # {} => \E x \in Memory!Resolved(facts) : \A y \in fit : x.source >= y.source
                          /\ Memory!ConflictWinner(facts) \cap fit \subseteq Memory!Resolved(facts)
    BY DEF AuthorityKept, Memory!AuthorityKept
  <2>1. snap[r] \in Snapshots BY DEF MemoryTypes
  <2>2. PICK k \in Nat : Memory!Facts(snap[r]) \in SUBSET Stated(k) /\ Apart(Memory!Facts(snap[r]))
    BY <2>1, FactsStated
  <2> QED BY <2>2, HighestFit
<1>2. MemoryInv => AuthorityKept BY <1>1 DEF MemoryInv
<1> QED BY <1>2, MemoryInductive, PTL

(***************************************************************************)
(* VectorMigration: what a run has written                                 *)
(***************************************************************************)
Stage == {"listing", "creating", "loading", "inserting", "again", "failed", "done"}

Places == 1..Len(Types)

MigrationTypes ==
    /\ stage \in Stage
    /\ run \in Nat \ {0} /\ next \in Nat \ {0}
    /\ type \in Places
    /\ points \in SUBSET ((1..run) \X Places \X Nat \X {1})
    /\ summary \in [Places -> [migrated : Nat, error : BOOLEAN]]

\* The present run's points of type t, and those of its first n records.
Here(t) == Migration!Of(run, t)
Written(t, n) == {<<run, t, i, 1>> : i \in 1..n}
Copied(t) == Here(t) = Written(t, Migration!Records(t))

Blank == [migrated |-> 0, error |-> FALSE]

Counted(t) == summary[t].migrated > 0 => summary[t].migrated = Migration!Records(t) /\ Copied(t)
Over(t)    == ~summary[t].error => Copied(t)
Ahead(t)   == summary[t] = Blank /\ Here(t) = {}

\* The batches before the present one are there; some of it may be.
UnderWay ==
    /\ summary[type] = Blank
    /\ next <= Migration!Records(type)
    /\ Written(type, next - 1) \subseteq Here(type)
    /\ Here(type) \subseteq Written(type, Migration!Records(type))

MigrationInv ==
    /\ MigrationTypes
    /\ \A t \in Places : Counted(t)
    /\ stage \in {"listing", "creating"} => type = 1
    /\ stage \in {"listing", "creating", "loading"} =>
          \A t \in Places : IF t < type THEN Over(t) ELSE Ahead(t)
    /\ stage = "inserting" =>
          \A t \in Places : IF t < type THEN Over(t) ELSE IF t = type THEN UnderWay ELSE Ahead(t)
    /\ stage = "done" => \A t \in Places : Over(t)

LEMMA RecordsCounted == \A t \in Places : Migration!Records(t) \in Nat
BY TypesAssumption DEF Places, Migration!Records

LEMMA WrittenCount ==
    ASSUME NEW t, NEW n \in Nat
    PROVE  Cardinality(Written(t, n)) = n
<1> DEFINE f == [i \in 1..n |-> <<run, t, i, 1>>]
<1>1. f \in [1..n -> Written(t, n)] /\ \A i \in 1..n : f[i] = <<run, t, i, 1>> BY DEF Written
<1>2. \A i, j \in 1..n : f[i] = f[j] => i = j BY <1>1
<1>3. \A p \in Written(t, n) : \E i \in 1..n : f[i] = p BY <1>1 DEF Written
<1> HIDE DEF f
<1>4. f \in Bijection(1..n, Written(t, n))
  BY <1>1, <1>2, <1>3 DEF Bijection, Injection, Surjection, IsInjective
<1>5. ExistsBijection(1..n, Written(t, n)) BY <1>4 DEF ExistsBijection
<1>6. IsFiniteSet(1..n) /\ Cardinality(1..n) = n BY FS_Interval
<1> QED BY <1>5, <1>6, FS_Bijection

LEMMA MigrationInit == Migration!Init => MigrationInv
<1> SUFFICES ASSUME Migration!Init PROVE MigrationInv OBVIOUS
<1> USE DEF Migration!Init, Migration!NoSummary
<1>1. MigrationTypes BY TypesAssumption DEF MigrationTypes, Stage, Places
<1>2. \A t \in Places : Ahead(t) BY DEF Ahead, Blank, Here, Migration!Of, Places
<1>3. \A t \in Places : ~(t < type) BY DEF Places
<1>4. \A t \in Places : Counted(t)
  <2> SUFFICES ASSUME NEW t \in Places PROVE Counted(t) OBVIOUS
  <2>1. summary[t] = Blank BY <1>2 DEF Ahead
  <2>2. ~(summary[t].migrated > 0) BY <2>1 DEF Blank
  <2> HIDE DEF Migration!Init
  <2> QED BY <2>2 DEF Counted
<1> QED BY <1>1, <1>2, <1>3, <1>4 DEF MigrationInv

\* The points of the run and the summary stay, as does what is said of them.
LEMMA StaysSo ==
    ASSUME UNCHANGED <<run, points, summary>>, NEW t
    PROVE  /\ Counted(t)' <=> Counted(t)
           /\ Over(t)' <=> Over(t)
           /\ Ahead(t)' <=> Ahead(t)
<1>1. Copied(t)' <=> Copied(t) BY DEF Copied, Here, Written, Migration!Of, Migration!Records
<1>2. Migration!Records(t)' = Migration!Records(t) BY DEF Migration!Records
<1> QED BY <1>1, <1>2 DEF Counted, Over, Ahead, Here, Migration!Of, Blank

\* A type's turn ends with a summary that says no more than is there.
LEMMA TypeEnds ==
    ASSUME MigrationInv, stage \in {"loading", "inserting"}, MigrationTypes',
           NEW k \in Places, k = type,
           NEW s \in [migrated : Nat, error : BOOLEAN], Migration!TypeDone(s),
           \A t \in Places : t # k => Here(t)' = Here(t),
           s.migrated > 0 => s.migrated = Migration!Records(k) /\ Copied(k)',
           ~s.error => Copied(k)'
    PROVE  MigrationInv'
<1>1. /\ summary' = [summary EXCEPT ![k] = s] /\ run' = run
      /\ IF k < Len(Types) THEN stage' = "loading" /\ type' = k + 1 ELSE stage' = "done" /\ type' = k
  BY DEF Migration!TypeDone
<1>2. summary \in [Places -> [migrated : Nat, error : BOOLEAN]] BY DEF MigrationInv, MigrationTypes
<1>3. summary'[k] = s /\ \A t \in Places : t # k => summary'[t] = summary[t] BY <1>1, <1>2
<1>4. \A t \in Places : Counted(t) /\ (t < k => Over(t)) /\ (t # k /\ ~(t < k) => Ahead(t))
  BY DEF MigrationInv
<1>5. ASSUME NEW t \in Places, t # k
      PROVE  /\ Counted(t)' <=> Counted(t)
             /\ Over(t)' <=> Over(t)
             /\ Ahead(t)' <=> Ahead(t)
  <2>1. summary'[t] = summary[t] /\ Here(t)' = Here(t) BY <1>3, <1>5
  <2>2. Migration!Records(t)' = Migration!Records(t) BY DEF Migration!Records
  <2>3. Written(t, Migration!Records(t))' = Written(t, Migration!Records(t)) BY <1>1, <2>2 DEF Written
  <2> QED BY <2>1, <2>2, <2>3 DEF Counted, Over, Ahead, Copied, Blank
<1>6. Counted(k)' /\ Over(k)'
  <2>1. Migration!Records(k)' = Migration!Records(k) BY DEF Migration!Records
  <2> QED BY <1>3, <2>1 DEF Counted, Over
<1>7. \A t \in Places : Counted(t)' BY <1>4, <1>5, <1>6
<1>8. k \in Nat /\ \A t \in Places : t \in Nat /\ t <= Len(Types) BY TypesAssumption DEF Places
<1>9. CASE k < Len(Types)
  <2>1. stage' = "loading" /\ type' = k + 1 BY <1>1, <1>9
  <2>2. ASSUME NEW t \in Places PROVE IF t < k + 1 THEN Over(t)' ELSE Ahead(t)'
    <3>1. CASE t = k BY <1>6, <1>8, <3>1
    <3>2. CASE t < k BY <1>4, <1>5, <1>8, <3>2
    <3>3. CASE t # k /\ ~(t < k)
      <4>1. Ahead(t)' BY <1>4, <1>5, <3>3
      <4>2. ~(t < k + 1) BY <1>8, <3>3
      <4> QED BY <4>1, <4>2
    <3> QED BY <3>1, <3>2, <3>3
  <2> QED BY <1>7, <2>1, <2>2 DEF MigrationInv
<1>10. CASE ~(k < Len(Types))
  <2>1. stage' = "done" BY <1>1, <1>10
  <2>2. \A t \in Places : t = k \/ t < k BY <1>8, <1>10, TypesAssumption
  <2>3. \A t \in Places : Over(t)' BY <1>4, <1>5, <1>6, <1>8, <2>2
  <2> QED BY <1>7, <2>1, <2>3 DEF MigrationInv
<1> QED BY <1>9, <1>10

\* A step that only moves the run to another stage, as a call of Qdrant does.
LEMMA StageOnly ==
    ASSUME MigrationInv, MigrationTypes', UNCHANGED <<run, points, summary, type>>,
           stage \in {"listing", "creating"}, stage' \in {"listing", "creating", "loading", "again", "failed"}
    PROVE  MigrationInv'
<1>1. \A t \in Places : (Counted(t)' <=> Counted(t)) /\ (Over(t)' <=> Over(t)) /\ (Ahead(t)' <=> Ahead(t))
  BY StaysSo
<1>2. type' = 1 /\ \A t \in Places : Counted(t) /\ (IF t < type THEN Over(t) ELSE Ahead(t)) BY DEF MigrationInv
<1>3. \A t \in Places : Counted(t)' /\ (IF t < type' THEN Over(t)' ELSE Ahead(t)') BY <1>1, <1>2
<1> QED BY <1>2, <1>3 DEF MigrationInv

\* The points a batch adds are the run's, of the type's records.
LEMMA BatchAdded ==
    ASSUME MigrationInv, stage = "inserting", NEW k \in Places, k = type, run' = run,
           points' = points \cup {Migration!Point(i) : i \in Migration!Batch}
    PROVE  /\ \A t \in Places : t # k => Here(t)' = Here(t)
           /\ Here(k)' = Here(k) \cup {<<run, k, i, 1>> : i \in Migration!Batch}
           /\ Here(k)' \subseteq Written(k, Migration!Records(k))
           /\ points' \in SUBSET ((1..run) \X Places \X Nat \X {1})
           /\ \A n \in Nat : n < next + BatchSize /\ n <= Migration!Records(k) => Written(k, n) \subseteq Here(k)'
<1>1. /\ run \in Nat \ {0} /\ next \in Nat \ {0} /\ UnderWay
      /\ points \in SUBSET ((1..run) \X Places \X Nat \X {1})
  <2>1. type \in Places /\ ~(type < type) BY DEF MigrationInv, MigrationTypes, Places
  <2> QED BY <2>1 DEF MigrationInv, MigrationTypes
<1>2. Migration!Records(k) \in Nat BY RecordsCounted
<1>3. \A i \in Migration!Batch : i \in 1..Migration!Records(k)
  BY <1>1, <1>2, BatchAssumption DEF Migration!Batch
<1> DEFINE added == {<<run, k, i, 1>> : i \in Migration!Batch}
<1>4. points' = points \cup added BY DEF Migration!Point
<1>5. \A p \in added : /\ p[1] = run /\ p[2] = k
                       /\ p \in Written(k, Migration!Records(k))
                       /\ p \in (1..run) \X Places \X Nat \X {1}
  <2>1. ASSUME NEW i \in Migration!Batch
        PROVE  /\ <<run, k, i, 1>> \in Written(k, Migration!Records(k))
               /\ <<run, k, i, 1>> \in (1..run) \X Places \X Nat \X {1}
    BY <1>1, <1>3 DEF Written
  <2> QED BY <2>1
<1>6. ASSUME NEW n \in Nat, n < next + BatchSize, n <= Migration!Records(k), NEW i \in 1..n
      PROVE  <<run, k, i, 1>> \in Here(k) \cup added
  <2>1. CASE i <= next - 1 BY <1>1, <2>1 DEF UnderWay, Written
  <2>2. CASE ~(i <= next - 1)
    <3>1. i \in Migration!Batch BY <1>1, <1>2, <1>6, <2>2, BatchAssumption DEF Migration!Batch
    <3> QED BY <3>1
  <2> QED BY <2>1, <2>2
<1> HIDE DEF added
<1>7. \A t \in Places : t # k => Here(t)' = Here(t) BY <1>4, <1>5 DEF Here, Migration!Of
<1>8. Here(k)' = Here(k) \cup added BY <1>4, <1>5 DEF Here, Migration!Of
<1>9. Here(k)' \subseteq Written(k, Migration!Records(k)) BY <1>1, <1>5, <1>8 DEF UnderWay
<1>10. points' \in SUBSET ((1..run) \X Places \X Nat \X {1}) BY <1>1, <1>4, <1>5
<1>11. \A n \in Nat : n < next + BatchSize /\ n <= Migration!Records(k) => Written(k, n) \subseteq Here(k)'
  BY <1>6, <1>8 DEF Written
<1> QED BY <1>7, <1>8, <1>9, <1>10, <1>11 DEF added

LEMMA MigrationStep == MigrationInv /\ [Migration!Next]_migration => MigrationInv'
<1> SUFFICES ASSUME MigrationInv, [Migration!Next]_migration PROVE MigrationInv' OBVIOUS
<1>0. MigrationTypes BY DEF MigrationInv
<1>1. CASE Migration!GetCollections
  <2>1. CASE stage' \in {"creating", "loading"} /\ UNCHANGED <<run, type, next, summary, points>>
    <3>1. MigrationTypes' BY <1>0, <2>1 DEF MigrationTypes, Stage, Migration!Of
    <3> QED BY <1>1, <2>1, <3>1, StageOnly DEF Migration!GetCollections
  <2>2. CASE UNCHANGED <<stage, run, type, next, summary, points>>
    <3>1. MigrationTypes' BY <1>0, <2>2 DEF MigrationTypes
    <3> QED BY <1>1, <2>2, <3>1, StageOnly DEF Migration!GetCollections
  <2>3. CASE stage' \in {"again", "failed"} /\ UNCHANGED <<run, type, next, summary, points>>
    <3>1. MigrationTypes' BY <1>0, <2>3 DEF MigrationTypes, Stage
    <3> QED BY <1>1, <2>3, <3>1, StageOnly DEF Migration!GetCollections
  <2> QED BY <1>1, <2>1, <2>2, <2>3 DEF Migration!GetCollections, Migration!Retry, Migration!TaskFails
<1>2. CASE Migration!CreateCollection
  <2>1. /\ stage = "creating" /\ stage' \in {"creating", "loading", "again", "failed"}
        /\ UNCHANGED <<run, type, next, summary, points>>
    BY <1>2 DEF Migration!CreateCollection, Migration!Retry, Migration!TaskFails
  <2>2. MigrationTypes' BY <1>0, <2>1 DEF MigrationTypes, Stage
  <2> QED BY <2>1, <2>2, StageOnly
<1>3. CASE Migration!Load
  <2> DEFINE k == type
  <2>1. /\ stage = "loading" /\ next' = 1 /\ UNCHANGED <<collection, points>> /\ k \in Places
        /\ Migration!Records(k) \in Nat
    BY <1>0, <1>3, RecordsCounted DEF Migration!Load, MigrationTypes
  <2>2. Ahead(k) BY <2>1 DEF MigrationInv, Places
  <2>3. CASE Migration!Records(type) > 0 /\ stage' = "inserting" /\ UNCHANGED <<run, type, summary>>
    <3>1. MigrationTypes' BY <1>0, <2>1, <2>3 DEF MigrationTypes, Stage
    <3>2. \A t \in Places : (Counted(t)' <=> Counted(t)) /\ (Over(t)' <=> Over(t)) /\ (Ahead(t)' <=> Ahead(t))
      BY <2>1, <2>3, StaysSo
    <3>3. \A t \in Places : Counted(t) /\ (IF t < type THEN Over(t) ELSE Ahead(t)) BY <2>1 DEF MigrationInv
    <3>4. UnderWay'
      <4>1. summary[type] = Blank /\ Here(type) = {} BY <2>2 DEF Ahead
      <4>2. /\ summary'[type'] = Blank' /\ Here(type)' = {}
        BY <2>1, <2>3, <4>1 DEF Blank, Here, Migration!Of
      <4>3. next' = 1 /\ next' <= Migration!Records(type)' /\ Written(type, next - 1)' = {}
        BY <2>1, <2>3 DEF Written, Migration!Records
      <4> QED BY <4>2, <4>3 DEF UnderWay
    <3> QED BY <2>3, <3>1, <3>2, <3>3, <3>4 DEF MigrationInv
  <2>4. ASSUME NEW s \in [migrated : Nat, error : BOOLEAN], Migration!TypeDone(s), s.migrated = 0,
               ~s.error => Migration!Records(type) = 0
        PROVE  MigrationInv'
    <3>1. MigrationTypes' BY <1>0, <2>1, <2>4, TypesAssumption DEF MigrationTypes, Migration!TypeDone, Stage, Places
    <3>2. run' = run /\ \A t \in Places : Here(t)' = Here(t)
      BY <2>1, <2>4 DEF Here, Migration!Of, Migration!TypeDone
    <3>3. ASSUME NEW j \in Places, j = type, Migration!Records(j) = 0 PROVE Copied(j)'
      <4>1. Here(j)' = {} BY <2>2, <3>2, <3>3 DEF Ahead
      <4>2. Written(j, Migration!Records(j))' = {} BY <3>3 DEF Written, Migration!Records
      <4> QED BY <4>1, <4>2 DEF Copied
    <3>4. PICK j \in Places : j = type BY <2>1
    <3>5. ~s.error => Copied(j)' BY <2>4, <3>3, <3>4
    <3>6. ~(s.migrated > 0) BY <2>4
    <3> HIDE DEF k
    <3> QED BY <2>1, <2>4, <3>1, <3>2, <3>4, <3>5, <3>6, TypeEnds
  <2> QED
    <3>1. Migration!TypeDone(Blank) /\ Migration!Records(type) = 0 => MigrationInv' BY <2>4 DEF Blank
    <3>2. Migration!TypeDone([migrated |-> 0, error |-> TRUE]) => MigrationInv' BY <2>4
    <3> QED BY <1>3, <2>3, <3>1, <3>2 DEF Migration!Load, Blank
<1>4. CASE Migration!Upsert
  <2>1. PICK k \in Places : k = type BY <1>0 DEF MigrationTypes
  <2>2. /\ stage = "inserting" /\ run' = run
        /\ points' = points \cup {Migration!Point(i) : i \in Migration!Batch}
    BY <1>4 DEF Migration!Upsert, Migration!TypeDone
  <2>3. /\ next \in Nat \ {0} /\ UnderWay /\ Migration!Records(k) \in Nat
        /\ \A t \in Places : Counted(t) /\ (t < type => Over(t)) /\ (~(t < type) /\ t # type => Ahead(t))
    BY <1>0, <2>1, <2>2, RecordsCounted DEF MigrationInv, MigrationTypes, Places
  <2>4. /\ \A t \in Places : t # k => Here(t)' = Here(t)
        /\ Here(k)' \subseteq Written(k, Migration!Records(k))
        /\ points' \in SUBSET ((1..run) \X Places \X Nat \X {1})
        /\ \A n \in Nat : n < next + BatchSize /\ n <= Migration!Records(k) => Written(k, n) \subseteq Here(k)'
    BY <2>1, <2>2, BatchAdded
  <2>5. CASE next + BatchSize <= Migration!Records(type)
    <3>1. next' = next + BatchSize /\ UNCHANGED <<stage, run, type, summary>>
      BY <1>4, <2>5 DEF Migration!Upsert
    <3>2. MigrationTypes' BY <1>0, <2>3, <2>4, <3>1, BatchAssumption DEF MigrationTypes
    <3>3. ASSUME NEW t \in Places, t # k
          PROVE  (Counted(t)' <=> Counted(t)) /\ (Over(t)' <=> Over(t)) /\ (Ahead(t)' <=> Ahead(t))
      <4>1. Migration!Records(t)' = Migration!Records(t) BY DEF Migration!Records
      <4>2. Written(t, Migration!Records(t))' = Written(t, Migration!Records(t)) BY <3>1, <4>1 DEF Written
      <4> QED BY <2>4, <3>1, <3>3, <4>1, <4>2 DEF Counted, Over, Ahead, Copied, Blank
    <3>4. Counted(k)' /\ UnderWay'
      <4>1. summary'[k] = Blank BY <2>1, <2>3, <3>1 DEF UnderWay
      <4>2. Counted(k)'
        <5>1. summary'[k].migrated = 0 BY <4>1 DEF Blank
        <5> QED BY <5>1 DEF Counted
      <4>3. next' - 1 \in Nat /\ next' - 1 < next + BatchSize /\ next' - 1 <= Migration!Records(k)
            /\ next' <= Migration!Records(k)
        BY <2>1, <2>3, <2>5, <3>1, BatchAssumption
      <4>4. Written(k, next' - 1) \subseteq Here(k)' BY <2>4, <4>3
      <4>5. type' = k /\ Migration!Records(type)' = Migration!Records(k) BY <2>1, <3>1 DEF Migration!Records
      <4>6. /\ Written(type, next - 1)' = Written(k, next' - 1)
            /\ Written(type, Migration!Records(type))' = Written(k, Migration!Records(k))
            /\ Here(type)' = Here(k)'
        BY <3>1, <4>5 DEF Written, Here, Migration!Of
      <4> QED BY <2>4, <4>1, <4>2, <4>3, <4>4, <4>5, <4>6 DEF UnderWay, Blank
    <3>5. \A t \in Places : Counted(t)' BY <2>3, <3>3, <3>4
    <3>6. \A t \in Places : IF t < type' THEN Over(t)' ELSE IF t = type' THEN UnderWay' ELSE Ahead(t)'
      <4>1. ASSUME NEW t \in Places PROVE IF t < type' THEN Over(t)' ELSE IF t = type' THEN UnderWay' ELSE Ahead(t)'
        <5>1. CASE t = k BY <2>1, <3>1, <3>4, <5>1 DEF Places
        <5>2. CASE t # k BY <2>1, <2>3, <3>1, <3>3, <5>2
        <5> QED BY <5>1, <5>2
      <4> QED BY <4>1
    <3> QED BY <2>2, <3>1, <3>2, <3>5, <3>6 DEF MigrationInv
  <2>6. CASE ~(next + BatchSize <= Migration!Records(type))
    <3> DEFINE s == [migrated |-> Migration!Records(k), error |-> FALSE]
    <3>1. Migration!TypeDone(s) /\ UNCHANGED next BY <1>4, <2>1, <2>6 DEF Migration!Upsert
    <3>2. s \in [migrated : Nat, error : BOOLEAN] BY <2>3
    <3>3. MigrationTypes'
      BY <1>0, <2>4, <3>1, <3>2, TypesAssumption DEF MigrationTypes, Migration!TypeDone, Stage, Places
    <3>4. Written(k, Migration!Records(k)) \subseteq Here(k)' BY <2>1, <2>3, <2>4, <2>6, BatchAssumption
    <3>5. Copied(k)'
      <4>1. Written(k, Migration!Records(k))' = Written(k, Migration!Records(k))
        BY <2>2 DEF Written, Migration!Records
      <4> QED BY <2>4, <3>4, <4>1 DEF Copied
    <3>6. s.migrated = Migration!Records(k) OBVIOUS
    <3> HIDE DEF s
    <3> QED BY <2>1, <2>2, <2>4, <3>1, <3>2, <3>3, <3>5, <3>6, TypeEnds
  <2> QED BY <2>5, <2>6
<1>5. CASE Migration!UpsertFails
  <2>1. PICK k \in Places : k = type BY <1>0 DEF MigrationTypes
  <2>2. /\ stage = "inserting" /\ run' = run /\ next' = next
        /\ points' = points \/ points' = points \cup {Migration!Point(i) : i \in Migration!Batch}
    BY <1>5 DEF Migration!UpsertFails, Migration!Retry, Migration!TypeDone
  <2>3. /\ UnderWay /\ next \in Nat \ {0} /\ Migration!Records(k) \in Nat
        /\ \A t \in Places : Counted(t) /\ (t < type => Over(t)) /\ (~(t < type) /\ t # type => Ahead(t))
    BY <1>0, <2>1, <2>2, RecordsCounted DEF MigrationInv, MigrationTypes, Places
  <2>4. /\ \A t \in Places : t # k => Here(t)' = Here(t)
        /\ Here(k) \subseteq Here(k)' /\ Here(k)' \subseteq Written(k, Migration!Records(k))
        /\ points' \in SUBSET ((1..run) \X Places \X Nat \X {1})
    <3>1. CASE points' = points
      <4>1. \A t \in Places : Here(t)' = Here(t) BY <2>2, <3>1 DEF Here, Migration!Of
      <4> QED BY <1>0, <2>1, <2>3, <3>1, <4>1 DEF UnderWay, MigrationTypes
    <3>2. CASE points' = points \cup {Migration!Point(i) : i \in Migration!Batch}
      BY <2>1, <2>2, <3>2, BatchAdded
    <3> QED BY <2>2, <3>1, <3>2
  <2>5. CASE UNCHANGED <<stage, type, summary>>
    <3>1. MigrationTypes' BY <1>0, <2>2, <2>4, <2>5 DEF MigrationTypes
    <3>2. ASSUME NEW t \in Places, t # k
          PROVE  (Counted(t)' <=> Counted(t)) /\ (Over(t)' <=> Over(t)) /\ (Ahead(t)' <=> Ahead(t))
      <4>1. Migration!Records(t)' = Migration!Records(t) BY DEF Migration!Records
      <4>2. Written(t, Migration!Records(t))' = Written(t, Migration!Records(t)) BY <2>2, <4>1 DEF Written
      <4> QED BY <2>4, <2>5, <3>2, <4>1, <4>2 DEF Counted, Over, Ahead, Copied, Blank
    <3>3. Counted(k)' /\ UnderWay'
      <4>1. summary'[k] = Blank BY <2>1, <2>3, <2>5 DEF UnderWay
      <4>2. Counted(k)'
        <5>1. summary'[k].migrated = 0 BY <4>1 DEF Blank
        <5> QED BY <5>1 DEF Counted
      <4>3. type' = k /\ Migration!Records(type)' = Migration!Records(k) BY <2>1, <2>5 DEF Migration!Records
      <4>4. /\ Written(type, next - 1)' = Written(k, next - 1)
            /\ Written(type, Migration!Records(type))' = Written(k, Migration!Records(k))
            /\ Here(type)' = Here(k)'
        BY <2>2, <4>3 DEF Written, Here, Migration!Of
      <4> QED BY <2>1, <2>2, <2>3, <2>4, <4>1, <4>2, <4>3, <4>4 DEF UnderWay, Blank
    <3>4. \A t \in Places : Counted(t)' BY <2>3, <3>2, <3>3
    <3>5. ASSUME NEW t \in Places PROVE IF t < type' THEN Over(t)' ELSE IF t = type' THEN UnderWay' ELSE Ahead(t)'
      <4>1. CASE t = k BY <2>1, <2>5, <3>3, <4>1 DEF Places
      <4>2. CASE t # k BY <2>1, <2>3, <2>5, <3>2, <4>2
      <4> QED BY <4>1, <4>2
    <3> QED BY <2>2, <2>5, <3>1, <3>4, <3>5 DEF MigrationInv
  <2>6. CASE Migration!TypeDone([migrated |-> 0, error |-> TRUE])
    <3> DEFINE s == [migrated |-> 0, error |-> TRUE]
    <3>1. s \in [migrated : Nat, error : BOOLEAN] /\ ~(s.migrated > 0) /\ s.error OBVIOUS
    <3>2. MigrationTypes'
      BY <1>0, <2>2, <2>4, <2>6, TypesAssumption DEF MigrationTypes, Migration!TypeDone, Stage, Places
    <3>3. Migration!TypeDone(s) BY <2>6
    <3> HIDE DEF s
    <3> QED BY <2>1, <2>2, <2>4, <3>1, <3>2, <3>3, TypeEnds
  <2> QED BY <1>5, <2>5, <2>6 DEF Migration!UpsertFails, Migration!Retry
<1>6. CASE Migration!Crash
  <2>1. stage' = "again" /\ UNCHANGED <<run, type, next, points, summary>> BY <1>6 DEF Migration!Crash
  <2>2. MigrationTypes' BY <1>0, <2>1 DEF MigrationTypes, Stage
  <2>3. \A t \in Places : Counted(t)' <=> Counted(t) BY <2>1, StaysSo
  <2> QED BY <2>1, <2>2, <2>3 DEF MigrationInv
<1>7. CASE Migration!Again
  <2>1. /\ stage' = "listing" /\ run' = run + 1 /\ type' = 1 /\ next' = 1
        /\ summary' = [t \in Places |-> Blank] /\ points' = points
    BY <1>7 DEF Migration!Again, Migration!NoSummary, Places, Blank
  <2>2. run \in Nat \ {0} /\ points \in SUBSET ((1..run) \X Places \X Nat \X {1}) BY <1>0 DEF MigrationTypes
  <2>3. \A p \in points : p \in (1..run + 1) \X Places \X Nat \X {1} /\ p[1] # run + 1
    <3>1. \A j \in 1..run : j \in 1..run + 1 /\ j # run + 1 BY <2>2
    <3> QED BY <2>2, <3>1
  <2>4. MigrationTypes'
    <3>1. points' \in SUBSET ((1..run') \X Places \X Nat \X {1}) BY <2>1, <2>3
    <3>2. summary' \in [Places -> [migrated : Nat, error : BOOLEAN]] BY <2>1 DEF Blank
    <3>3. type' \in Places BY <2>1, TypesAssumption DEF Places
    <3> QED BY <2>1, <2>2, <3>1, <3>2, <3>3 DEF MigrationTypes, Stage
  <2>5. ASSUME NEW t \in Places PROVE Ahead(t)' /\ Counted(t)' /\ ~(t < type')
    <3>1. Here(t)' = {} BY <2>1, <2>3 DEF Here, Migration!Of
    <3>2. summary'[t] = Blank /\ Blank' = Blank BY <2>1 DEF Blank
    <3>3. summary'[t].migrated = 0 BY <3>2 DEF Blank
    <3> QED BY <2>1, <3>1, <3>2, <3>3 DEF Ahead, Counted, Places
  <2> QED BY <2>1, <2>4, <2>5 DEF MigrationInv
<1>8. CASE UNCHANGED migration
  <2>1. UNCHANGED <<stage, run, type, next, points, summary>> BY <1>8 DEF migration
  <2>2. MigrationTypes' BY <1>0, <2>1 DEF MigrationTypes
  <2>3. \A t \in Places : (Counted(t)' <=> Counted(t)) /\ (Over(t)' <=> Over(t)) /\ (Ahead(t)' <=> Ahead(t))
    BY <2>1, StaysSo
  <2>4. UnderWay' <=> UnderWay
    BY <2>1 DEF UnderWay, Here, Written, Blank, Migration!Of, Migration!Records
  <2> QED BY <2>1, <2>2, <2>3, <2>4 DEF MigrationInv
<1> QED BY <1>1, <1>2, <1>3, <1>4, <1>5, <1>6, <1>7, <1>8 DEF Migration!Next

THEOREM MigrationInductive == Migration!Spec => []MigrationInv
BY MigrationInit, MigrationStep, PTL DEF Migration!Spec, Migration!vars, migration

\* A summary counts what is there, for any files, batches, attempts and runs
\* (qdrant_store.py:33-51, 207-232, migration.py:124-138).
THEOREM SummaryExactAlways == Migration!Spec => []SummaryExact
<1>1. MigrationInv => SummaryExact
  <2> SUFFICES ASSUME MigrationInv, NEW t \in 1..Len(Types)
               PROVE  /\ summary[t].migrated > 0 => Migration!Cardinality(Migration!Of(run, t)) = summary[t].migrated
                      /\ stage = "done" /\ ~summary[t].error =>
                            Migration!Cardinality(Migration!Of(run, t)) = Migration!Records(t)
    BY DEF SummaryExact, Migration!SummaryExact
  <2>1. t \in Places /\ Migration!Records(t) \in Nat BY RecordsCounted DEF Places
  <2>2. Copied(t) => Cardinality(Migration!Of(run, t)) = Migration!Records(t)
    BY <2>1, WrittenCount DEF Copied, Here
  <2>3. Migration!Cardinality(Migration!Of(run, t)) = Cardinality(Migration!Of(run, t))
    BY DEF Migration!Cardinality, Cardinality
  <2> QED BY <2>1, <2>2, <2>3 DEF MigrationInv, Counted, Over
<1> QED BY <1>1, MigrationInductive, PTL
=============================================================================
