------------------------------- MODULE Stores -------------------------------
(***************************************************************************)
(* What is stored of the answers that were given: the semantic cache in    *)
(* Redis (SemanticCache) and the long-term memory in FAISS's files         *)
(* (FaissStore).  The two share no state.                                  *)
(***************************************************************************)
EXTENDS SemanticCache, Sequences

CONSTANTS Requests, Indexers, Maintainers, Text, Batch, Similar,
          MaxAttempts, MaxFaults, Missing, Torn
VARIABLES indexFile, metaFile, vecs, recs, pc, goal, attempts, faults, clash,
          spoiled, suspect, overlap, saved

Faiss == INSTANCE FaissStore

store == <<indexFile, metaFile, vecs, recs, pc, goal, attempts, faults, clash,
           spoiled, suspect, overlap, saved>>

ASSUME BatchAssumption ==
    /\ Batch \in [Faiss!Writers -> Seq(Text)]
    /\ \A s \in Faiss!Writers : Faiss!IsInjective(Batch[s])
ASSUME KindsAssumption == Requests \cap Indexers = {} /\ Faiss!Writers \cap Maintainers = {}
ASSUME FileAssumption == Missing # Torn /\ {Missing, Torn} \cap Seq(Text) = {}
ASSUME WritersAssumption == IsFiniteSet(Faiss!Writers) /\ MaxAttempts \in Nat \ {0}
\* Cosine similarity is symmetric.
ASSUME SimilarAssumption == \A x, y \in Text : <<x, y>> \in Similar => <<y, x>> \in Similar

----------------------------------------------------------------------------

\* Of FaissStore: each vector is paired with its own record.
Aligned == Faiss!Aligned

\* Of FaissStore: a text is lost to the save of a store that could not have it, and to
\* nothing else.
LostOnlyToOverlap == Faiss!LostOnlyToOverlap

\* Of FaissStore: a text is there once for every time it was inserted, at most.
CopiesBounded == Faiss!CopiesBounded

\* Of FaissStore: maintenance removes duplicates, all of them, and nothing else.
DuplicatesOnlyRemoved == Faiss!DuplicatesOnlyRemoved
=============================================================================
