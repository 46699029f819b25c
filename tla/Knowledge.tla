----------------------------- MODULE Knowledge -----------------------------
(***************************************************************************)
(* What the assistant knows, beside the prompt at hand: the index of       *)
(* uploaded documents (RagIndex), unified memory (UnifiedMemory) and the   *)
(* migration of vector memory (VectorMigration).  The three share no       *)
(* state.                                                                  *)
(***************************************************************************)
EXTENDS RagIndex

CONSTANTS Stores, Readers, Session, Remembered, Said, Related, Trust, Threshold, Limit
VARIABLES at, recent, history, vector, kg, snap, earlier, spoilt

Memory == INSTANCE UnifiedMemory WITH pc <- at

CONSTANTS Types, Memories, Vectors, BatchSize, Attempts, MaxRuns
VARIABLES stage, run, type, next, attempt, collection, points, summary

Migration == INSTANCE VectorMigration WITH pc <- stage

memory    == <<at, recent, history, vector, kg, snap, earlier, spoilt>>
migration == <<stage, run, type, next, attempt, collection, points, summary>>

ASSUME CallsAssumption == Stores \cap Readers = {}
ASSUME TrustAssumption == Trust \in [Stores -> 0..10]
ASSUME LimitAssumption == Limit \in Nat \ {0}

ASSUME TypesAssumption ==
    /\ Len(Types) \in Nat \ {0}
    /\ \A t \in 1..Len(Types) : Memories[Types[t]] \in Nat /\ Vectors[Types[t]] \in Nat
ASSUME BatchAssumption == BatchSize \in Nat \ {0}

----------------------------------------------------------------------------

\* Of UnifiedMemory: what a snapshot finds of its session was said in it.
FoundWasSaid == Memory!FoundWasSaid

\* Of UnifiedMemory: the highest fit source wins.
AuthorityKept == Memory!AuthorityKept

\* Of VectorMigration: a summary counts what is there.
SummaryExact == Migration!SummaryExact
=============================================================================
