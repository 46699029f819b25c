---------------------------- MODULE MCKnowledge ----------------------------
(* Small instances of the parts of Knowledge.  A behaviour is one of one of    *)
(* them, the others staying as they are at first.                              *)
EXTENDS Knowledge

CONSTANTS p1, p2, d1, d2, d3, w1, w2, r1

----------------------------------------------------------------------------
(* RagIndex: two processes; a document in four chunks, the third of them       *)
(* suspect, one in one chunk, and one whose first chunk is rejected.           *)
MCProcs == {p1, p2}
MCDocs  == {d1, d2, d3}

S(words, score) == [words |-> words, score |-> score]
MCText == [d \in MCDocs |->
    CASE d = d1 -> <<S(1, 0), S(1, 0), S(2, 1), S(1, 0)>>
      [] d = d2 -> <<S(2, 0)>>
      [] d = d3 -> <<S(2, 2), S(1, 0)>>]

----------------------------------------------------------------------------
(* UnifiedMemory: two interactions of one session, the second remembered in    *)
(* the profile too, and one that reads; the second's relationship is trusted.  *)
MCStores  == {w1, w2}
MCReaders == {r1}
MCSession == [c \in {w1, w2, r1} |-> "s"]
MCRemembered == {w2}
MCSaid    == [c \in MCStores |-> IF c = w1 THEN "a" ELSE "b"]
MCRelated == [c \in MCStores |-> IF c = w1 THEN "c" ELSE "d"]
MCTrust   == [c \in MCStores |-> IF c = w1 THEN 5 ELSE 8]

----------------------------------------------------------------------------
(* VectorMigration: a type with more vectors than records and one with fewer. *)
MCTypes    == <<"episodic", "semantic">>
MCMemories == [t \in {"episodic", "semantic"} |-> 3]
MCVectors  == [t \in {"episodic", "semantic"} |-> IF t = "episodic" THEN 4 ELSE 2]

----------------------------------------------------------------------------

MCInit == Init /\ Memory!Init /\ Migration!Init

\* UnifiedMemory goes on until the read is over, as its properties say nothing new after
\* it, and with one call spoilt: FoundWasSaid is about a reader and a store that are not.
ReadOver == at[r1] \in {"done", "cancelled"}
MaxSpoilt == 1

MCNext ==
    \/ Memory!Init /\ Migration!Init /\ Next /\ UNCHANGED <<memory, migration>>
    \/ Init /\ Migration!Init /\ ~ReadOver /\ Memory!Next /\ Cardinality(spoilt') <= MaxSpoilt
       /\ UNCHANGED <<vars, migration>>
    \/ Init /\ Memory!Init /\ Migration!Next /\ UNCHANGED <<vars, memory>>

MCSpec == MCInit /\ [][MCNext]_<<vars, memory, migration>>
=============================================================================
