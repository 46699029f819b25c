---------------------------- MODULE UnifiedMemory ----------------------------
(***************************************************************************)
(* One UnifiedMemoryController (app/memory/memory_controller.py) over      *)
(* conversation memory (a Redis list that expires before a Postgres        *)
(* table), vector memory and graph memory, and the resolver of their       *)
(* disagreements (app/memory/authority.py).                                *)
(*                                                                         *)
(* Facts are about one key, as different keys are resolved apart.  Each    *)
(* interaction's question states a value for it, and its extracted         *)
(* relationship another or the same, with some trust.                      *)
(***************************************************************************)
EXTENDS Naturals, Sequences, SequencesExt, FiniteSetsExt, Functions

CONSTANTS
    Stores,      \* calls of store_interaction
    Readers,     \* calls of get_unified_context
    Session,     \* of each
    Remembered,  \* stores whose question goes to the profile too
    Said,        \* the value each interaction's question states
    Related,     \* the value of its relationship
    Trust,       \* that relationship's trust_score, in tenths
    Threshold,   \* KG_CONFIDENCE_THRESHOLD, in tenths
    Limit        \* conversation_limit, in messages

VARIABLES
    pc,       \* where each call is
    recent,   \* of each session: the messages in its Redis list, in order
    history,  \* of each session: the messages in its table, in order
    vector,   \* interactions in each memory of the retriever
    kg,       \* interactions whose relationship is in the graph
    snap,     \* what each reader has fetched, layer by layer
    earlier,  \* the stores of its session that had ended when a store began
    spoilt    \* calls one of whose layers failed or that were cancelled

vars == <<pc, recent, history, vector, kg, snap, earlier, spoilt>>

Calls == Stores \cup Readers
Sessions == {Session[c] : c \in Calls}

\* What a call that holds its session's lock is waiting for.
Inside == {"user", "assistant", "recent", "history", "episodic", "profile"}

\* Nothing is ever added to the third memory, "semantic".
TopK == [episodic |-> 2, profile |-> 1]

NoSnapshot == [conversation |-> <<>>, vector |-> <<>>, kg |-> <<>>]

Init ==
    /\ pc = [c \in Calls |-> "new"]
    /\ recent = [s \in Sessions |-> <<>>]
    /\ history = [s \in Sessions |-> <<>>]
    /\ vector = [m \in DOMAIN TopK |-> {}]
    /\ kg = {}
    /\ snap = [r \in Readers |-> NoSnapshot]
    /\ earlier = [c \in Stores |-> {}]
    /\ spoilt = {}

----------------------------------------------------------------------------
(* The session's lock *)

Free(s) == \A c \in Calls : Session[c] = s => pc[c] \notin Inside

Ended(s) == {c \in Stores : Session[c] = s /\ pc[c] \in {"done", "cancelled"}}

BeginStore(c) ==
    /\ c \in Stores /\ pc[c] = "new" /\ Free(Session[c])
    /\ pc' = [pc EXCEPT ![c] = "user"]
    /\ earlier' = [earlier EXCEPT ![c] = Ended(Session[c])]
    /\ UNCHANGED <<recent, history, vector, kg, snap, spoilt>>

\* Mutant: a reader does not wait for the lock.
BeginReadUnlocked(r) ==
    /\ r \in Readers /\ pc[r] = "new"
    /\ pc' = [pc EXCEPT ![r] = "recent"]
    /\ UNCHANGED <<recent, history, vector, kg, snap, earlier, spoilt>>

BeginRead(r) ==
    /\ r \in Readers /\ pc[r] = "new" /\ Free(Session[r])
    /\ pc' = [pc EXCEPT ![r] = "recent"]
    /\ UNCHANGED <<recent, history, vector, kg, snap, earlier, spoilt>>

----------------------------------------------------------------------------
(* store_interaction: one layer after the other, whatever happens to each *)

Message(c, role) == [of |-> c, role |-> role]

\* A message goes to the list and then to the table, both of which swallow their
\* failures.  One step, as the lock keeps everyone else out of the session.
AddMessage(c) ==
    LET Added(layer) == [layer EXCEPT ![Session[c]] = Append(@, Message(c, pc[c]))]
    IN  /\ pc[c] \in {"user", "assistant"}
        /\ pc' = [pc EXCEPT ![c] = IF @ = "user" THEN "assistant" ELSE "episodic"]
        /\ \/ /\ recent' = Added(recent) /\ history' = Added(history)
              /\ UNCHANGED spoilt
           \/ /\ \/ recent' = Added(recent) /\ UNCHANGED history
                 \/ history' = Added(history) /\ UNCHANGED recent
                 \/ UNCHANGED <<recent, history>>
              /\ spoilt' = spoilt \cup {c}
        /\ UNCHANGED <<vector, kg, snap, earlier>>

\* add_data has the relationship appended unless the graph has it.  It comes with the
\* end of the last await, whatever that brought.
EndStore(c) ==
    /\ pc' = [pc EXCEPT ![c] = "done"]
    /\ \/ UNCHANGED kg
       \/ (\A d \in kg : Related[d] # Related[c]) /\ kg' = kg \cup {c}

Remember(c, memory) == vector' = [vector EXCEPT ![memory] = @ \cup {c}]

\* A write that raises may have been done.
Refuse(c, memory) == (Remember(c, memory) \/ UNCHANGED vector) /\ spoilt' = spoilt \cup {c}

StoreEpisodic(c) ==
    /\ c \in Stores /\ pc[c] = "episodic"
    /\ \/ /\ c \in Remembered
          /\ pc' = [pc EXCEPT ![c] = "profile"]
          /\ Remember(c, "episodic")
          /\ UNCHANGED <<kg, spoilt>>
       \/ c \notin Remembered /\ Remember(c, "episodic") /\ EndStore(c) /\ UNCHANGED spoilt
       \/ Refuse(c, "episodic") /\ EndStore(c)
    /\ UNCHANGED <<recent, history, snap, earlier>>

StoreProfile(c) ==
    /\ c \in Stores /\ pc[c] = "profile"
    /\ \/ Remember(c, "profile") /\ UNCHANGED spoilt
       \/ Refuse(c, "profile")
    /\ EndStore(c)
    /\ UNCHANGED <<recent, history, snap, earlier>>

----------------------------------------------------------------------------
(* get_unified_context: a layer that fails counts for empty *)

Latest(s, n) == IF Len(s) <= n THEN s ELSE SubSeq(s, Len(s) - n + 1, Len(s))

\* The list if it has anything and Redis answers.
FetchRecent(r) ==
    /\ pc[r] = "recent"
    /\ \/ /\ recent[Session[r]] # <<>>
          /\ snap' = [snap EXCEPT ![r].conversation = Latest(recent[Session[r]], Limit)]
          /\ pc' = [pc EXCEPT ![r] = "episodic"]
       \/ /\ pc' = [pc EXCEPT ![r] = "history"]
          /\ UNCHANGED snap
    /\ UNCHANGED <<recent, history, vector, kg, earlier, spoilt>>

FetchHistory(r) ==
    /\ pc[r] = "history"
    /\ pc' = [pc EXCEPT ![r] = "episodic"]
    /\ \/ /\ snap' = [snap EXCEPT ![r].conversation = Latest(history[Session[r]], Limit)]
          /\ UNCHANGED spoilt
       \/ UNCHANGED snap /\ spoilt' = spoilt \cup {r}
    /\ UNCHANGED <<recent, history, vector, kg, earlier>>

\* What a search for k may find, in any order of scores: which are near the query is
\* not modelled.
Found(S, k) == {q \in SeqOf(S, k) : IsInjective(q)}

\* The graph is asked for what the query's words name, and the facts are resolved,
\* before anyone else moves.
EndFetch(r, context) ==
    /\ pc' = [pc EXCEPT ![r] = "done"]
    /\ \E asked \in Found(kg, Cardinality(kg)) :
          snap' = [snap EXCEPT ![r].vector = context, ![r].kg = asked]

\* A search that raises loses what the others found.
SearchFails(r) == EndFetch(r, <<>>) /\ spoilt' = spoilt \cup {r}

SearchEpisodic(r) ==
    /\ r \in Readers /\ pc[r] = "episodic"
    /\ \/ /\ \E found \in Found(vector["episodic"], TopK["episodic"]) :
                snap' = [snap EXCEPT ![r].vector = found]
          /\ pc' = [pc EXCEPT ![r] = "profile"]
          /\ UNCHANGED spoilt
       \/ SearchFails(r)
    /\ UNCHANGED <<recent, history, vector, kg, earlier>>

\* The profile's memories are told first.
SearchProfile(r) ==
    /\ r \in Readers /\ pc[r] = "profile"
    /\ \/ /\ \E found \in Found(vector["profile"], TopK["profile"]) :
                EndFetch(r, found \o snap[r].vector)
          /\ UNCHANGED spoilt
       \/ SearchFails(r)
    /\ UNCHANGED <<recent, history, vector, kg, earlier>>

\* The caller is cancelled: `async with` releases the lock.
Cancel(c) ==
    /\ pc[c] \in Inside
    /\ pc' = [pc EXCEPT ![c] = "cancelled"]
    /\ spoilt' = spoilt \cup {c}
    /\ UNCHANGED <<recent, history, vector, kg, snap, earlier>>

\* An hour after the last message Redis drops the list, at once if it is restarted.
Expire(s) ==
    /\ recent[s] # <<>>
    /\ recent' = [recent EXCEPT ![s] = <<>>]
    /\ UNCHANGED <<pc, history, vector, kg, snap, earlier, spoilt>>

Next ==
    \/ \E c \in Calls :
          \/ BeginStore(c) \/ AddMessage(c) \/ StoreEpisodic(c) \/ StoreProfile(c)
          \/ BeginRead(c) \/ FetchRecent(c) \/ FetchHistory(c) \/ SearchEpisodic(c) \/ SearchProfile(c)
          \/ Cancel(c)
    \/ \E s \in Sessions : Expire(s)

Spec == Init /\ [][Next]_vars

----------------------------------------------------------------------------
(* The resolver *)

\* MemorySource, in the order of its values.
Vector == 1
Graph  == 2
Conversation == 3

\* A fact at a place of the list of all.
Fact(value, source, time, confidence, place) ==
    [value |-> value, source |-> source, time |-> time, confidence |-> confidence, place |-> place]

\* _extract_all_facts.  Of the conversation the user's messages, which have one time;
\* the others' facts are stamped as they are made.
Facts(s) ==
    LET l == Len(s.conversation)
        n == Len(s.vector)
        users == {i \in 1..l : s.conversation[i].role = "user"}
    IN       {Fact(Said[s.conversation[i].of], Conversation, 0, 10, i) : i \in users}
        \cup {Fact(Said[s.vector[i]], Vector, i, 7, l + i) : i \in 1..n}
        \cup {Fact(Related[s.kg[i]], Graph, n + i, Trust[s.kg[i]], l + n + i) : i \in 1..Len(s.kg)}

\* The key facts are sorted by; the sort is stable, reversed too.
Above(x, y) ==
    \/ x.source > y.source
    \/ x.source = y.source /\ x.time > y.time
    \/ x.source = y.source /\ x.time = y.time /\ x.confidence > y.confidence
    \/ x.source = y.source /\ x.time = y.time /\ x.confidence = y.confidence /\ x.place < y.place

\* _pick_winner
Winner(facts) == CHOOSE x \in facts : \A y \in facts : ~Above(y, x)

Trusted(fact) == fact.source # Graph \/ fact.confidence >= Threshold

\* Mutant: no fact is left out.
ResolvedAny(facts) == IF facts = {} THEN {} ELSE {Winner(facts)}

\* resolve_all, as a set of at most one fact.
Resolved(facts) ==
    LET qualified == {x \in facts : Trusted(x)}
    IN  IF qualified = {} THEN {} ELSE {Winner(qualified)}

\* detect_conflicts: the winner of a conflict, of which there is none if all agree.
ConflictWinner(facts) ==
    IF Cardinality({x.value : x \in facts}) > 1 THEN {Winner(facts)} ELSE {}

----------------------------------------------------------------------------
(* Properties *)

Members(s) == {s[i] : i \in 1..Len(s)}

\* Conversation q has both messages of c, or has been cut behind c.
SaidOrCut(c, q) ==
    \/ {Message(c, "user"), Message(c, "assistant")} \subseteq Members(q)
    \/ q # <<>> /\ \A m \in Members(q) : m.of = c \/ c \in earlier[m.of]

\* "Per-session locks to prevent inconsistent reads" (memory_controller.py:71): an
\* interaction of the session that a snapshot finds in vector memory or the graph is in
\* its conversation too, question and answer, or is older than all of that, as cut off
\* by the limit or by the list's expiry.  However stores, reads, cancellations and
\* expiry of several sessions overlap, unless one of the interaction's layers or the
\* reader's failed.
FoundWasSaid ==
    \A r \in Readers \ spoilt : pc[r] = "done" =>
        \A c \in (Members(snap[r].vector) \cup Members(snap[r].kg)) \ spoilt :
            Session[c] = Session[r] => SaidOrCut(c, snap[r].conversation)

\* Whatever was fetched and in whatever order, the fact a snapshot presents as
\* resolved is one that is fit, no graph fact below the threshold, and comes from the
\* highest authority among those; if none is fit there is none.  And the winner its
\* conflict names is another fact only if it is unfit (authority.py:190-301).
AuthorityKept ==
    \A r \in Readers : pc[r] = "done" =>
        LET facts == Facts(snap[r])
            fit   == {x \in facts : x.source = Graph => x.confidence >= Threshold}
        IN  /\ Resolved(facts) \subseteq fit
            /\ fit # {} => \E x \in Resolved(facts) : \A y \in fit : x.source >= y.source
            /\ ConflictWinner(facts) \cap fit \subseteq Resolved(facts)

=============================================================================
