--------------------------- MODULE PromptEvolution ---------------------------
(***************************************************************************)
(* One prompt's versions and what a score does to them:                    *)
(* PromptEvolutionManager (app/prompts/evolution/manager.py) on the models *)
(* of app/prompts/evolution/models.py.  Module Turn holds the file and the *)
(* copies of it that requests work on.                                     *)
(*                                                                         *)
(* A score is 0 or 1; an average is kept as the sum of the scores and      *)
(* their number.                                                           *)
(***************************************************************************)
EXTENDS Integers, FiniteSets

CONSTANTS
    PromoteAfter,  \* scores a candidate needs before it is judged (5)
    MutateAfter,   \* scores the active version needs before it is replaced (10)
    MaxVersions    \* bound: versions of the prompt

NoVersion == 0
VersionIds == 1..MaxVersions

NewVersion(parent) == [sum |-> 0, hits |-> 0, parent |-> parent]

\* initialize_prompt
Fresh == [versions |-> [v \in {1} |-> NewVersion(NoVersion)],
          active |-> 1, baseline |-> 1, candidate |-> NoVersion]

\* The versions that the code looks up in an evolution are in it: the active and the
\* baseline version exist, the candidate is another one, and every version was made
\* from one that is there.
Fits(evo) ==
    LET ids == DOMAIN evo.versions
    IN  /\ {evo.active, evo.baseline} \subseteq ids
        /\ evo.candidate \in (ids \cup {NoVersion}) \ {evo.active}
        /\ \A v \in ids \ {evo.baseline} : evo.versions[v].parent \in ids \ {v}

Version == [sum : Nat, hits : Nat, parent : Nat]

\* What the models can express.
Evolution(evo) ==
    LET ids == DOMAIN evo.versions
    IN  /\ evo \in [versions : [ids -> Version], active : Nat, baseline : Nat, candidate : Nat]
        /\ ids \subseteq Nat \ {NoVersion}

\* A score of version v is averaged in.
Scored(evo, v, score) ==
    [evo EXCEPT !.versions[v].sum = @ + score, !.versions[v].hits = @ + 1]

\* avg_score, of which a version without scores has 0, as a fraction.
Hits(x) == IF x.hits = 0 THEN 1 ELSE x.hits
Better(x, y)   == x.sum * Hits(y) > y.sum * Hits(x)
Degraded(x, y) == 10 * x.sum * Hits(y) < 9 * y.sum * Hits(x)

\* Mutant: a promoted candidate stays the candidate.
JudgedAgain(evo, v) ==
    LET cand == evo.versions[v]
        act  == evo.versions[evo.active]
    IN  IF v # evo.candidate \/ cand.hits < PromoteAfter THEN evo
        ELSE IF Better(cand, act) THEN [evo EXCEPT !.active = v]
        ELSE IF Degraded(cand, act) THEN [evo EXCEPT !.candidate = NoVersion]
        ELSE evo

\* The promotion logic of record_feedback: a candidate that is neither better nor
\* much worse goes on being tried.
Judged(evo, v) ==
    LET cand == evo.versions[v]
        act  == evo.versions[evo.active]
    IN  IF v # evo.candidate \/ cand.hits < PromoteAfter THEN evo
        ELSE IF Better(cand, act) THEN [evo EXCEPT !.active = v, !.candidate = NoVersion]
        ELSE IF Degraded(cand, act) THEN [evo EXCEPT !.candidate = NoVersion]
        ELSE evo

\* record_feedback up to its last await; a version the copy does not know is ignored.
AfterFeedback(evo, v, score) ==
    IF v \notin DOMAIN evo.versions THEN evo ELSE Judged(Scored(evo, v, score), v)

\* The active version scores below 0.7 and nothing is being tried in its place.
NeedsMutation(evo) ==
    LET act == evo.versions[evo.active]
    IN  act.hits >= MutateAfter /\ 10 * act.sum < 7 * act.hits /\ evo.candidate = NoVersion

\* evolve_prompt once the LLM has written a template: version v, the candidate now.
Evolved(evo, v) ==
    [evo EXCEPT !.versions = [x \in DOMAIN @ \cup {v} |->
                                 IF x = v THEN NewVersion(evo.active) ELSE @[x]],
                !.candidate = v]

\* get_prompt_with_id: the active version or, one time in five, the candidate.
Choices(evo) == {evo.active} \cup ({evo.candidate} \ {NoVersion})

=============================================================================
