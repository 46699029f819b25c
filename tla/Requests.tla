------------------------------ MODULE Requests ------------------------------
(***************************************************************************)
(* What a request goes through: the middlewares with their token buckets   *)
(* (Gateway), then a turn of the chat (Turn).  The two share no state.     *)
(***************************************************************************)
EXTENDS Gateway

CONSTANTS Turns, Question, OldPrompts, MemoryWired, NoTurn, MaxCrashes,
          PromoteAfter, MutateAfter, MaxVersions
VARIABLES at, copy, file, used, saving, loop, cache, crashes, quiet

Chat == INSTANCE Turn WITH pc <- at

turn == <<at, copy, file, used, saving, loop, cache, crashes, quiet>>

ASSUME NoTurnAssumption == NoTurn \notin Turns
ASSUME VersionsAssumption == MaxVersions \in Nat
ASSUME PromptsAssumption == \A evo \in OldPrompts : Chat!Evolution(evo) /\ Chat!Fits(evo)

----------------------------------------------------------------------------

\* Of Turn: what is cached was graded and logged.
CachedWasGraded == Chat!CachedWasGraded

\* Of Turn: nothing learned is forgotten while turns follow one another.
SequentialForgetsNothing == Chat!SequentialForgetsNothing

\* Of PromptEvolution: the versions that are looked up are there.
EvolutionsFit == Chat!EvolutionsFit

\* Of Turn: what a turn needs of memory it gets.
NoTurnBreaks == Chat!NoTurnBreaks
=============================================================================
