-------------------------- MODULE Answering_proofs --------------------------
(***************************************************************************)
(* Proofs about how an answer is had (LLMCall) and streamed (ToolStream).  *)
(*                                                                         *)
(*   LLMCall, for any callers, providers and limits: the types,            *)
(*   TrippedIffThreshold and CallsBounded.  The breakers need no           *)
(*   strengthening: each of their three operations keeps Fits.  For the    *)
(*   number of calls, every caller in the chain carries a bound that grows *)
(*   with its attempt, its provider and its tries, and each layer's step   *)
(*   stays within it.                                                      *)
(*                                                                         *)
(*   ToolStream, for any streams, answers, chunks and buffers:             *)
(*   TextConserved.  What was passed on and what is held back are kept     *)
(*   apart (Whole), as a call is cut out of the latter only.               *)
(***************************************************************************)
EXTENDS Answering, WellFoundedInduction, TLAPS

(***************************************************************************)
(* LLMCall                                                                 *)
(***************************************************************************)

\* A breaker in its range whose state and count say the same.
Fits(b) == b \in Breaker /\ (b.state # "CLOSED" <=> b.count = Threshold)

BreakersFit == breaker \in [Providers -> Breaker] /\ \A p \in Providers : Fits(breaker[p])

\* Attempts that a caller's question may take.
Rounds(c) == IF c \in Guarded THEN MaxRetries + 1 ELSE 1

\* Calls made at most when attempt k comes to provider i.
Upto(k, i) == NumProviders * Tries * (k - 1) + Tries * (i - 1)

\* A caller in state s at provider a, with its tries, attempt and calls.
Counted(c, s, a, t, k, n) ==
    /\ s \in {"calling", "waiting"} =>
          /\ a \in Providers /\ t \in 1..Tries /\ k \in 1..Rounds(c)
          /\ s = "waiting" => t < Tries
          /\ n <= Upto(k, a) + t
    /\ s = "sleeping" => c \in Guarded /\ k \in 1..MaxRetries /\ n <= Upto(k + 1, 1)
    /\ n <= Upto(Rounds(c) + 1, 1)

CallersTyped ==
    /\ pc \in [Callers -> CallerState]
    /\ at \in [Callers -> 0..NumProviders]
    /\ tries \in [Callers -> 0..Tries]
    /\ attempt \in [Callers -> 0..MaxRetries + 1]
    /\ calls \in [Callers -> Nat]

CallersCounted == \A c \in Callers : Counted(c, pc[c], at[c], tries[c], attempt[c], calls[c])

IInv == CallersTyped /\ CallersCounted /\ BreakersFit

----------------------------------------------------------------------------
(* The bound *)

LEMMA UptoNat == ASSUME NEW k \in Nat \ {0}, NEW i \in Nat \ {0} PROVE Upto(k, i) \in Nat
<1> DEFINE T == Tries
           R == NumProviders * Tries
<1>1. T \in Nat /\ R \in Nat BY ProviderAssumption, LimitAssumption
<1>2. k - 1 \in Nat /\ i - 1 \in Nat OBVIOUS
<1>3. Upto(k, i) = R * (k - 1) + T * (i - 1) BY DEF Upto
<1> HIDE DEF T, R
<1>4. R * (k - 1) \in Nat /\ T * (i - 1) \in Nat BY <1>1, <1>2
<1> QED BY <1>3, <1>4

\* One provider further, there may be Tries more calls.
LEMMA UptoNext ==
    ASSUME NEW k \in Nat \ {0}, NEW i \in Nat \ {0} PROVE Upto(k, i + 1) = Upto(k, i) + Tries
BY ProviderAssumption, LimitAssumption DEF Upto

\* The end of a chain is the beginning of the next round.
LEMMA UptoRound == ASSUME NEW k \in Nat \ {0} PROVE Upto(k, NumProviders + 1) = Upto(k + 1, 1)
BY ProviderAssumption, LimitAssumption DEF Upto

LEMMA TimesMonotone ==
    ASSUME NEW t \in Nat, NEW i \in Nat, NEW j \in Nat, i <= j PROVE t * i <= t * j
OBVIOUS

LEMMA UptoMonotone ==
    ASSUME NEW k \in Nat \ {0}, NEW m \in Nat \ {0}, NEW i \in Nat \ {0}, NEW j \in Nat \ {0},
           k <= m, i <= j
    PROVE  Upto(k, i) <= Upto(m, j)
<1> DEFINE T == Tries
           R == NumProviders * Tries
<1>1. T \in Nat /\ R \in Nat BY ProviderAssumption, LimitAssumption
<1>2. Upto(k, i) = R * (k - 1) + T * (i - 1) /\ Upto(m, j) = R * (m - 1) + T * (j - 1) BY DEF Upto
<1> HIDE DEF T, R
<1>3. R * (k - 1) <= R * (m - 1) BY <1>1, TimesMonotone
<1>4. T * (i - 1) <= T * (j - 1) BY <1>1, TimesMonotone
<1>5. R * (k - 1) \in Nat /\ R * (m - 1) \in Nat /\ T * (i - 1) \in Nat /\ T * (j - 1) \in Nat
  BY <1>1
<1> QED BY <1>2, <1>3, <1>4, <1>5

\* Within the chain of an attempt the question's limit is kept.
LEMMA ChainWithinLimit ==
    ASSUME NEW c \in Callers, NEW k \in 1..Rounds(c), NEW i \in 1..NumProviders + 1
    PROVE  Upto(k, i) <= Upto(k + 1, 1) /\ Upto(k + 1, 1) <= Upto(Rounds(c) + 1, 1)
<1>1. Rounds(c) \in Nat /\ NumProviders \in Nat \ {0}
  BY LimitAssumption, ProviderAssumption DEF Rounds
<1>2. Upto(k, i) <= Upto(k, NumProviders + 1) BY <1>1, UptoMonotone
<1>3. Upto(k + 1, 1) <= Upto(Rounds(c) + 1, 1) BY <1>1, UptoMonotone
<1> QED BY <1>1, <1>2, <1>3, UptoRound

\* What Upto says in the words of CallsBounded.
LEMMA LimitIsProduct ==
    ASSUME NEW c \in Callers
    PROVE  Upto(Rounds(c) + 1, 1) = (IF c \in Guarded THEN MaxRetries + 1 ELSE 1) * NumProviders * Tries
<1>1. MaxRetries \in Nat /\ NumProviders \in Nat /\ Tries \in Nat BY LimitAssumption, ProviderAssumption
<1>2. CASE c \in Guarded BY <1>1, <1>2 DEF Upto, Rounds
<1>3. CASE c \notin Guarded BY <1>1, <1>3 DEF Upto, Rounds
<1> QED BY <1>2, <1>3

----------------------------------------------------------------------------
(* The breakers *)

LEMMA BreakerSteps ==
    ASSUME NEW b, Fits(b) PROVE Fits(Admitted(b)) /\ Fits(Success(b)) /\ Fits(Failure(b))
<1> USE LimitAssumption DEF Fits, Breaker
<1>1. Fits(Admitted(b)) BY DEF Admitted
<1>2. Fits(Success(b)) BY DEF Success
<1>3. Fits(Failure(b)) BY DEF Failure
<1> QED BY <1>1, <1>2, <1>3

----------------------------------------------------------------------------
(* The callers *)

\* What another caller is does not change when c's entries do.
LEMMA CallerFrame ==
    ASSUME CallersTyped, CallersCounted, NEW c \in Callers,
           NEW s \in CallerState, NEW a \in 0..NumProviders, NEW t \in 0..Tries,
           NEW k \in 0..MaxRetries + 1, NEW n \in Nat,
           Counted(c, s, a, t, k, n),
           pc' = [pc EXCEPT ![c] = s], at' = [at EXCEPT ![c] = a], tries' = [tries EXCEPT ![c] = t],
           attempt' = [attempt EXCEPT ![c] = k], calls' = [calls EXCEPT ![c] = n]
    PROVE  CallersTyped' /\ CallersCounted'
<1>1. CallersTyped' BY DEF CallersTyped
<1>2. ASSUME NEW d \in Callers PROVE Counted(d, pc'[d], at'[d], tries'[d], attempt'[d], calls'[d])
  <2>1. CASE d = c BY <2>1 DEF CallersTyped
  <2>2. CASE d # c
    <3>1. /\ pc'[d] = pc[d] /\ at'[d] = at[d] /\ tries'[d] = tries[d]
          /\ attempt'[d] = attempt[d] /\ calls'[d] = calls[d]
      BY <2>2 DEF CallersTyped
    <3> QED BY <3>1 DEF CallersCounted
  <2> QED BY <2>1, <2>2
<1> QED BY <1>1, <1>2 DEF CallersCounted

LEMMA EndedStep ==
    ASSUME CallersTyped, CallersCounted, NEW c \in Callers, NEW n \in Nat,
           NEW outcome \in {"idle", "answered", "failed"},
           n <= Upto(Rounds(c) + 1, 1), Ended(c, outcome, n)
    PROVE  CallersTyped' /\ CallersCounted'
<1>1. Counted(c, outcome, 0, 0, 0, n) BY DEF Counted
<1>2. outcome \in CallerState /\ 0 \in 0..NumProviders /\ 0 \in 0..Tries /\ 0 \in 0..MaxRetries + 1
  BY ProviderAssumption, LimitAssumption DEF CallerState
<1> QED BY <1>1, <1>2, CallerFrame DEF Ended

\* The chain from provider i on keeps the invariant if n is within attempt k's bound.
LEMMA CallFromStep ==
    ASSUME IInv, NEW c \in Callers, NEW i \in 1..NumProviders + 1, NEW b,
           NEW k \in 1..Rounds(c), NEW n \in Nat,
           b \in [Providers -> Breaker], \A q \in Providers : Fits(b[q]),
           n <= Upto(k, i), CallFrom(c, i, b, k, n)
    PROVE  IInv'
<1> DEFINE available == {q \in i..NumProviders : Available(b[q])}
<1>0. /\ NumProviders \in Nat \ {0} /\ Tries \in Nat \ {0} /\ MaxRetries \in Nat
      /\ Rounds(c) \in 1..MaxRetries + 1
  BY ProviderAssumption, LimitAssumption DEF Rounds
<1>1. /\ Upto(k, i) \in Nat /\ Upto(k + 1, 1) \in Nat /\ Upto(Rounds(c) + 1, 1) \in Nat
      /\ n <= Upto(Rounds(c) + 1, 1)
  BY <1>0, UptoNat, ChainWithinLimit
<1>2. CASE available = {}
  <2>1. Ended(c, "failed", n) /\ breaker' = b BY <1>2 DEF CallFrom
  <2> QED BY <2>1, <1>1, EndedStep DEF IInv, BreakersFit
<1>3. CASE available # {}
  <2>1. PICK p \in available :
          /\ pc' = [pc EXCEPT ![c] = "calling"] /\ at' = [at EXCEPT ![c] = p]
          /\ tries' = [tries EXCEPT ![c] = 1] /\ attempt' = [attempt EXCEPT ![c] = k]
          /\ calls' = [calls EXCEPT ![c] = n + 1] /\ breaker' = [b EXCEPT ![p] = Admitted(b[p])]
    BY <1>3 DEF CallFrom
  <2>3. p \in Providers /\ p \in 0..NumProviders /\ i <= p BY <2>1, <1>0 DEF Providers
  <2>5. n + 1 <= Upto(k, p) + 1 /\ Upto(k, p) \in Nat
    BY <1>0, <1>1, <2>3, UptoMonotone, UptoNat
  <2>6. Upto(k, p) + 1 <= Upto(Rounds(c) + 1, 1)
    <3>1. Upto(k, p + 1) = Upto(k, p) + Tries BY <1>0, <2>3, UptoNext
    <3>2. Upto(k, p + 1) <= Upto(k + 1, 1) /\ Upto(k + 1, 1) <= Upto(Rounds(c) + 1, 1)
      BY <1>0, <2>3, ChainWithinLimit
    <3> QED BY <1>0, <1>1, <2>5, <3>1, <3>2
  <2>7. Counted(c, "calling", p, 1, k, n + 1) BY <1>0, <1>1, <2>3, <2>5, <2>6 DEF Counted
  <2>8. CallersTyped' /\ CallersCounted'
    <3>1. "calling" \in CallerState /\ 1 \in 0..Tries /\ k \in 0..MaxRetries + 1 /\ n + 1 \in Nat
      BY <1>0 DEF CallerState
    <3> QED BY <2>3, <2>1, <2>7, <3>1, CallerFrame DEF IInv
  <2>9. BreakersFit'
    <3>1. Fits(Admitted(b[p])) BY <2>3, BreakerSteps
    <3> QED BY <2>3, <2>1, <3>1 DEF BreakersFit, Fits
  <2> QED BY <2>8, <2>9 DEF IInv
<1> QED BY <1>2, <1>3

\* From its numbers' invariant, what the steps of a caller in the chain rely on.
LEMMA InChainFacts ==
    ASSUME CallersTyped, CallersCounted, NEW c \in Callers, InChain(c)
    PROVE  /\ at[c] \in Providers /\ tries[c] \in 1..Tries /\ attempt[c] \in 1..Rounds(c)
           /\ pc[c] = "waiting" => tries[c] < Tries
           /\ calls[c] <= Upto(attempt[c], at[c]) + tries[c]
BY DEF InChain, CallersCounted, Counted

LEMMA AskKeeps == ASSUME IInv, NEW c \in Callers, Ask(c) PROVE IInv'
<1>1. 1 \in 1..NumProviders + 1 /\ 1 \in 1..Rounds(c)
  BY ProviderAssumption, LimitAssumption DEF Rounds
<1>2. 0 <= Upto(1, 1) BY UptoNat
<1> QED BY <1>1, <1>2, CallFromStep DEF Ask, IInv, BreakersFit

\* Whoever ends a question keeps the number of its calls, or sets it to 0.
LEMMA EndsKeep ==
    ASSUME IInv, NEW c \in Callers, NEW outcome \in {"idle", "answered", "failed"},
           NEW n \in {0, calls[c]}, Ended(c, outcome, n)
    PROVE  CallersTyped' /\ CallersCounted'
<1>1. n \in Nat BY DEF IInv, CallersTyped
<1>2. Rounds(c) \in Nat BY LimitAssumption DEF Rounds
<1>3. 0 <= Upto(Rounds(c) + 1, 1) BY <1>2, UptoNat
<1>4. calls[c] <= Upto(Rounds(c) + 1, 1) BY DEF IInv, CallersCounted, Counted
<1> QED BY <1>1, <1>3, <1>4, EndedStep DEF IInv

LEMMA AnswerKeeps ==
    ASSUME IInv, NEW c \in Callers, InChain(c), Ended(c, "answered", calls[c]),
           breaker' = [breaker EXCEPT ![at[c]] = Success(breaker[at[c]])]
    PROVE  IInv'
<1>1. CallersTyped' /\ CallersCounted' BY EndsKeep
<1>2. at[c] \in Providers BY InChainFacts DEF IInv
<1>3. Fits(Success(breaker[at[c]])) BY <1>2, BreakerSteps DEF IInv, BreakersFit
<1>4. BreakersFit' BY <1>2, <1>3 DEF IInv, BreakersFit, Fits
<1> QED BY <1>1, <1>4 DEF IInv

LEMMA GiveUpKeeps ==
    ASSUME IInv, NEW c \in Callers, InChain(c), GiveUpOn(c) PROVE IInv'
<1> DEFINE b == [breaker EXCEPT ![at[c]] = Failure(breaker[at[c]])]
<1>1. /\ at[c] \in Providers /\ tries[c] \in 1..Tries /\ attempt[c] \in 1..Rounds(c)
      /\ calls[c] <= Upto(attempt[c], at[c]) + tries[c] /\ calls[c] \in Nat
  BY InChainFacts DEF IInv, CallersTyped
<1>2. Fits(Failure(breaker[at[c]])) BY <1>1, BreakerSteps DEF IInv, BreakersFit
<1>3. b \in [Providers -> Breaker] /\ \A q \in Providers : Fits(b[q])
  BY <1>1, <1>2 DEF IInv, BreakersFit, Fits
<1>4. at[c] + 1 \in 1..NumProviders + 1 BY <1>1, ProviderAssumption DEF Providers
<1>5. calls[c] <= Upto(attempt[c], at[c] + 1)
  <2>1. Upto(attempt[c], at[c] + 1) = Upto(attempt[c], at[c]) + Tries
    BY <1>1, UptoNext DEF Providers
  <2>2. Upto(attempt[c], at[c]) \in Nat BY <1>1, UptoNat DEF Providers
  <2> QED BY <1>1, <2>1, <2>2, LimitAssumption
<1>6. CallFrom(c, at[c] + 1, b, attempt[c], calls[c]) BY DEF GiveUpOn
<1> HIDE DEF b
<1> QED BY <1>1, <1>3, <1>4, <1>5, <1>6, CallFromStep

\* Only the caller's place changes: tenacity's pause begins.
LEMMA PauseKeeps ==
    ASSUME IInv, NEW c \in Callers, pc[c] = "calling", tries[c] < Tries,
           pc' = [pc EXCEPT ![c] = "waiting"], UNCHANGED <<at, tries, attempt, calls, breaker>>
    PROVE  IInv'
<1>1. Counted(c, "waiting", at[c], tries[c], attempt[c], calls[c])
  BY DEF IInv, CallersCounted, Counted
<1>2. /\ "waiting" \in CallerState /\ at[c] \in 0..NumProviders /\ tries[c] \in 0..Tries
      /\ attempt[c] \in 0..MaxRetries + 1 /\ calls[c] \in Nat
  BY DEF IInv, CallersTyped, CallerState
<1>3. /\ at' = [at EXCEPT ![c] = at[c]] /\ tries' = [tries EXCEPT ![c] = tries[c]]
      /\ attempt' = [attempt EXCEPT ![c] = attempt[c]] /\ calls' = [calls EXCEPT ![c] = calls[c]]
  BY DEF IInv, CallersTyped
<1>4. CallersTyped' /\ CallersCounted'
  <2>1. CallersTyped /\ CallersCounted BY DEF IInv
  <2>2. /\ Counted(c, "waiting", at[c], tries[c], attempt[c], calls[c])
        /\ pc' = [pc EXCEPT ![c] = "waiting"]
    BY <1>1
  <2> QED BY ONLY <1>2, <1>3, <2>1, <2>2, CallerFrame
<1> QED BY <1>4 DEF IInv, BreakersFit

LEMMA AgainKeeps == ASSUME IInv, NEW c \in Callers, Again(c) PROVE IInv'
<1>1. /\ at[c] \in Providers /\ tries[c] \in 1..Tries /\ attempt[c] \in 1..Rounds(c)
      /\ tries[c] < Tries /\ calls[c] <= Upto(attempt[c], at[c]) + tries[c]
      /\ calls[c] \in Nat /\ attempt[c] \in 0..MaxRetries + 1 /\ at[c] \in 0..NumProviders
  BY InChainFacts DEF IInv, CallersTyped, Again, InChain
<1>2. Upto(attempt[c], at[c]) \in Nat BY <1>1, UptoNat DEF Providers
<1>3. Upto(attempt[c], at[c]) + Tries <= Upto(Rounds(c) + 1, 1)
  <2>1. Upto(attempt[c], at[c] + 1) = Upto(attempt[c], at[c]) + Tries
    BY <1>1, UptoNext DEF Providers
  <2>2. at[c] + 1 \in 1..NumProviders + 1 BY <1>1, ProviderAssumption DEF Providers
  <2>3. /\ Upto(attempt[c], at[c] + 1) <= Upto(attempt[c] + 1, 1)
        /\ Upto(attempt[c] + 1, 1) <= Upto(Rounds(c) + 1, 1)
    BY <1>1, <2>2, ChainWithinLimit
  <2>4. Rounds(c) \in Nat BY LimitAssumption DEF Rounds
  <2>5. Upto(attempt[c] + 1, 1) \in Nat /\ Upto(Rounds(c) + 1, 1) \in Nat BY <1>1, <2>4, UptoNat
  <2> QED BY <1>2, <2>1, <2>3, <2>5, LimitAssumption
<1>4. Rounds(c) \in Nat BY LimitAssumption DEF Rounds
<1>5. Upto(Rounds(c) + 1, 1) \in Nat BY <1>4, UptoNat
<1>6. Counted(c, "calling", at[c], tries[c] + 1, attempt[c], calls[c] + 1)
  BY <1>1, <1>2, <1>3, <1>5, LimitAssumption DEF Counted
<1>7. "calling" \in CallerState /\ tries[c] + 1 \in 0..Tries /\ calls[c] + 1 \in Nat
  BY <1>1, LimitAssumption DEF CallerState
<1>8. at' = [at EXCEPT ![c] = at[c]] /\ attempt' = [attempt EXCEPT ![c] = attempt[c]]
  BY DEF Again, IInv, CallersTyped
<1>9. /\ pc' = [pc EXCEPT ![c] = "calling"] /\ tries' = [tries EXCEPT ![c] = tries[c] + 1]
      /\ calls' = [calls EXCEPT ![c] = calls[c] + 1] /\ breaker' = breaker
  BY DEF Again
<1>10. CallersTyped' /\ CallersCounted' BY <1>1, <1>6, <1>7, <1>8, <1>9, CallerFrame DEF IInv
<1> QED BY <1>9, <1>10 DEF IInv, BreakersFit

LEMMA TimeOutKeeps == ASSUME IInv, NEW c \in Callers, TimeOut(c) PROVE IInv'
<1>1. c \in Guarded /\ InChain(c) /\ breaker' = breaker BY DEF TimeOut
<1>2. BreakersFit' BY <1>1 DEF IInv, BreakersFit
<1>3. CASE attempt[c] > MaxRetries BY <1>2, <1>3, EndsKeep DEF TimeOut, IInv
<1>4. CASE ~(attempt[c] > MaxRetries)
  <2>1. /\ at[c] \in Providers /\ tries[c] \in 1..Tries /\ attempt[c] \in 1..Rounds(c)
        /\ calls[c] <= Upto(attempt[c], at[c]) + tries[c]
        /\ calls[c] \in Nat /\ attempt[c] \in 0..MaxRetries + 1
    BY <1>1, InChainFacts DEF IInv, CallersTyped
  <2>2. attempt[c] \in 1..MaxRetries BY <1>4, <2>1, LimitAssumption
  <2>3. calls[c] <= Upto(attempt[c] + 1, 1) /\ calls[c] <= Upto(Rounds(c) + 1, 1)
    <3>1. Upto(attempt[c], at[c] + 1) = Upto(attempt[c], at[c]) + Tries
      BY <2>1, UptoNext DEF Providers
    <3>2. at[c] + 1 \in 1..NumProviders + 1 BY <2>1, ProviderAssumption DEF Providers
    <3>3. /\ Upto(attempt[c], at[c] + 1) <= Upto(attempt[c] + 1, 1)
      BY <2>1, <3>2, ChainWithinLimit
    <3>4. Upto(attempt[c], at[c]) \in Nat /\ Upto(attempt[c] + 1, 1) \in Nat
      BY <2>1, UptoNat DEF Providers
    <3> QED BY <2>1, <3>1, <3>3, <3>4, LimitAssumption DEF IInv, CallersCounted, Counted
  <2>4. Counted(c, "sleeping", 0, 0, attempt[c], calls[c]) BY <1>1, <2>2, <2>3 DEF Counted
  <2>5. /\ pc' = [pc EXCEPT ![c] = "sleeping"] /\ at' = [at EXCEPT ![c] = 0]
        /\ tries' = [tries EXCEPT ![c] = 0]
        /\ attempt' = [attempt EXCEPT ![c] = attempt[c]] /\ calls' = [calls EXCEPT ![c] = calls[c]]
    BY <1>4 DEF TimeOut, IInv, CallersTyped
  <2>6. "sleeping" \in CallerState /\ 0 \in 0..NumProviders /\ 0 \in 0..Tries
    BY ProviderAssumption, LimitAssumption DEF CallerState
  <2>7. CallersTyped' /\ CallersCounted' BY <2>1, <2>4, <2>5, <2>6, CallerFrame DEF IInv
  <2> QED BY <1>2, <2>7 DEF IInv
<1> QED BY <1>3, <1>4

LEMMA WakeKeeps == ASSUME IInv, NEW c \in Callers, Wake(c) PROVE IInv'
<1>1. /\ c \in Guarded /\ attempt[c] \in 1..MaxRetries /\ calls[c] <= Upto(attempt[c] + 1, 1)
      /\ calls[c] \in Nat
  BY DEF Wake, IInv, CallersTyped, CallersCounted, Counted
<1>2. attempt[c] + 1 \in 1..Rounds(c) /\ 1 \in 1..NumProviders + 1
  BY <1>1, LimitAssumption, ProviderAssumption DEF Rounds
<1> QED BY <1>1, <1>2, CallFromStep DEF Wake, IInv, BreakersFit

LEMMA TickKeeps == ASSUME IInv, Tick PROVE IInv'
<1>1. ASSUME NEW p \in Providers PROVE Fits(breaker'[p])
  <2>1. Fits(breaker[p]) BY DEF IInv, BreakersFit
  <2>2. breaker'[p] = [breaker[p] EXCEPT !.since = IF @ <= Recovery THEN @ + 1 ELSE @] BY DEF Tick
  <2> QED BY <2>1, <2>2, LimitAssumption DEF Fits, Breaker
<1>2. BreakersFit'
  <2>1. DOMAIN breaker' = Providers /\ breaker' = [p \in Providers |-> breaker'[p]] BY DEF Tick
  <2> QED BY <1>1, <2>1 DEF BreakersFit, Fits
<1>3. pc' = pc /\ at' = at /\ tries' = tries /\ attempt' = attempt /\ calls' = calls BY DEF Tick
<1>4. CallersTyped' /\ CallersCounted' BY <1>3 DEF IInv, CallersTyped, CallersCounted
<1> QED BY <1>2, <1>4 DEF IInv

----------------------------------------------------------------------------
(* The theorems *)

LEMMA InitEstablishes == Init => IInv
<1> SUFFICES ASSUME Init PROVE IInv OBVIOUS
<1> USE ProviderAssumption, LimitAssumption
<1>1. CallersTyped BY DEF Init, CallersTyped, CallerState
<1>2. ASSUME NEW c \in Callers PROVE Counted(c, pc[c], at[c], tries[c], attempt[c], calls[c])
  <2>1. pc[c] = "idle" /\ calls[c] = 0 BY DEF Init
  <2>2. Upto(Rounds(c) + 1, 1) \in Nat BY UptoNat DEF Rounds
  <2> QED BY <2>1, <2>2 DEF Counted
<1>3. BreakersFit BY DEF Init, BreakersFit, Fits, Breaker
<1> QED BY <1>1, <1>2, <1>3 DEF IInv, CallersCounted

LEMMA NextKeeps == IInv /\ [Next]_vars => IInv'
<1> SUFFICES ASSUME IInv, [Next]_vars PROVE IInv' OBVIOUS
<1>1. ASSUME NEW c \in Callers, Ask(c) PROVE IInv' BY <1>1, AskKeeps
<1>2. ASSUME NEW c \in Callers, Succeed(c) PROVE IInv' BY <1>2, AnswerKeeps DEF Succeed, InChain
<1>3. ASSUME NEW c \in Callers, Fail(c) PROVE IInv'
  BY <1>3, PauseKeeps, GiveUpKeeps DEF Fail, InChain
<1>4. ASSUME NEW c \in Callers, Again(c) PROVE IInv' BY <1>4, AgainKeeps
<1>5. ASSUME NEW c \in Callers, StreamBreaks(c) PROVE IInv'
  BY <1>5, AnswerKeeps, GiveUpKeeps DEF StreamBreaks, InChain
<1>6. ASSUME NEW c \in Callers, TimeOut(c) PROVE IInv' BY <1>6, TimeOutKeeps
<1>7. ASSUME NEW c \in Callers, Wake(c) PROVE IInv' BY <1>7, WakeKeeps
<1>8. ASSUME NEW c \in Callers, Cancel(c) PROVE IInv'
  BY <1>8, EndsKeep DEF Cancel, IInv, BreakersFit
<1>9. CASE Tick BY <1>9, TickKeeps
<1>10. CASE UNCHANGED vars BY <1>10 DEF vars, IInv, CallersTyped, CallersCounted, BreakersFit
<1> QED BY <1>1, <1>2, <1>3, <1>4, <1>5, <1>6, <1>7, <1>8, <1>9, <1>10 DEF Next

LEMMA Invariant == Spec => []IInv
BY InitEstablishes, NextKeeps, PTL DEF Spec

\* The variables keep their ranges, for any callers, providers and limits.
THEOREM TypeCorrect == Spec => []TypeOK
<1>1. IInv => TypeOK BY DEF IInv, CallersTyped, BreakersFit, TypeOK
<1> QED BY <1>1, Invariant, PTL

\* No interleaving of late answers, failures and probes parts a breaker's state from
\* its count (fallback_provider.py:20-37).
THEOREM TrippedIffThresholdAlways == Spec => []TrippedIffThreshold
<1>1. IInv => TrippedIffThreshold BY DEF IInv, BreakersFit, Fits, TrippedIffThreshold
<1> QED BY <1>1, Invariant, PTL

\* tenacity, the chain and the retry policy multiply to no more than their limits
\* say, for any limits (retry_policy.py:99-139, fallback_provider.py:46-68).
THEOREM CallsBoundedAlways == Spec => []CallsBounded
<1>1. IInv => CallsBounded
  BY LimitIsProduct DEF IInv, CallersCounted, Counted, CallsBounded
<1> QED BY <1>1, Invariant, PTL

(***************************************************************************)
(* ToolStream                                                              *)
(***************************************************************************)

\* The positions in a sequence of them.
Places(a) == {a[i] : i \in 1..Len(a)}

Rising(a) == \A i, j \in 1..Len(a) : i < j => a[i] < a[j]

\* o was passed on and b is held back of n tokens, of which those in cut were calls.
Whole(o, b, n, cut) ==
    /\ o \in Seq(Nat) /\ b \in Seq(Nat) /\ n \in Nat /\ cut \subseteq 1..n
    /\ Rising(o) /\ Rising(b) /\ \A x \in Places(o), y \in Places(b) : x < y
    /\ Places(o) \cup Places(b) = 1..n \ cut

StreamInv ==
    /\ \A s \in Streams : Whole(out[s], buffer[s], fed[s], UNION spans[s])
    /\ out = [s \in Streams |-> out[s]] /\ buffer = [s \in Streams |-> buffer[s]]
    /\ fed = [s \in Streams |-> fed[s]] /\ spans = [s \in Streams |-> spans[s]]

----------------------------------------------------------------------------
(* Sequences of positions *)

LEMMA Smallest ==
    ASSUME NEW T \in SUBSET Nat, T # {}
    PROVE  \E m \in T : \A x \in T : m <= x
<1> DEFINE R == OpToRel(<, Nat)
<1>1. \A x, y \in Nat : x < y => <<x, y>> \in R BY DEF OpToRel
<1>2. IsWellFoundedOn(R, Nat) BY NatLessThanWellFounded
<1> HIDE DEF R
<1>3. PICK m \in T : \A y \in T : <<y, m>> \notin R BY <1>2, WFMin
<1>4. ASSUME NEW x \in T PROVE m <= x
  <2>1. x \in Nat /\ m \in Nat OBVIOUS
  <2>2. ~(x < m) BY <1>1, <1>3, <2>1
  <2> QED BY <2>1, <2>2
<1> QED BY <1>4

LEMMA JoinedPlaces ==
    ASSUME NEW a \in Seq(Nat), NEW b \in Seq(Nat)
    PROVE  a \o b \in Seq(Nat) /\ Places(a \o b) = Places(a) \cup Places(b)
<1>1. a \o b \in Seq(Nat) /\ Len(a \o b) = Len(a) + Len(b) /\ Len(a) \in Nat /\ Len(b) \in Nat OBVIOUS
<1>2. \A i \in 1..Len(a) : (a \o b)[i] = a[i] OBVIOUS
<1>3. \A i \in 1..Len(b) : (a \o b)[Len(a) + i] = b[i] OBVIOUS
<1>4. ASSUME NEW x \in Places(a \o b) PROVE x \in Places(a) \cup Places(b)
  <2>1. PICK i \in 1..Len(a \o b) : x = (a \o b)[i] BY DEF Places
  <2>2. CASE i <= Len(a) BY <1>1, <1>2, <2>1, <2>2 DEF Places
  <2>3. CASE i > Len(a)
    <3>1. i - Len(a) \in 1..Len(b) /\ i = Len(a) + (i - Len(a)) BY <1>1, <2>3
    <3> QED BY <1>3, <2>1, <3>1 DEF Places
  <2> QED BY <1>1, <2>2, <2>3
<1>5. ASSUME NEW x \in Places(a) PROVE x \in Places(a \o b)
  <2>1. PICK i \in 1..Len(a) : x = a[i] BY DEF Places
  <2>2. i \in 1..Len(a \o b) BY <1>1
  <2> QED BY <1>2, <2>1, <2>2 DEF Places
<1>6. ASSUME NEW x \in Places(b) PROVE x \in Places(a \o b)
  <2>1. PICK i \in 1..Len(b) : x = b[i] BY DEF Places
  <2>2. Len(a) + i \in 1..Len(a \o b) BY <1>1
  <2> QED BY <1>3, <2>1, <2>2 DEF Places
<1> QED BY <1>1, <1>4, <1>5, <1>6

LEMMA JoinedRising ==
    ASSUME NEW a \in Seq(Nat), NEW b \in Seq(Nat), Rising(a), Rising(b),
           \A x \in Places(a), y \in Places(b) : x < y
    PROVE  Rising(a \o b)
<1>1. a \o b \in Seq(Nat) /\ Len(a \o b) = Len(a) + Len(b) /\ Len(a) \in Nat /\ Len(b) \in Nat OBVIOUS
<1>2. \A i \in 1..Len(a) : (a \o b)[i] = a[i] /\ a[i] \in Places(a) BY DEF Places
<1>3. ASSUME NEW i \in 1..Len(a \o b), i > Len(a)
      PROVE  i - Len(a) \in 1..Len(b) /\ (a \o b)[i] = b[i - Len(a)] /\ b[i - Len(a)] \in Places(b)
  <2>1. i - Len(a) \in 1..Len(b) /\ i = Len(a) + (i - Len(a)) BY <1>1, <1>3
  <2> QED BY <2>1 DEF Places
<1> SUFFICES ASSUME NEW i \in 1..Len(a \o b), NEW j \in 1..Len(a \o b), i < j
             PROVE  (a \o b)[i] < (a \o b)[j]
  BY DEF Rising
<1>4. CASE j <= Len(a)
  <2>1. i \in 1..Len(a) /\ j \in 1..Len(a) BY <1>1, <1>4
  <2> QED BY <1>2, <2>1 DEF Rising
<1>5. CASE i <= Len(a) /\ j > Len(a)
  <2>1. i \in 1..Len(a) BY <1>1, <1>5
  <2> QED BY <1>2, <1>3, <1>5, <2>1
<1>6. CASE i > Len(a)
  <2>1. j > Len(a) /\ i - Len(a) < j - Len(a) BY <1>1, <1>6
  <2> QED BY <1>3, <1>6, <2>1 DEF Rising
<1> QED BY <1>1, <1>4, <1>5, <1>6

\* What Whole says of the two sequences one after the other.
LEMMA WholeJoined ==
    ASSUME NEW o, NEW b, NEW n, NEW cut, Whole(o, b, n, cut)
    PROVE  o \o b \in Seq(Nat) /\ Places(o \o b) = 1..n \ cut /\ Rising(o \o b)
BY JoinedPlaces, JoinedRising DEF Whole

LEMMA NoPlaces == <<>> \in Seq(Nat) /\ Places(<<>>) = {} /\ Rising(<<>>)
BY DEF Places, Rising

\* All that is held back is passed on.
LEMMA Flushed ==
    ASSUME NEW o, NEW b, NEW n, NEW cut, Whole(o, b, n, cut)
    PROVE  Whole(o \o b, <<>>, n, cut)
<1>1. \A x \in Places(o \o b), y \in Places(<<>>) : x < y BY NoPlaces
<1>2. Places(o \o b) \cup Places(<<>>) = 1..n \ cut BY WholeJoined, NoPlaces
<1>3. o \o b \in Seq(Nat) /\ Rising(o \o b) BY WholeJoined
<1>4. n \in Nat /\ cut \subseteq 1..n BY DEF Whole
<1> QED BY <1>1, <1>2, <1>3, <1>4, NoPlaces DEF Whole

\* k more tokens arrive.
LEMMA Arrived ==
    ASSUME NEW o, NEW b, NEW n, NEW cut, Whole(o, b, n, cut), NEW k \in Nat
    PROVE  Whole(o, b \o [i \in 1..k |-> n + i], n + k, cut)
<1> DEFINE new == [i \in 1..k |-> n + i]
<1>1. n \in Nat /\ o \in Seq(Nat) /\ b \in Seq(Nat) BY DEF Whole
<1>2. new \in Seq(Nat) /\ Len(new) = k /\ \A i \in 1..k : new[i] = n + i BY <1>1
<1> HIDE DEF new
<1>3. Places(new) = (n + 1)..(n + k)
  <2>1. ASSUME NEW x \in Places(new) PROVE x \in (n + 1)..(n + k)
    <3>1. PICK i \in 1..k : x = n + i BY <1>2 DEF Places
    <3> QED BY <1>1, <3>1
  <2>2. ASSUME NEW x \in (n + 1)..(n + k) PROVE x \in Places(new)
    <3>1. x - n \in 1..k /\ x = n + (x - n) BY <1>1
    <3> QED BY <1>2, <3>1 DEF Places
  <2> QED BY <2>1, <2>2
<1>4. Rising(new) BY <1>1, <1>2 DEF Rising
<1>5. Places(o) \subseteq 1..n /\ Places(b) \subseteq 1..n BY DEF Whole
<1>6. \A y \in Places(new) : n < y BY <1>1, <1>3
<1>7. \A x \in Places(o) \cup Places(b), y \in Places(new) : x < y
  <2> SUFFICES ASSUME NEW x \in Places(o) \cup Places(b), NEW y \in Places(new) PROVE x < y OBVIOUS
  <2>1. x \in 1..n /\ y \in (n + 1)..(n + k) BY <1>3, <1>5
  <2> QED BY <1>1, <2>1
<1>8. b \o new \in Seq(Nat) /\ Places(b \o new) = Places(b) \cup Places(new) /\ Rising(b \o new)
  BY <1>1, <1>2, <1>4, <1>7, JoinedPlaces, JoinedRising DEF Whole
<1>9. cut \subseteq 1..(n + k) /\ n + k \in Nat BY <1>1 DEF Whole
<1>10. Places(o) \cup Places(b \o new) = 1..(n + k) \ cut
  <2>1. 1..(n + k) = 1..n \cup (n + 1)..(n + k) /\ \A x \in cut : x \notin (n + 1)..(n + k)
    <3>1. \A x \in 1..n : x \notin (n + 1)..(n + k) BY <1>1
    <3> QED BY <1>1, <3>1 DEF Whole
  <2>2. Places(o) \cup Places(b) = 1..n \ cut BY DEF Whole
  <2> QED BY <1>3, <1>8, <2>1, <2>2
<1> QED BY <1>1, <1>7, <1>8, <1>9, <1>10 DEF Whole, new

\* The tokens from place i to place j of what is held back are cut out, and those
\* before them passed on.
LEMMA CutOut ==
    ASSUME NEW o, NEW b, NEW n, NEW cut, Whole(o, b, n, cut),
           NEW i \in 1..Len(b), NEW j \in 1..Len(b), i <= j
    PROVE  Whole(o \o SubSeq(b, 1, i - 1), SubSeq(b, j + 1, Len(b)), n, cut \cup b[i]..b[j])
<1> DEFINE pre  == SubSeq(b, 1, i - 1)
           post == SubSeq(b, j + 1, Len(b))
           span == b[i]..b[j]
<1>1. n \in Nat /\ o \in Seq(Nat) /\ b \in Seq(Nat) /\ Len(b) \in Nat /\ Rising(b) /\ Rising(o) BY DEF Whole
<1>2. /\ pre \in Seq(Nat) /\ Len(pre) = i - 1
      /\ \A x \in 1..(i - 1) : pre[x] = b[x]
  BY <1>1
<1>3. /\ post \in Seq(Nat) /\ Len(post) = Len(b) - j
      /\ \A x \in 1..(Len(b) - j) : post[x] = b[j + x]
  BY <1>1
<1> HIDE DEF pre, post
<1>4. Places(b) \subseteq 1..n /\ b[i] \in Places(b) /\ b[j] \in Places(b) BY DEF Whole, Places
<1>5. span \subseteq 1..n BY <1>1, <1>4
<1>6. \A x \in 1..Len(b) : b[x] \in Nat BY <1>1
<1>7. ASSUME NEW x \in 1..Len(b)
      PROVE  (x < i => b[x] < b[i]) /\ (j < x => b[j] < b[x]) /\ (b[x] \in span <=> i <= x /\ x <= j)
  <2>1. /\ x < i => b[x] < b[i]
        /\ i < x => b[i] < b[x]
        /\ x < j => b[x] < b[j]
        /\ j < x => b[j] < b[x]
    BY <1>1 DEF Rising
  <2>2. x < i \/ x = i \/ i < x OBVIOUS
  <2>3. x < j \/ x = j \/ j < x OBVIOUS
  <2> QED BY <1>6, <2>1, <2>2, <2>3
<1>8. /\ Places(pre) = {b[x] : x \in 1..(i - 1)}
      /\ Places(post) = {b[x] : x \in (j + 1)..Len(b)}
  <2>1. Places(pre) = {b[x] : x \in 1..(i - 1)} BY <1>2 DEF Places
  <2>2. ASSUME NEW y \in Places(post) PROVE y \in {b[x] : x \in (j + 1)..Len(b)}
    <3>1. PICK x \in 1..(Len(b) - j) : y = b[j + x] BY <1>3 DEF Places
    <3>2. j + x \in (j + 1)..Len(b) BY <1>1
    <3> QED BY <3>1, <3>2
  <2>3. ASSUME NEW y \in {b[x] : x \in (j + 1)..Len(b)} PROVE y \in Places(post)
    <3>1. PICK x \in (j + 1)..Len(b) : y = b[x] OBVIOUS
    <3>2. x - j \in 1..(Len(b) - j) /\ x = j + (x - j) BY <1>1
    <3> QED BY <1>3, <3>1, <3>2 DEF Places
  <2> QED BY <2>1, <2>2, <2>3
<1>9. /\ Places(pre) \subseteq Places(b) /\ Places(post) \subseteq Places(b)
      /\ Places(pre) \cup Places(post) = Places(b) \ span
  <2>1. 1..(i - 1) \subseteq 1..Len(b) /\ (j + 1)..Len(b) \subseteq 1..Len(b) BY <1>1
  <2>2. \A x \in 1..(i - 1) : b[x] \notin span BY <1>7, <2>1
  <2>3. \A x \in (j + 1)..Len(b) : b[x] \notin span BY <1>7, <2>1
  <2>4. \A x \in 1..Len(b) : b[x] \notin span => x \in 1..(i - 1) \cup (j + 1)..Len(b) BY <1>1, <1>7
  <2> QED BY <1>8, <2>1, <2>2, <2>3, <2>4 DEF Places
<1>10. Rising(pre) /\ Rising(post)
  <2>1. ASSUME NEW x \in 1..Len(pre), NEW y \in 1..Len(pre), x < y PROVE pre[x] < pre[y]
    <3>1. x \in 1..(i - 1) /\ y \in 1..(i - 1) BY <1>2
    <3>2. x \in 1..Len(b) /\ y \in 1..Len(b) BY <1>1, <3>1
    <3>3. b[x] < b[y] BY <1>1, <2>1, <3>2 DEF Rising
    <3> QED BY <1>2, <3>1, <3>3
  <2>2. ASSUME NEW x \in 1..Len(post), NEW y \in 1..Len(post), x < y PROVE post[x] < post[y]
    <3>1. j + x \in 1..Len(b) /\ j + y \in 1..Len(b) /\ j + x < j + y BY <1>1, <1>3, <2>2
    <3>2. b[j + x] < b[j + y] BY <1>1, <3>1 DEF Rising
    <3> QED BY <1>3, <3>2
  <2> QED BY <2>1, <2>2 DEF Rising
<1>11. \A x \in Places(pre), y \in Places(post) : x < y
  <2> SUFFICES ASSUME NEW x \in 1..(i - 1), NEW y \in (j + 1)..Len(b) PROVE b[x] < b[y] BY <1>8
  <2>1. x \in 1..Len(b) /\ y \in 1..Len(b) /\ x < y BY <1>1
  <2> QED BY <1>1, <2>1 DEF Rising
<1>12. \A x \in Places(o), y \in Places(pre) \cup Places(post) : x < y BY <1>9 DEF Whole
<1>13. /\ o \o pre \in Seq(Nat) /\ Places(o \o pre) = Places(o) \cup Places(pre) /\ Rising(o \o pre)
  BY <1>1, <1>2, <1>10, <1>12, JoinedPlaces, JoinedRising
<1>14. \A x \in Places(o) : x \notin span
  <2> SUFFICES ASSUME NEW x \in Places(o) PROVE x \notin span OBVIOUS
  <2>1. x < b[i] BY <1>4 DEF Whole
  <2>2. x \in 1..n BY DEF Whole
  <2>3. x \in Nat /\ b[i] \in Nat BY <1>1, <1>6, <2>2
  <2> QED BY <2>1, <2>3
<1>15. Places(o \o pre) \cup Places(post) = 1..n \ (cut \cup span)
  <2>1. Places(o) \cup Places(b) = 1..n \ cut BY DEF Whole
  <2> QED BY <1>9, <1>13, <1>14, <2>1
<1>16. cut \cup span \subseteq 1..n BY <1>5 DEF Whole
<1> HIDE DEF span
<1>17. Whole(o \o pre, post, n, cut \cup span)
  BY <1>1, <1>3, <1>10, <1>11, <1>12, <1>13, <1>15, <1>16 DEF Whole
<1> QED BY <1>17 DEF pre, post, span

----------------------------------------------------------------------------
(* The steps *)

\* The leftmost match is one of them.
LEMMA MatchExists ==
    ASSUME NEW s \in Streams, NEW b \in Seq(Nat), Stream!Matches(s, b) # {}
    PROVE  LET m == Stream!Match(s, b)
           IN  m[1] \in 1..Len(b) /\ m[2] \in 1..Len(b) /\ m[1] <= m[2]
<1> DEFINE M == Stream!Matches(s, b)
           T == {m[1] : m \in M}
<1>1. \A m \in M : m[1] \in 1..Len(b) /\ m[2] \in 1..Len(b) /\ m[1] <= m[2]
  <2> SUFFICES ASSUME NEW m \in M
               PROVE  m[1] \in 1..Len(b) /\ m[2] \in 1..Len(b) /\ m[1] <= m[2]
    OBVIOUS
  <2>1. m \in Stream!Tags(s, b) \X (1..Len(b)) /\ m[1] + 2 < m[2] BY DEF Stream!Matches
  <2>2. m[1] \in Stream!Tags(s, b) /\ m[2] \in 1..Len(b) BY <2>1
  <2>3. m[1] \in 1..Len(b) - 1 BY <2>2 DEF Stream!Tags
  <2>4. Len(b) \in Nat OBVIOUS
  <2> QED BY <2>1, <2>2, <2>3, <2>4
<1> HIDE DEF M
<1>2. T \in SUBSET Nat /\ T # {}
  <2>1. \A m \in M : m[1] \in Nat BY <1>1
  <2>2. M # {} BY DEF M
  <2> QED BY <2>1, <2>2
<1>3. PICK i \in T : \A x \in T : i <= x BY <1>2, Smallest
<1>4. PICK m \in M : m[1] = i BY <1>3
<1>5. \A x \in M : m[1] <= x[1] BY <1>3, <1>4
<1>6. Stream!Match(s, b) \in M BY <1>5 DEF Stream!Match, M
<1> QED BY <1>1, <1>6

\* A step of stream s alone.
LEMMA StreamSteps ==
    ASSUME StreamInv, NEW s \in Streams, NEW o, NEW b, NEW n, NEW S, Whole(o, b, n, UNION S),
           out' = [out EXCEPT ![s] = o], buffer' = [buffer EXCEPT ![s] = b],
           fed' = [fed EXCEPT ![s] = n], spans' = [spans EXCEPT ![s] = S]
    PROVE  StreamInv'
<1>1. /\ out = [u \in Streams |-> out[u]] /\ buffer = [u \in Streams |-> buffer[u]]
      /\ fed = [u \in Streams |-> fed[u]] /\ spans = [u \in Streams |-> spans[u]]
      /\ \A u \in Streams : Whole(out[u], buffer[u], fed[u], UNION spans[u])
  BY DEF StreamInv
<1>2. /\ out' = [u \in Streams |-> out'[u]] /\ buffer' = [u \in Streams |-> buffer'[u]]
      /\ fed' = [u \in Streams |-> fed'[u]] /\ spans' = [u \in Streams |-> spans'[u]]
  BY <1>1
<1>3. out'[s] = o /\ buffer'[s] = b /\ fed'[s] = n /\ spans'[s] = S BY <1>1
<1>4. \A u \in Streams \ {s} : /\ out'[u] = out[u] /\ buffer'[u] = buffer[u]
                               /\ fed'[u] = fed[u] /\ spans'[u] = spans[u]
  BY <1>1
<1>5. ASSUME NEW u \in Streams PROVE Whole(out'[u], buffer'[u], fed'[u], UNION spans'[u])
  <2>1. CASE u = s BY <1>3, <2>1
  <2>2. CASE u # s BY <1>1, <1>4, <2>2
  <2> QED BY <2>1, <2>2
<1> QED BY <1>2, <1>5 DEF StreamInv, Whole, Places, Rising

\* All that is held back is passed on, at the end of a tool or of the stream.
LEMMA FlushSteps ==
    ASSUME StreamInv, NEW s \in Streams, Stream!PassOn(s, buffer[s], <<>>), fed' = fed, spans' = spans
    PROVE  StreamInv'
<1> DEFINE o == out[s] \o buffer[s]
           n == fed[s]
           S == spans[s]
<1>1. Whole(o, <<>>, n, UNION S) BY Flushed DEF StreamInv
<1>2. out' = [out EXCEPT ![s] = o] /\ buffer' = [buffer EXCEPT ![s] = <<>>] BY DEF Stream!PassOn
<1>3. fed' = [fed EXCEPT ![s] = n] /\ spans' = [spans EXCEPT ![s] = S] BY DEF StreamInv
<1> HIDE DEF o, n, S
<1> QED BY <1>1, <1>2, <1>3, StreamSteps

LEMMA ChunkSteps ==
    ASSUME StreamInv, NEW s \in Streams, NEW k \in 1..MaxChunk, Stream!Chunk(s, k)
    PROVE  StreamInv'
<1> DEFINE b == buffer[s] \o [i \in 1..k |-> fed[s] + i]
           m == Stream!Match(s, b)
<1>1. k \in Nat BY BufferAssumption
<1>2. Whole(out[s], b, fed[s] + k, UNION spans[s]) BY <1>1, Arrived DEF StreamInv
<1>3. b \in Seq(Nat) BY <1>2 DEF Whole
<1>4. fed' = [fed EXCEPT ![s] = fed[s] + k] BY DEF Stream!Chunk
<1>5. \/ /\ Stream!Matches(s, b) # {}
         /\ Stream!PassOn(s, SubSeq(b, 1, m[1] - 1), SubSeq(b, m[2] + 1, Len(b)))
         /\ spans' = [spans EXCEPT ![s] = spans[s] \cup {b[m[1]]..b[m[2]]}]
      \/ Stream!PassOn(s, <<>>, b) /\ spans' = spans
      \/ Stream!PassOn(s, b, <<>>) /\ spans' = spans
  BY DEF Stream!Chunk
<1> HIDE DEF b, m
<1>6. CASE /\ Stream!Matches(s, b) # {}
           /\ Stream!PassOn(s, SubSeq(b, 1, m[1] - 1), SubSeq(b, m[2] + 1, Len(b)))
           /\ spans' = [spans EXCEPT ![s] = spans[s] \cup {b[m[1]]..b[m[2]]}]
  <2>1. m[1] \in 1..Len(b) /\ m[2] \in 1..Len(b) /\ m[1] <= m[2] BY <1>3, <1>6, MatchExists DEF m
  <2>2. UNION (spans[s] \cup {b[m[1]]..b[m[2]]}) = (UNION spans[s]) \cup b[m[1]]..b[m[2]] OBVIOUS
  <2>3. Whole(out[s] \o SubSeq(b, 1, m[1] - 1), SubSeq(b, m[2] + 1, Len(b)), fed[s] + k,
              UNION (spans[s] \cup {b[m[1]]..b[m[2]]}))
    BY <1>2, <2>1, <2>2, CutOut
  <2>4. /\ out' = [out EXCEPT ![s] = out[s] \o SubSeq(b, 1, m[1] - 1)]
        /\ buffer' = [buffer EXCEPT ![s] = SubSeq(b, m[2] + 1, Len(b))]
    BY <1>6 DEF Stream!PassOn
  <2> QED BY <1>4, <1>6, <2>3, <2>4, StreamSteps
<1>7. ASSUME spans' = spans PROVE spans' = [spans EXCEPT ![s] = spans[s]] BY <1>7 DEF StreamInv
<1>8. CASE Stream!PassOn(s, <<>>, b) /\ spans' = spans
  <2>1. out[s] \o <<>> = out[s] BY <1>2 DEF Whole
  <2>2. out' = [out EXCEPT ![s] = out[s]] /\ buffer' = [buffer EXCEPT ![s] = b]
    BY <1>8, <2>1 DEF Stream!PassOn
  <2> QED BY <1>2, <1>4, <1>7, <1>8, <2>2, StreamSteps
<1>9. CASE Stream!PassOn(s, b, <<>>) /\ spans' = spans
  <2>1. out' = [out EXCEPT ![s] = out[s] \o b] /\ buffer' = [buffer EXCEPT ![s] = <<>>]
    BY <1>9 DEF Stream!PassOn
  <2>2. Whole(out[s] \o b, <<>>, fed[s] + k, UNION spans[s]) BY <1>2, Flushed
  <2> QED BY <1>4, <1>7, <1>9, <2>1, <2>2, StreamSteps
<1> QED BY <1>5, <1>6, <1>8, <1>9

LEMMA StreamStarts == Stream!Init => StreamInv
<1> SUFFICES ASSUME Stream!Init PROVE StreamInv OBVIOUS
<1>1. Whole(<<>>, <<>>, 0, UNION {}) BY NoPlaces DEF Whole
<1> QED BY <1>1 DEF Stream!Init, StreamInv

LEMMA StreamStays == ASSUME StreamInv, UNCHANGED <<fed, buffer, out, spans>> PROVE StreamInv'
<1>1. out' = out /\ buffer' = buffer /\ fed' = fed /\ spans' = spans OBVIOUS
<1>2. \A s \in Streams : Whole(out'[s], buffer'[s], fed'[s], UNION spans'[s]) BY <1>1 DEF StreamInv
<1> QED BY <1>1, <1>2 DEF StreamInv, Whole, Places, Rising

LEMMA StreamStep == StreamInv /\ [Stream!Next]_stream => StreamInv'
<1> SUFFICES ASSUME StreamInv, [Stream!Next]_stream PROVE StreamInv' OBVIOUS
<1>1. ASSUME NEW s \in Streams, Stream!Read(s) PROVE StreamInv' BY <1>1, ChunkSteps DEF Stream!Read
<1>2. ASSUME NEW s \in Streams, Stream!BuiltinEnds(s) PROVE StreamInv'
  BY <1>2, FlushSteps DEF Stream!BuiltinEnds, Stream!EndTool
<1>3. ASSUME NEW s \in Streams, Stream!PluginEnds(s) PROVE StreamInv'
  BY <1>3, FlushSteps DEF Stream!PluginEnds, Stream!EndTool
<1>4. ASSUME NEW s \in Streams, Stream!EndOfStream(s) PROVE StreamInv'
  BY <1>4, FlushSteps DEF Stream!EndOfStream
<1>5. ASSUME NEW s \in Streams, Stream!Leave(s) PROVE StreamInv'
  BY <1>5, StreamStays DEF Stream!Leave
<1>6. ASSUME NEW s \in Streams, Stream!Process(s) PROVE StreamInv'
  BY <1>6, StreamStays DEF Stream!Process, Stream!stream
<1>7. CASE UNCHANGED stream BY <1>7, StreamStays DEF stream
<1> QED BY <1>1, <1>2, <1>3, <1>4, <1>5, <1>6, <1>7 DEF Stream!Next

THEOREM StreamInductive == Stream!Spec => []StreamInv
BY StreamStarts, StreamStep, PTL DEF Stream!Spec, Stream!vars, stream

\* For any answers, however they are cut into chunks and wherever the tags of calls
\* stand in them, the client gets every token once and in order, but for the calls
\* that were executed (tool_runner.py:76-119).
THEOREM TextConservedAlways == Stream!Spec => []TextConserved
<1>1. ASSUME StreamInv, NEW s \in Streams
      PROVE  LET all == out[s] \o buffer[s]
             IN  /\ {all[i] : i \in 1..Len(all)} = 1..fed[s] \ UNION spans[s]
                 /\ \A i, j \in 1..Len(all) : i < j => all[i] < all[j]
  <2>1. Whole(out[s], buffer[s], fed[s], UNION spans[s]) BY <1>1 DEF StreamInv
  <2>2. /\ Places(out[s] \o buffer[s]) = 1..fed[s] \ UNION spans[s]
        /\ Rising(out[s] \o buffer[s])
    BY <2>1, WholeJoined
  <2> QED BY <2>2 DEF Places, Rising
<1>2. StreamInv => TextConserved BY <1>1 DEF TextConserved, Stream!TextConserved
<1> QED BY <1>2, StreamInductive, PTL

=============================================================================
