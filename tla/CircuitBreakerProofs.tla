------------------------ MODULE CircuitBreakerProofs ------------------------
(***************************************************************************)
(* Proofs about the circuit breaker, for any number of calls and any       *)
(* thresholds: the counters stay in range, the breaker switches only on    *)
(* outcomes of the right kind, and it never locks itself up as long as it  *)
(* has more probes than successes to wait for and outcomes to lose.        *)
(***************************************************************************)
EXTENDS CircuitBreaker, FiniteSetTheorems, TLAPS

\* The breaker's failures are the latest outcomes, all failures.
FailuresAreLatest == state = "closed" => failures <= failStreak

\* Its successes are the latest outcomes of this half-open period.
SuccessesAreLatest == state = "half_open" => successes <= okStreak

\* Every place of a half-open period went to a success, to a probe in flight
\* or to a probe that recorded nothing.
ProbesAccounted ==
    state = "half_open" =>
        /\ lost <= MaxLost
        /\ halfOpenCalls <= successes + Cardinality(probes) + lost

BreakerInv == TypeOK /\ FailuresAreLatest /\ SuccessesAreLatest /\ ProbesAccounted

-----------------------------------------------------------------------------

\* What a set of calls in flight counts, before and after one call joins or leaves.
LEMMA ProbeCounts ==
    ASSUME NEW S \in SUBSET Calls, NEW c \in Calls
    PROVE  /\ Cardinality(S) \in Nat
           /\ Cardinality({c}) = 1
           /\ c \notin S => Cardinality(S \cup {c}) = Cardinality(S) + 1
           /\ Cardinality(S \ {c}) = IF c \in S THEN Cardinality(S) - 1 ELSE Cardinality(S)
<1>1. IsFiniteSet(S)
  BY FS_Subset, CallsAssumption
<1>2. Cardinality(S) \in Nat
  BY <1>1, FS_CardinalityType
<1>3. Cardinality({c}) = 1
  BY FS_Singleton
<1>4. c \notin S => Cardinality(S \cup {c}) = Cardinality(S) + 1
  BY <1>1, FS_AddElement
<1>5. Cardinality(S \ {c}) = IF c \in S THEN Cardinality(S) - 1 ELSE Cardinality(S)
  BY <1>1, FS_RemoveElement
<1> QED
  BY <1>2, <1>3, <1>4, <1>5

\* Initially the breaker is closed and nobody calls.
LEMMA InitBreaker == Init => BreakerInv
<1> SUFFICES ASSUME Init PROVE BreakerInv
  OBVIOUS
<1>1. TypeOK
  <2>1. elapsed \in BOOLEAN /\ healthy \in BOOLEAN
    BY DEF Init
  <2>2. at \in [Calls -> {"out", "admitted", "executing"}]
    BY DEF Init
  <2>3. probes \in SUBSET {c \in Calls : at[c] # "out"}
    BY DEF Init
  <2> QED
    BY <2>1, <2>2, <2>3, BreakerAssumption DEF Init, TypeOK
<1>2. FailuresAreLatest
  BY DEF Init, FailuresAreLatest
<1>3. SuccessesAreLatest /\ ProbesAccounted
  BY DEF Init, SuccessesAreLatest, ProbesAccounted
<1> QED
  BY <1>1, <1>2, <1>3 DEF BreakerInv

\* Admission takes a place of the half-open period for a call not yet in flight.
LEMMA AdmitKeeps ==
    ASSUME BreakerInv, NEW c \in Calls, Admit(c)
    PROVE  BreakerInv'
<1>1. probes \in SUBSET Calls /\ (at[c] = "out" => c \notin probes)
  BY DEF BreakerInv, TypeOK
<1>2. /\ Cardinality(probes) \in Nat /\ Cardinality({c}) = 1
      /\ c \notin probes => Cardinality(probes \cup {c}) = Cardinality(probes) + 1
  BY <1>1, ProbeCounts
<1>3. CASE AdmitClosed(c)
  BY <1>3, BreakerAssumption
     DEF BreakerInv, TypeOK, FailuresAreLatest, SuccessesAreLatest, ProbesAccounted,
         AdmitClosed, Admitted, breaker
<1>4. CASE AdmitFirstProbe(c)
  BY <1>2, <1>4, BreakerAssumption
     DEF BreakerInv, TypeOK, FailuresAreLatest, SuccessesAreLatest, ProbesAccounted,
         AdmitFirstProbe, Admitted
<1>5. CASE AdmitProbe(c)
  <2>1. TypeOK'
    BY <1>5, BreakerAssumption DEF BreakerInv, TypeOK, AdmitProbe, Admitted
  <2>2. FailuresAreLatest' /\ SuccessesAreLatest'
    BY <1>5 DEF BreakerInv, FailuresAreLatest, SuccessesAreLatest, AdmitProbe
  <2>3. ProbesAccounted'
    BY <1>1, <1>2, <1>5, BreakerAssumption DEF BreakerInv, TypeOK, ProbesAccounted, AdmitProbe
  <2> QED
    BY <2>1, <2>2, <2>3 DEF BreakerInv
<1> QED
  BY <1>3, <1>4, <1>5 DEF Admit

\* Starting to execute changes nothing the breaker counts.
LEMMA StartKeeps ==
    ASSUME BreakerInv, NEW c \in Calls, Start(c)
    PROVE  BreakerInv'
BY BreakerAssumption
   DEF BreakerInv, TypeOK, FailuresAreLatest, SuccessesAreLatest, ProbesAccounted, Start, breaker

\* A probe that records nothing is counted as lost instead of in flight.
LEMMA AbandonKeeps ==
    ASSUME BreakerInv, NEW c \in Calls, Abandon(c)
    PROVE  BreakerInv'
<1>1. probes \in SUBSET Calls
  BY DEF BreakerInv, TypeOK
<1>2. /\ Cardinality(probes) \in Nat
      /\ Cardinality(probes \ {c}) = IF c \in probes THEN Cardinality(probes) - 1
                                                    ELSE Cardinality(probes)
  BY <1>1, ProbeCounts
<1>3. TypeOK'
  BY BreakerAssumption DEF BreakerInv, TypeOK, Abandon, breaker
<1>4. FailuresAreLatest' /\ SuccessesAreLatest'
  BY DEF BreakerInv, FailuresAreLatest, SuccessesAreLatest, Abandon, breaker
<1>5. ProbesAccounted'
  BY <1>2, BreakerAssumption DEF BreakerInv, TypeOK, ProbesAccounted, Abandon, breaker
<1> QED
  BY <1>3, <1>4, <1>5 DEF BreakerInv

\* A success takes over the place of its probe, if it was one.
LEMMA SuccessKeeps ==
    ASSUME BreakerInv, NEW c \in Calls, Finished(c), RecordSuccess
    PROVE  BreakerInv'
<1>1. probes \in SUBSET Calls
  BY DEF BreakerInv, TypeOK
<1>2. /\ Cardinality(probes) \in Nat
      /\ Cardinality(probes \ {c}) = IF c \in probes THEN Cardinality(probes) - 1
                                                    ELSE Cardinality(probes)
  BY <1>1, ProbeCounts
<1>3. TypeOK'
  BY BreakerAssumption DEF BreakerInv, TypeOK, Finished, RecordSuccess, Capped
<1>4. FailuresAreLatest' /\ SuccessesAreLatest'
  BY BreakerAssumption
     DEF BreakerInv, TypeOK, FailuresAreLatest, SuccessesAreLatest, RecordSuccess, Capped
<1>5. ProbesAccounted'
  BY <1>2, BreakerAssumption DEF BreakerInv, TypeOK, ProbesAccounted, Finished, RecordSuccess
<1> QED
  BY <1>3, <1>4, <1>5 DEF BreakerInv

\* A failure ends the half-open period, or counts towards the next trip.
LEMMA FailureKeeps ==
    ASSUME BreakerInv, NEW c \in Calls, Finished(c), RecordFailure
    PROVE  BreakerInv'
<1>1. TypeOK'
  <2>1. /\ at' \in [Calls -> {"out", "admitted", "executing"}]
        /\ probes' \in SUBSET {q \in Calls : at'[q] # "out"}
        /\ healthy' \in BOOLEAN /\ lost' \in Nat
    BY DEF BreakerInv, TypeOK, Finished
  <2>2. /\ state' \in {"closed", "open", "half_open"}
        /\ failures' \in 0 .. FailureThreshold
        /\ state' = "closed" => failures' < FailureThreshold
        /\ state' # "half_open"
    BY BreakerAssumption DEF BreakerInv, TypeOK, RecordFailure
  <2>3. /\ successes' \in 0 .. SuccessThreshold
        /\ halfOpenCalls' \in 0 .. HalfOpenMaxCalls
        /\ elapsed' \in BOOLEAN
    BY DEF BreakerInv, TypeOK, RecordFailure
  <2>4. failStreak' \in 0 .. FailureThreshold /\ okStreak' \in 0 .. SuccessThreshold
    BY BreakerAssumption DEF BreakerInv, TypeOK, RecordFailure, Capped
  <2> QED
    BY <2>1, <2>2, <2>3, <2>4 DEF TypeOK
<1>2. FailuresAreLatest' /\ SuccessesAreLatest'
  BY BreakerAssumption
     DEF BreakerInv, TypeOK, FailuresAreLatest, SuccessesAreLatest, RecordFailure, Capped
<1>3. ProbesAccounted'
  BY BreakerAssumption DEF BreakerInv, TypeOK, ProbesAccounted, RecordFailure
<1> QED
  BY <1>1, <1>2, <1>3 DEF BreakerInv

-----------------------------------------------------------------------------

\* The inductive invariant of the breaker: its counters are backed by the
\* latest outcomes, and every place of a half-open period is accounted for.
THEOREM BreakerInvariance == Spec => []BreakerInv
<1>1. BreakerInv /\ [Next]_vars => BreakerInv'
  <2> SUFFICES ASSUME BreakerInv, [Next]_vars
               PROVE  BreakerInv'
    OBVIOUS
  <2>1. ASSUME NEW c \in Calls, Admit(c)
        PROVE  BreakerInv'
    BY <2>1, AdmitKeeps
  <2>2. ASSUME NEW c \in Calls, Run(c)
        PROVE  BreakerInv'
    BY <2>2, StartKeeps, AbandonKeeps, SuccessKeeps, FailureKeeps
       DEF Run, Succeed, Fail, ReturnError
  <2>3. CASE TimeoutElapses
    BY <2>3 DEF BreakerInv, TypeOK, FailuresAreLatest, SuccessesAreLatest, ProbesAccounted,
                TimeoutElapses
  <2>4. CASE Heal
    BY <2>4 DEF BreakerInv, TypeOK, FailuresAreLatest, SuccessesAreLatest, ProbesAccounted,
                Heal, breaker
  <2>5. CASE UNCHANGED vars
    BY <2>5 DEF BreakerInv, TypeOK, FailuresAreLatest, SuccessesAreLatest, ProbesAccounted, vars
  <2> QED
    BY <2>1, <2>2, <2>3, <2>4, <2>5 DEF Next
<1> QED
  BY InitBreaker, <1>1, PTL DEF Spec

\* The counters stay within the thresholds whatever calls overlap.
THEOREM BreakerTypes == Spec => []TypeOK
BY BreakerInvariance, PTL DEF BreakerInv

\* The breaker trips and closes only on the latest outcomes, all of one kind.
THEOREM SwitchesEarned == Spec => SwitchIsEarned
<1> DEFINE Step == /\ state = "closed" /\ state' = "open" => failStreak' = FailureThreshold
                   /\ state = "half_open" /\ state' = "closed" => okStreak' = SuccessThreshold
<1>1. BreakerInv /\ [Next]_vars => [Step]_vars
  <2> SUFFICES ASSUME BreakerInv, Next PROVE Step
    OBVIOUS
  <2>1. CASE RecordSuccess
    BY <2>1, BreakerAssumption
       DEF BreakerInv, TypeOK, SuccessesAreLatest, RecordSuccess, Capped
  <2>2. CASE RecordFailure
    BY <2>2, BreakerAssumption
       DEF BreakerInv, TypeOK, FailuresAreLatest, RecordFailure, Capped
  <2>3. ASSUME NEW c \in Calls, Admit(c) \/ Start(c) \/ Abandon(c)
        PROVE  Step
    BY <2>3 DEF Admit, AdmitClosed, AdmitFirstProbe, AdmitProbe, Start, Abandon, breaker
  <2>4. CASE TimeoutElapses \/ Heal
    BY <2>4 DEF TimeoutElapses, Heal, breaker
  <2> QED
    BY <2>1, <2>2, <2>3, <2>4 DEF Next, Run, Succeed, Fail, ReturnError
<1> QED
  BY <1>1, BreakerInvariance, PTL DEF Spec, SwitchIsEarned

\* A half-open breaker with no probe in flight admits the next call whenever
\* half_open_max_calls covers the successes it waits for and the probes of a
\* period that record no outcome: this is what the configuration has to ensure.
THEOREM NeverLocksUp ==
    ASSUME MaxLost + SuccessThreshold <= HalfOpenMaxCalls
    PROVE  Spec => []IdleBreakerAdmits
<1>1. BreakerInv => IdleBreakerAdmits
  <2>1. Cardinality({}) = 0
    BY FS_EmptySet
  <2> QED
    BY <2>1, BreakerAssumption DEF BreakerInv, TypeOK, ProbesAccounted, IdleBreakerAdmits
<1> QED
  BY <1>1, BreakerInvariance, PTL

=============================================================================
