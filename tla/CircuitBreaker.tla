--------------------------- MODULE CircuitBreaker ---------------------------
(***************************************************************************)
(* The circuit breaker of one tool (ruhu/tools/circuit_breaker.py) and the *)
(* calls of the tool runtime that share it (ruhu/tools/runtime.py).        *)
(*                                                                         *)
(* can_execute, record_success and record_failure each run under the       *)
(* breaker's lock.  Between them a call passes the rate limiter, looks up  *)
(* its executor and runs, and any of these may end it without an outcome   *)
(* being recorded.  Outcomes are recorded in whatever state the breaker is *)
(* in by then, not the one the call was admitted in.                       *)
(***************************************************************************)
EXTENDS Naturals, FiniteSets

CONSTANTS
    Calls,              \* callers of the tool in this process
    FailureThreshold,   \* failure_threshold
    SuccessThreshold,   \* success_threshold
    HalfOpenMaxCalls,   \* half_open_max_calls
    MaxLost             \* bound: probes of one half-open period that record nothing

ASSUME BreakerAssumption ==
    /\ FailureThreshold \in Nat \ {0}
    /\ SuccessThreshold \in Nat \ {0}
    /\ HalfOpenMaxCalls \in Nat \ {0}
    /\ MaxLost \in Nat

ASSUME CallsAssumption == IsFiniteSet(Calls)

VARIABLES
    state,           \* _state
    failures,        \* _failures
    successes,       \* _successes
    halfOpenCalls,   \* _half_open_calls
    elapsed,         \* timeout_seconds since _last_failure
    at,              \* where each call is
    healthy,         \* the tool works from now on
    probes,          \* history: calls admitted in this half-open period, still in flight
    lost,            \* history: those that ended without an outcome
    failStreak,      \* history: latest recorded outcomes that were failures, capped
    okStreak         \* history: latest outcomes, of the half-open period, that were successes

vars == <<state, failures, successes, halfOpenCalls, elapsed, at,
          healthy, probes, lost, failStreak, okStreak>>

breaker == <<state, failures, successes, halfOpenCalls, elapsed>>

Capped(n, bound) == IF n < bound THEN n + 1 ELSE bound

-----------------------------------------------------------------------------

Init ==
    /\ state = "closed"
    /\ failures = 0 /\ successes = 0 /\ halfOpenCalls = 0
    /\ elapsed = FALSE
    /\ at = [c \in Calls |-> "out"]
    /\ healthy = FALSE
    /\ probes = {} /\ lost = 0
    /\ failStreak = 0 /\ okStreak = 0

Admitted(c) == at' = [at EXCEPT ![c] = "admitted"]

\* can_execute while closed.
AdmitClosed(c) ==
    /\ at[c] = "out"
    /\ state = "closed"
    /\ Admitted(c)
    /\ UNCHANGED <<breaker, healthy, probes, lost, failStreak, okStreak>>

\* MUTANT of AdmitFirstProbe: the successes of the last half-open period still count.
AdmitKeepsSuccesses(c) ==
    /\ at[c] = "out"
    /\ state = "open" /\ elapsed
    /\ state' = "half_open"
    /\ halfOpenCalls' = 1
    /\ Admitted(c)
    /\ probes' = {c} /\ lost' = 0 /\ okStreak' = 0
    /\ UNCHANGED <<failures, successes, elapsed, healthy, failStreak>>

\* MUTANT of AdmitFirstProbe: the probes of the last half-open period still count.
AdmitKeepsProbeCount(c) ==
    /\ at[c] = "out"
    /\ state = "open" /\ elapsed
    /\ state' = "half_open"
    /\ successes' = 0
    /\ \/ /\ halfOpenCalls < HalfOpenMaxCalls
          /\ halfOpenCalls' = halfOpenCalls + 1
          /\ Admitted(c) /\ probes' = {c}
       \/ /\ halfOpenCalls >= HalfOpenMaxCalls
          /\ probes' = {}
          /\ UNCHANGED <<halfOpenCalls, at>>
    /\ lost' = 0 /\ okStreak' = 0
    /\ UNCHANGED <<failures, elapsed, healthy, failStreak>>

\* can_execute while open, timeout_seconds after the last failure: half-open,
\* and this call is its first probe.
AdmitFirstProbe(c) ==
    /\ at[c] = "out"
    /\ state = "open" /\ elapsed
    /\ state' = "half_open"
    /\ halfOpenCalls' = 1
    /\ successes' = 0
    /\ Admitted(c)
    /\ probes' = {c} /\ lost' = 0 /\ okStreak' = 0
    /\ UNCHANGED <<failures, elapsed, healthy, failStreak>>

\* can_execute while half-open: nothing ever gives a probe's place back.
AdmitProbe(c) ==
    /\ at[c] = "out"
    /\ state = "half_open"
    /\ halfOpenCalls < HalfOpenMaxCalls
    /\ halfOpenCalls' = halfOpenCalls + 1
    /\ Admitted(c)
    /\ probes' = probes \cup {c}
    /\ UNCHANGED <<state, failures, successes, elapsed, healthy, lost, failStreak, okStreak>>

\* The rate limiter lets the call pass and its executor exists.
Start(c) ==
    /\ at[c] = "admitted"
    /\ at' = [at EXCEPT ![c] = "executing"]
    /\ UNCHANGED <<breaker, healthy, probes, lost, failStreak, okStreak>>

\* The call ends without an outcome: it is rate limited, has no executor, its
\* task is cancelled, or the runtime raises outside the try.
Abandon(c) ==
    /\ at[c] \in {"admitted", "executing"}
    /\ c \in probes /\ state = "half_open" => lost < MaxLost
    /\ lost' = IF c \in probes THEN lost + 1 ELSE lost
    /\ probes' = probes \ {c}
    /\ at' = [at EXCEPT ![c] = "out"]
    /\ UNCHANGED <<breaker, healthy, failStreak, okStreak>>

Finished(c) ==
    /\ at[c] = "executing"
    /\ at' = [at EXCEPT ![c] = "out"]
    /\ probes' = probes \ {c}
    /\ UNCHANGED <<healthy, lost>>

\* record_success.
RecordSuccess ==
    /\ successes' = IF state = "half_open" THEN successes + 1 ELSE successes
    /\ state' = IF state = "half_open" /\ successes' >= SuccessThreshold THEN "closed" ELSE state
    /\ failures' = IF state' = "closed" THEN 0 ELSE failures
    /\ failStreak' = 0
    /\ okStreak' = Capped(okStreak, SuccessThreshold)
    /\ UNCHANGED <<halfOpenCalls, elapsed>>

\* MUTANT of RecordFailure: it takes one failure more than the threshold.
RecordFailureBeyond ==
    /\ elapsed' = FALSE
    /\ failures' = IF state = "closed" THEN failures + 1 ELSE failures
    /\ state' = IF state = "half_open" \/ (state = "closed" /\ failures' > FailureThreshold)
                THEN "open" ELSE state
    /\ failStreak' = Capped(failStreak, FailureThreshold)
    /\ okStreak' = 0
    /\ UNCHANGED <<successes, halfOpenCalls>>

\* record_failure.  A late failure also restarts the timeout of an open breaker.
RecordFailure ==
    /\ elapsed' = FALSE
    /\ failures' = IF state = "closed" THEN failures + 1 ELSE failures
    /\ state' = IF state = "half_open" \/ (state = "closed" /\ failures' >= FailureThreshold)
                THEN "open" ELSE state
    /\ failStreak' = Capped(failStreak, FailureThreshold)
    /\ okStreak' = 0
    /\ UNCHANGED <<successes, halfOpenCalls>>

\* The executor returns a result.
Succeed(c) == Finished(c) /\ RecordSuccess

\* The executor raises or runs into its timeout.
Fail(c) == ~ healthy /\ Finished(c) /\ RecordFailure

\* It returns a result whose status is error: a failure to the synchronous
\* entry point, a success to the asynchronous one.
ReturnError(c) == ~ healthy /\ Finished(c) /\ (RecordFailure \/ RecordSuccess)

\* timeout_seconds have passed since the last failure.
TimeoutElapses ==
    /\ state = "open" /\ ~ elapsed
    /\ elapsed' = TRUE
    /\ UNCHANGED <<state, failures, successes, halfOpenCalls, at,
                   healthy, probes, lost, failStreak, okStreak>>

\* The tool recovers.
Heal ==
    /\ ~ healthy
    /\ healthy' = TRUE
    /\ UNCHANGED <<breaker, at, probes, lost, failStreak, okStreak>>

Admit(c) == AdmitClosed(c) \/ AdmitFirstProbe(c) \/ AdmitProbe(c)

Run(c) == Start(c) \/ Succeed(c) \/ Fail(c) \/ ReturnError(c) \/ Abandon(c)

Next ==
    \/ \E c \in Calls : Admit(c) \/ Run(c)
    \/ TimeoutElapses
    \/ Heal

Spec == Init /\ [][Next]_vars

\* The tool goes on being called, a call that is admitted ends, and time passes.
FairSpec ==
    /\ Spec
    /\ WF_vars(\E c \in Calls : Admit(c))
    /\ \A c \in Calls : WF_vars(Run(c))
    /\ WF_vars(TimeoutElapses)

-----------------------------------------------------------------------------

\* The counters stay within the thresholds in each state: a closed breaker has
\* not reached its failures, a half-open one not its successes, and no
\* half-open period admits more than half_open_max_calls.
TypeOK ==
    /\ state \in {"closed", "open", "half_open"}
    /\ failures \in 0 .. FailureThreshold
    /\ successes \in 0 .. SuccessThreshold
    /\ halfOpenCalls \in 0 .. HalfOpenMaxCalls
    /\ elapsed \in BOOLEAN
    /\ at \in [Calls -> {"out", "admitted", "executing"}]
    /\ healthy \in BOOLEAN
    /\ probes \in SUBSET {c \in Calls : at[c] # "out"}
    /\ lost \in Nat
    /\ failStreak \in 0 .. FailureThreshold
    /\ okStreak \in 0 .. SuccessThreshold
    /\ state = "closed" => failures < FailureThreshold
    /\ state = "half_open" => successes < SuccessThreshold

\* The breaker trips from closed only when the latest failure_threshold
\* outcomes recorded were failures, whenever their calls were admitted; it closes
\* only when the latest success_threshold outcomes of this half-open period were
\* successes, none left over from an earlier period.
SwitchIsEarned ==
    [][/\ state = "closed" /\ state' = "open" => failStreak' = FailureThreshold
       /\ state = "half_open" /\ state' = "closed" => okStreak' = SuccessThreshold]_vars

\* A half-open breaker with no probe in flight admits the next call.
IdleBreakerAdmits ==
    state = "half_open" /\ probes = {} => halfOpenCalls < HalfOpenMaxCalls

\* Once the tool works again the breaker closes, and stays closed.
Recovers == healthy ~> [](state = "closed")
=============================================================================
