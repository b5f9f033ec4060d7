--------------------------- MODULE ToolIntegration ---------------------------
(***************************************************************************)
(* One deferred tool call: its row in tool_integration_jobs                *)
(* (ruhu/tools/integration_store.py), the invocation it belongs to, and    *)
(* everybody who moves them (integration_runtime.py, integration_worker.py *)
(* and cancel of runtime.py): the call that submits it, the workers that   *)
(* claim it, the webhook handlers, the stuck-job sweep and a user who      *)
(* cancels.                                                                *)
(*                                                                         *)
(* Each of them loads the job, changes its copy and saves the whole row in *)
(* another transaction, then writes the invocation in a third.  The claim  *)
(* selects without a lock; only a worker's heartbeat looks at the owner.   *)
(***************************************************************************)
EXTENDS Naturals, FiniteSets

CONSTANTS
    Workers,      \* worker loops, each in a process of its own
    Handlers,     \* webhook requests under way at once
    Submitter,    \* the tool call that defers itself
    Sweeper,      \* sweep_stuck_jobs
    Canceller,    \* a user's cancel
    None,
    MaxAttempts,  \* max_attempts of the job
    MaxRounds,    \* bound: answers of the provider that settle nothing, and raised submissions
    MaxFaults,    \* bound: crashes, failed writes, pauses longer than a lease
    MaxSlips      \* bound: see slips

Actors == Workers \cup Handlers \cup {Submitter, Sweeper, Canceller}

ASSUME IntegrationAssumption ==
    /\ MaxAttempts \in Nat \ {0} /\ MaxRounds \in Nat /\ MaxFaults \in Nat /\ MaxSlips \in Nat
    /\ Workers \cap Handlers = {}
    /\ None \notin Workers
    /\ {Submitter, Sweeper, Canceller} \cap (Workers \cup Handlers) = {}
    /\ Submitter # Sweeper /\ Sweeper # Canceller /\ Submitter # Canceller

VARIABLES
    job,         \* the row
    invocation,  \* status of the tool invocation
    at,          \* where each actor is
    op,          \* the status a worker claimed the job from, or an actor is about to give it
    mem,         \* attempt_count of the copy an actor loaded; a transition sets the rest
    tries,       \* attempt_count of the copy a worker claimed
    rounds,      \* answers that settled nothing so far
    faults,      \* faults so far
    external,    \* history: what the provider has of the job
    dup,         \* history: submitted to the provider again although it had it
    slips,       \* times an actor took the job up inside another's load-to-save window
    outcome      \* history: the first terminal status

vars == <<job, invocation, at, op, mem, tries, rounds, faults, external, dup, slips, outcome>>

Terminal == {"completed", "failed", "cancelled", "dead_lettered"}
Waiting == {"queued", "waiting_poll", "waiting_webhook", "retry_scheduled"}

Row == [status : {"absent", "running"} \cup Waiting \cup Terminal,
        worker : Workers \cup {None},
        live : BOOLEAN,       \* lease_expires_at lies ahead
        due : BOOLEAN,        \* next_poll_at or next_retry_at has passed
        stale : BOOLEAN,      \* no progress for stuck_timeout_seconds
        attempts : Nat]

NewJob == [status |-> "queued", worker |-> None, live |-> FALSE, due |-> FALSE,
           stale |-> FALSE, attempts |-> 0]

Open(j) == j.status # "absent" /\ j.status \notin Terminal

Init ==
    /\ job = [NewJob EXCEPT !.status = "absent"]
    /\ invocation = "pending"
    /\ at = [p \in Actors |-> "idle"]
    /\ op = [p \in Actors |-> "queued"]
    /\ mem = [p \in Actors |-> 0]
    /\ tries = [w \in Workers |-> 0]
    /\ rounds = 0 /\ faults = 0 /\ slips = 0
    /\ external = "none"
    /\ dup = FALSE
    /\ outcome = "none"

Goto(p, place) == at' = [at EXCEPT ![p] = place]

\* p is done and forgets its copies.
Leave(p) ==
    /\ Goto(p, "idle")
    /\ op' = [op EXCEPT ![p] = "queued"]
    /\ mem' = [mem EXCEPT ![p] = 0]
    /\ tries' = [w \in Workers |-> IF w = p THEN 0 ELSE tries[w]]

\* p has loaded what it will write from, or is about to load it.
InWindow(p) == at[p] \notin {"idle", "executing", "asked"}

\* p takes the job up.
TakesUp(p) ==
    IF \E q \in Actors \ {p} : InWindow(q)
    THEN slips < MaxSlips /\ slips' = slips + 1
    ELSE slips' = slips

-----------------------------------------------------------------------------
(* The deferred call.                                                      *)

\* submit: create_or_get_for_invocation inserts the job ...
CreateJob ==
    /\ at[Submitter] = "idle" /\ job.status = "absent"
    /\ job' = NewJob
    /\ Goto(Submitter, "saved")
    /\ op' = [op EXCEPT ![Submitter] = "queued"]
    /\ UNCHANGED <<invocation, mem, tries, rounds, faults, external, dup, slips, outcome>>

-----------------------------------------------------------------------------
(* Workers: process_available_jobs_once.                                   *)

\* MUTANT of Claimable: a running job may be claimed under its lease.
ClaimableWhileLeased(j) ==
    \/ j.status = "queued"
    \/ j.status \in {"retry_scheduled", "waiting_poll"} /\ j.due
    \/ j.status = "running"

\* _claimable_record_predicate.
Claimable(j) ==
    \/ j.status = "queued"
    \/ j.status \in {"retry_scheduled", "waiting_poll"} /\ j.due
    \/ j.status = "running" /\ ~ j.live

\* claim_next_job selects the row, without FOR UPDATE ...
SelectJob(w) ==
    /\ at[w] = "idle"
    /\ Claimable(job)
    /\ op' = [op EXCEPT ![w] = job.status]
    /\ mem' = [mem EXCEPT ![w] = job.attempts]
    /\ Goto(w, "claiming")
    /\ TakesUp(w)
    /\ UNCHANGED <<job, invocation, tries, rounds, faults, external, dup, outcome>>

\* MUTANT of Polls: the status before the claim is not told from any other.
PollsNever(w) == op[w] = "waiting_webhook"

\* _execute_claimed_job polls a job claimed from waiting_poll and submits any other.
Polls(w) == op[w] = "waiting_poll"

\* ... and updates the columns that changed: a job found running keeps the
\* status it has by now, any other is set running.
ClaimJob(w) ==
    /\ at[w] = "claiming"
    /\ job' = [job EXCEPT !.status = IF op[w] = "running" THEN @ ELSE "running",
                          !.worker = w, !.live = TRUE, !.due = FALSE, !.stale = FALSE,
                          !.attempts = mem[w] + 1]
    /\ tries' = [tries EXCEPT ![w] = mem[w] + 1]
    /\ mem' = [mem EXCEPT ![w] = 0]
    /\ dup' = (dup \/ (~ Polls(w) /\ external \in {"held", "done"}))
    /\ Goto(w, "executing")
    /\ UNCHANGED <<invocation, op, rounds, faults, external, slips, outcome>>

\* _run_heartbeat_loop while the row is still this worker's.
Heartbeat(w) ==
    /\ at[w] \notin {"idle", "claiming"}
    /\ job.status = "running" /\ job.worker = w
    /\ ~ job.live \/ job.stale
    /\ job' = [job EXCEPT !.live = TRUE, !.stale = FALSE]
    /\ UNCHANGED <<invocation, at, op, mem, tries, rounds, faults, external, dup, slips, outcome>>

\* What an answer of the provider makes of the job, and of the provider's own record.
Settling == {"completed", "failed"}
Answers(answer) ==
    /\ rounds' = IF answer \in Settling THEN rounds ELSE rounds + 1
    /\ external' = CASE answer \in Settling -> "done"
                     [] answer = "retry_scheduled" -> "none"
                     [] OTHER -> "held"

\* submit_deferred or poll_deferred returns a transition.
ExecutorReturns(w, answer) ==
    /\ at[w] = "executing"
    /\ answer \in Settling \/ rounds < MaxRounds
    /\ Answers(answer)
    /\ op' = [op EXCEPT ![w] = answer]
    /\ Goto(w, "decided")
    /\ UNCHANGED <<job, invocation, mem, tries, faults, dup, slips, outcome>>

\* MUTANT of AfterError: the status from before the claim is restored.
AfterErrorRestored(w) == op[w]

\* The except branch of _execute_claimed_job.
AfterError(w) == IF tries[w] < MaxAttempts THEN "retry_scheduled" ELSE "dead_lettered"

\* The executor raises.
ExecutorRaises(w) ==
    /\ at[w] = "executing"
    /\ Polls(w) \/ rounds < MaxRounds
    /\ rounds' = IF Polls(w) THEN rounds ELSE rounds + 1
    /\ external' = "unsure"
    /\ op' = [op EXCEPT ![w] = AfterError(w)]
    /\ Goto(w, "decided")
    /\ UNCHANGED <<job, invocation, mem, tries, faults, dup, slips, outcome>>

-----------------------------------------------------------------------------
(* The transitions of ToolIntegrationRuntime, whoever makes them.          *)

\* _require_job.
LoadJob(p) ==
    /\ at[p] = "decided"
    /\ mem' = [mem EXCEPT ![p] = job.attempts]
    /\ Goto(p, "loaded")
    /\ UNCHANGED <<job, invocation, op, tries, rounds, faults, external, dup, slips, outcome>>

\* The copy as mark_waiting_*, schedule_retry, complete_job, fail_job,
\* dead_letter_job and cancel_job leave it: the status is overwritten, not tested.
Moved(status, attempts) == [NewJob EXCEPT !.status = status, !.attempts = attempts]

Noted(status) == IF outcome = "none" /\ status \in Terminal THEN status ELSE outcome

\* job_store.save: the whole row.
SaveJob(p) ==
    /\ at[p] = "loaded"
    /\ job' = Moved(op[p], mem[p])
    /\ outcome' = Noted(op[p])
    /\ Goto(p, "saved")
    /\ UNCHANGED <<invocation, op, mem, tries, rounds, faults, external, dup, slips>>

\* A handler still records the callback, a cancel writes the invocation again.
Resume(p) ==
    IF p \in Handlers \cup {Canceller}
    THEN Goto(p, IF p = Canceller THEN "again" ELSE "stamp") /\ UNCHANGED <<op, mem, tries>>
    ELSE Leave(p)

\* The invocation is loaded and saved with the new status.
SyncInvocation(p) ==
    /\ at[p] = "saved"
    /\ invocation' = op[p]
    /\ Resume(p)
    /\ UNCHANGED <<job, rounds, faults, external, dup, slips, outcome>>

-----------------------------------------------------------------------------
(* Webhook callbacks, the sweep and cancellation.                          *)

\* process_webhook_callback: a terminal job is replayed or refused, one that
\* is not waiting for a webhook is refused; neither changes anything.
AcceptCallback(h) ==
    /\ at[h] = "idle"
    /\ job.status = "waiting_webhook"
    /\ Goto(h, "handling")
    /\ TakesUp(h)
    /\ UNCHANGED <<job, invocation, op, mem, tries, rounds, faults, external, dup, outcome>>

\* handle_deferred_callback returns a transition ...
CallbackReturns(h, answer) ==
    /\ at[h] = "handling"
    /\ answer \in Settling \/ rounds < MaxRounds
    /\ Answers(answer)
    /\ op' = [op EXCEPT ![h] = answer]
    /\ Goto(h, "decided")
    /\ UNCHANGED <<job, invocation, mem, tries, faults, dup, slips, outcome>>

\* ... or raises: a bad signature, for one.
CallbackRaises(h) ==
    /\ at[h] = "handling"
    /\ Leave(h)
    /\ UNCHANGED <<job, invocation, rounds, faults, external, dup, slips, outcome>>

\* MUTANT of RecordFingerprint: the copy the callback loaded is saved.
RecordOnFirstCopy(h) ==
    /\ at[h] = "stamp"
    /\ job' = Moved("waiting_webhook", mem[h])
    /\ Leave(h)
    /\ UNCHANGED <<invocation, rounds, faults, external, dup, slips, outcome>>

\* _record_callback_fingerprint saves the row as the transition left it.
RecordFingerprint(h) ==
    /\ at[h] = "stamp"
    /\ job' = Moved(op[h], mem[h])
    /\ Leave(h)
    /\ UNCHANGED <<invocation, rounds, faults, external, dup, slips, outcome>>

\* MUTANT of Stuck: a job waiting for its webhook waits as long as it takes.
StuckUnlessCalledBack(j) == Open(j) /\ j.status # "waiting_webhook" /\ j.stale

\* is_job_stuck.
Stuck(j) == Open(j) /\ j.stale

\* sweep_stuck_jobs lists the job; dead_letter_job loads it again and does not look.
ListStuck ==
    /\ at[Sweeper] = "idle"
    /\ Stuck(job)
    /\ op' = [op EXCEPT ![Sweeper] = "dead_lettered"]
    /\ Goto(Sweeper, "decided")
    /\ TakesUp(Sweeper)
    /\ UNCHANGED <<job, invocation, mem, tries, rounds, faults, external, dup, outcome>>

\* cancel finds the invocation cancellable ...
AskCancel ==
    /\ at[Canceller] = "idle"
    /\ invocation \in Waiting
    /\ Goto(Canceller, "asked")
    /\ UNCHANGED <<job, invocation, op, mem, tries, rounds, faults, external, dup, slips, outcome>>

\* cancel_job refuses a job that runs or has ended.
Cancellable(j) == j.status \in Waiting

\* ... and cancel_job loads the job.
LoadToCancel ==
    /\ at[Canceller] = "asked"
    /\ Cancellable(job)
    /\ mem' = [mem EXCEPT ![Canceller] = job.attempts]
    /\ op' = [op EXCEPT ![Canceller] = "cancelled"]
    /\ Goto(Canceller, "loaded")
    /\ TakesUp(Canceller)
    /\ UNCHANGED <<job, invocation, tries, rounds, faults, external, dup, outcome>>

RefuseCancel ==
    /\ at[Canceller] = "asked"
    /\ ~ Cancellable(job)
    /\ Leave(Canceller)
    /\ UNCHANGED <<job, invocation, rounds, faults, external, dup, slips, outcome>>

\* cancel writes the invocation once more.
CancelAgain ==
    /\ at[Canceller] = "again"
    /\ invocation' = "cancelled"
    /\ Leave(Canceller)
    /\ UNCHANGED <<job, rounds, faults, external, dup, slips, outcome>>

-----------------------------------------------------------------------------
(* Faults and time.                                                        *)

\* The process dies, or an error ends the pass or the request.
Crash(p) ==
    /\ at[p] # "idle"
    /\ faults < MaxFaults
    /\ faults' = faults + 1
    /\ Leave(p)
    /\ UNCHANGED <<job, invocation, rounds, external, dup, slips, outcome>>

\* Applying the transition raises in a worker, before or after the job was
\* saved: the except branch makes a transition of its own.
ApplyFails(w) ==
    /\ at[w] \in {"decided", "loaded", "saved"}
    /\ faults < MaxFaults
    /\ faults' = faults + 1
    /\ op' = [op EXCEPT ![w] = AfterError(w)]
    /\ mem' = [mem EXCEPT ![w] = 0]
    /\ Goto(w, "decided")
    /\ UNCHANGED <<job, invocation, tries, rounds, external, dup, slips, outcome>>

\* The worker the row names is at work, and its heartbeats with it.
Attended == job.worker # None /\ at[job.worker] \notin {"idle", "claiming"}

\* job_lease_seconds without a heartbeat.
LeasePasses ==
    /\ job.status = "running" /\ job.live
    /\ IF Attended THEN faults < MaxFaults /\ faults' = faults + 1 ELSE faults' = faults
    /\ job' = [job EXCEPT !.live = FALSE]
    /\ UNCHANGED <<invocation, at, op, mem, tries, rounds, external, dup, slips, outcome>>

\* stuck_timeout_seconds without progress; longer than a heartbeat interval.
ProgressStops ==
    /\ Open(job) /\ ~ job.stale
    /\ IF job.status = "running" /\ Attended
       THEN faults < MaxFaults /\ faults' = faults + 1 ELSE faults' = faults
    /\ job' = [job EXCEPT !.stale = TRUE]
    /\ UNCHANGED <<invocation, at, op, mem, tries, rounds, external, dup, slips, outcome>>

\* next_poll_at or next_retry_at passes.
FallsDue ==
    /\ job.status \in {"retry_scheduled", "waiting_poll"} /\ ~ job.due
    /\ job' = [job EXCEPT !.due = TRUE]
    /\ UNCHANGED <<invocation, at, op, mem, tries, rounds, faults, external, dup, slips, outcome>>

-----------------------------------------------------------------------------

Apply(p) == LoadJob(p) \/ SaveJob(p) \/ SyncInvocation(p)

Transitions == Settling \cup {"waiting_poll", "waiting_webhook", "retry_scheduled"}

WorkerStep(w) ==
    \/ SelectJob(w) \/ ClaimJob(w)
    \/ \E answer \in Transitions : ExecutorReturns(w, answer)
    \/ ExecutorRaises(w)
    \/ Apply(w)

CallbackStep(h) ==
    \/ \E answer \in Transitions : CallbackReturns(h, answer)
    \/ CallbackRaises(h)
    \/ Apply(h)
    \/ RecordFingerprint(h)

CancelStep == LoadToCancel \/ RefuseCancel \/ Apply(Canceller) \/ CancelAgain

Next ==
    \/ CreateJob \/ SyncInvocation(Submitter)
    \/ \E w \in Workers : WorkerStep(w) \/ Heartbeat(w) \/ ApplyFails(w)
    \/ \E h \in Handlers : AcceptCallback(h) \/ CallbackStep(h)
    \/ ListStuck \/ Apply(Sweeper)
    \/ AskCancel \/ CancelStep
    \/ \E p \in Actors : Crash(p)
    \/ LeasePasses \/ ProgressStops \/ FallsDue

Spec == Init /\ [][Next]_vars

\* Whoever began goes on, workers poll the queue, the sweep runs on every tick,
\* whatever callbacks are refused meanwhile, and time passes.  Callbacks,
\* cancellations and faults need not come.
FairSpec ==
    /\ Spec
    /\ WF_vars(SyncInvocation(Submitter))
    /\ \A w \in Workers : WF_vars(WorkerStep(w))
    /\ \A h \in Handlers : WF_vars(CallbackStep(h))
    /\ SF_vars(ListStuck) /\ WF_vars(Apply(Sweeper))
    /\ WF_vars(CancelStep)
    /\ WF_vars(LeasePasses) /\ WF_vars(ProgressStops) /\ WF_vars(FallsDue)

-----------------------------------------------------------------------------

Places == {"idle", "claiming", "executing", "handling", "asked", "decided",
           "loaded", "saved", "stamp", "again"}
Ops == {"running"} \cup Waiting \cup Terminal

\* The row, the invocation and the actors keep their types, and an actor about
\* to write has decided on a status of the job.
TypeOK ==
    /\ job \in Row
    /\ invocation \in {"pending"} \cup Waiting \cup Terminal
    /\ at \in [Actors -> Places]
    /\ op \in [Actors -> Ops]
    /\ mem \in [Actors -> Nat]
    /\ tries \in [Workers -> Nat]
    /\ rounds \in 0 .. MaxRounds /\ faults \in 0 .. MaxFaults /\ slips \in 0 .. MaxSlips
    /\ external \in {"none", "held", "unsure", "done"}
    /\ dup \in BOOLEAN
    /\ outcome \in {"none"} \cup Terminal
    /\ \A p \in Actors :
          at[p] \in {"decided", "loaded", "saved", "stamp"} => op[p] # "running"

Smooth == slips = 0 /\ faults = 0

\* A worker that executes has the job to itself: it is running in its name and
\* nobody else has taken it up.  The status that callbacks, cancel, the sweep
\* and other claims test protects it, unless it was taken up inside another
\* actor's load-to-save window, or a lease ran out under a live worker.
HoldIsExclusive ==
    Smooth =>
        \A w \in Workers : at[w] = "executing" =>
            /\ job.status = "running" /\ job.worker = w /\ job.live /\ ~ job.stale
            /\ \A p \in Actors \ {w} : ~ InWindow(p) /\ at[p] # "executing"

\* The first terminal status is the last, and once everybody is done the
\* invocation shows it, although no transition tests the status it overwrites.
OutcomeStands ==
    Smooth /\ outcome # "none" =>
        /\ job.status = outcome
        /\ (\A p \in Actors : ~ InWindow(p)) => invocation = outcome

\* A job the provider has, or has settled, is not submitted to it again, unless
\* the provider asked for that, a poll raised and was retried as a submission,
\* or an actor slipped or failed.
NoResubmission == Smooth => ~ dup

\* The row is leased work: among the workers one at a time holds it, and others,
\* the callback, the sweep and the cancel, end it while nobody does.
PhaseOf(j) ==
    CASE j.status = "absent" -> "absent"
      [] j.status \in Waiting -> "waiting"
      [] j.status = "running" -> "held"
      [] OTHER -> j.status
LifeOf(j, calm) ==
    [phase |-> PhaseOf(j), calm |-> calm,
     holder |-> IF j.status = "running" THEN j.worker ELSE None]
Leases == INSTANCE LeasedWork WITH
    Items <- {"job"}, Endings <- Terminal, Withdrawable <- {"waiting"},
    work <- [i \in {"job"} |-> LifeOf(job, Smooth)]
LeasedWorkHolds == Leases!Spec

\* Every deferred job ends and stays ended: the sweep collects what no worker,
\* poll or callback settles, whichever actor is lost.
EveryJobEnds == (job.status = "queued") ~> [](job.status \in Terminal)
=============================================================================
