------------------------------ MODULE JobQueue ------------------------------
(***************************************************************************)
(* The background-job runtime of ruhu: the jobs table with its claim,      *)
(* lease, retry and dead-letter rules (ruhu/jobs/store.py, policy.py), the *)
(* recurring ticks every worker enqueues (jobs/recurring.py) and the       *)
(* claim-execute loop of the worker processes (jobs/runtime.py, worker.py).*)
(*                                                                         *)
(* Each action is one database transaction or one process event.  A claim  *)
(* is atomic (FOR UPDATE SKIP LOCKED); complete and fail are not: they read*)
(* the row without a lock, test it, and write it in a later statement, so  *)
(* each is two actions, the read and the write.  A write changes the       *)
(* columns SQLAlchemy found dirty and leaves the others as they are now.   *)
(*                                                                         *)
(* Instants are stored relative to the present: Now is always 0 and Elapse *)
(* ages every stored instant by one unit.  So time is unbounded while the  *)
(* state space is finite.                                                  *)
(***************************************************************************)
EXTENDS Integers, FiniteSets

CONSTANTS
    Jobs,          \* the rows the table may hold
    Workers,       \* worker process identities; a restarted process is a new one
    Keys,          \* dedupe keys producers use
    None,          \* SQL NULL
    Priorities,    \* priorities producers use
    TaskAttempts,  \* max_attempts of a produced job (a tick has 1)
    LeaseSeconds,  \* the lease a claim takes
    BaseDelay,     \* RetryPolicy.base_delay_seconds
    MaxDelay,      \* RetryPolicy.max_delay_seconds
    BatchSize,     \* jobs one run_once may execute
    MaxSlot,       \* BOUND: the last time slot that is told apart
    MaxAge,        \* BOUND: instants older than this are not told apart
    MaxFaults      \* BOUND: lease overruns by live workers and failing commits

ASSUME BoundsAssumption ==
    /\ TaskAttempts \in Nat \ {0}
    /\ LeaseSeconds \in Nat \ {0}
    /\ BaseDelay \in Nat
    /\ MaxDelay \in Nat
    /\ BatchSize \in Nat \ {0}
    /\ MaxSlot \in Nat
    /\ MaxAge \in Nat
    /\ MaxFaults \in Nat

ASSUME NamesAssumption ==
    /\ IsFiniteSet(Workers)
    /\ None \notin Workers \cup Keys \cup Jobs
    /\ None \notin Int
    /\ Priorities \subseteq Int

VARIABLES
    jobs,       \* the jobs table: a row per job id ("none": not inserted)
    worker,     \* where each worker process is in its loop
    draining,   \* running workers whose stop_event is set (SIGTERM, SIGINT)
    slot,       \* the current slot of the recurring schedule
    slot_at,    \* when each slot began
    faults,     \* how much of MaxFaults is used
    reclaims,   \* history: claims of an expired lease, per job
    returned,   \* history: jobs a handler of which returned normally
    fatal       \* history: jobs a handler of which raised retryable = False

tableVars == <<jobs, reclaims>>
clockVars == <<slot, slot_at>>
historyVars == <<returned, fatal>>
vars == <<jobs, worker, draining, slot, slot_at, faults, reclaims, returned, fatal>>

Now == 0
Slots == 0 .. MaxSlot
Active == {"queued", "running"}
Finished == {"succeeded", "dead"}

-----------------------------------------------------------------------------
(* The table *)

\* A Job as its producer builds it.
NewRow(type, key, priority, attempts, at) ==
    [job_type |-> type, status |-> "queued", priority |-> priority,
     run_at |-> at, attempt_count |-> 0, max_attempts |-> attempts,
     lease_expires_at |-> None, worker_id |-> None, dedupe_key |-> key]

NoRow == [NewRow("task", None, 0, 1, Now) EXCEPT !.status = "none"]

Absent(j) == jobs[j].status = "none"

\* uq_jobs_type_dedupe_active: a row other than `but` occupies (type, key).
KeyTaken(type, key, but) ==
    \E i \in Jobs \ {but} : /\ key # None
                            /\ jobs[i].status \in Active
                            /\ jobs[i].job_type = type
                            /\ jobs[i].dedupe_key = key

\* has_job: a row with this type and key, in any status.
HasJob(type, key) ==
    \E j \in Jobs : /\ ~Absent(j)
                    /\ jobs[j].job_type = type
                    /\ jobs[j].dedupe_key = key

\* next_retry_at: the delay after attempt n.
Backoff(n) ==
    LET delay == BaseDelay * 2 ^ (IF n > 1 THEN n - 1 ELSE 0)
    IN  IF delay < MaxDelay THEN delay ELSE MaxDelay

\* MUTANT of Due: the status is tested for activity, not for queued.
DueWhileActive(j) == jobs[j].status \in Active /\ jobs[j].run_at <= Now

\* MUTANT of Due: the status is not tested.
DueInAnyStatus(j) == ~Absent(j) /\ jobs[j].run_at <= Now

\* What claim_next selects on: due, or running on an expired lease.
Due(j) == jobs[j].status = "queued" /\ jobs[j].run_at <= Now

Expired(j) == /\ jobs[j].status = "running"
              /\ jobs[j].lease_expires_at # None
              /\ jobs[j].lease_expires_at <= Now

\* MUTANT of Claimable: an expired lease is not reclaimable.
ClaimableIfDue(j) == Due(j)

Claimable(j) == Due(j) \/ Expired(j)

\* ORDER BY priority DESC, run_at ASC; ids are random, so ties fall either way.
Precedes(i, j) ==
    \/ jobs[i].priority > jobs[j].priority
    \/ jobs[i].priority = jobs[j].priority /\ jobs[i].run_at < jobs[j].run_at

\* The columns a claim writes.
ClaimedRow(row, w) ==
    [row EXCEPT !.status = "running", !.worker_id = w,
                !.lease_expires_at = Now + LeaseSeconds,
                !.attempt_count = row.attempt_count + 1]

\* The columns complete writes.
CompletedRow(row) == [row EXCEPT !.status = "succeeded", !.lease_expires_at = None]

\* MUTANT of GivesUp: off by one.
GivesUpEarly(seen, max_attempts, retryable) == ~retryable \/ seen + 1 >= max_attempts

\* MUTANT of GivesUp: attempts are not limited.
GivesUpNever(seen, max_attempts, retryable) == ~retryable

\* fail dead-letters when attempts are used up or the error is not retryable.
\* The attempt count is the one fail read, not the one now in the row.
GivesUp(seen, max_attempts, retryable) == ~retryable \/ seen >= max_attempts

\* The columns fail writes (_apply_failure); a dead job keeps its run_at.
FailedRow(row, seen, retryable) ==
    IF GivesUp(seen, row.max_attempts, retryable)
    THEN [row EXCEPT !.status = "dead", !.worker_id = None, !.lease_expires_at = None]
    ELSE [row EXCEPT !.status = "queued", !.worker_id = None, !.lease_expires_at = None,
                     !.run_at = Now + Backoff(seen)]

-----------------------------------------------------------------------------
(* Worker processes *)

\* new: not started; poll: top of the run_forever loop; insert: has_job said
\* no; claim: in run_once's claim loop; run: the handler executes; complete,
\* fail: the row was read and passed the ownership test; down: exited.
Idle == [pc |-> "new", job |-> None, slot |-> 0, seen |-> 0,
         retryable |-> TRUE, left |-> 0]

Goto(w, pc) == worker' = [worker EXCEPT ![w] = [Idle EXCEPT !.pc = pc]]

Live(w) == worker[w].pc \notin {"new", "down"}
Owns(w, j) == jobs[j].status = "running" /\ jobs[j].worker_id = w

\* MUTANT of NextInBatch: the batch is not counted.
NextWithoutEnd(w) ==
    worker' = [worker EXCEPT ![w] = [Idle EXCEPT !.pc = "claim", !.left = worker[w].left]]

\* run_once claims again until its batch is used up.
NextInBatch(w) ==
    worker' = [worker EXCEPT ![w] =
                 [Idle EXCEPT !.pc = IF worker[w].left = 0 THEN "poll" ELSE "claim",
                              !.left = worker[w].left]]

\* Another process runs or can be started: workers are supervised.
Spare(w) == \E v \in Workers \ {w} : worker[v].pc # "down" /\ v \notin draining

Init ==
    /\ jobs = [j \in Jobs |-> NoRow]
    /\ worker = [w \in Workers |-> Idle]
    /\ draining = {}
    /\ slot = 0
    /\ slot_at = [s \in Slots |-> Now]
    /\ faults = 0
    /\ reclaims = [j \in Jobs |-> 0]
    /\ returned = {}
    /\ fatal = {}

\* A producer enqueues; a taken key returns the existing job and changes nothing.
Enqueue(j, key, priority) ==
    /\ Absent(j)
    /\ ~KeyTaken("task", key, None)
    /\ jobs' = [jobs EXCEPT ![j] = NewRow("task", key, priority, TaskAttempts, Now)]
    /\ UNCHANGED <<worker, draining, clockVars, faults, reclaims, historyVars>>

Start(w) ==
    /\ worker[w].pc = "new"
    /\ Goto(w, "poll")
    /\ UNCHANGED <<tableVars, draining, clockVars, faults, historyVars>>

\* MUTANT of Poll: the stop_event is not looked at.
PollWhileDraining(w) ==
    /\ worker[w].pc = "poll"
    /\ worker' = [worker EXCEPT ![w] = [Idle EXCEPT !.pc = "claim", !.left = BatchSize]]
    /\ UNCHANGED <<tableVars, draining, clockVars, faults, historyVars>>

\* run_once first runs enqueue_due_ticks: compute the slot, ask has_job.
Poll(w) ==
    /\ worker[w].pc = "poll"
    /\ w \notin draining
    /\ worker' = [worker EXCEPT ![w] =
                    [Idle EXCEPT !.pc = IF HasJob("tick", slot) THEN "claim" ELSE "insert",
                                 !.slot = IF HasJob("tick", slot) THEN 0 ELSE slot,
                                 !.left = BatchSize]]
    /\ UNCHANGED <<tableVars, draining, clockVars, faults, historyVars>>

\* ... and, in another transaction, insert the tick of that slot.
InsertTick(w, j) ==
    LET key == worker[w].slot
    IN  /\ worker[w].pc = "insert"
        /\ Absent(j)
        /\ ~KeyTaken("tick", key, None)
        /\ jobs' = [jobs EXCEPT ![j] = NewRow("tick", key, 0, 1, slot_at[key])]
        /\ NextInBatch(w)
        /\ UNCHANGED <<reclaims, draining, clockVars, faults, historyVars>>

\* The index already holds the key, or the insert raised and was logged.
SkipTick(w) ==
    /\ worker[w].pc = "insert"
    /\ NextInBatch(w)
    /\ UNCHANGED <<tableVars, draining, clockVars, faults, historyVars>>

Claim(w, j) ==
    /\ worker[w].pc = "claim"
    /\ Claimable(j)
    /\ \A i \in Jobs : Claimable(i) => ~Precedes(i, j)
    /\ jobs' = [jobs EXCEPT ![j] = ClaimedRow(jobs[j], w)]
    /\ reclaims' = [reclaims EXCEPT ![j] = IF Expired(j) THEN reclaims[j] + 1 ELSE reclaims[j]]
    /\ worker' = [worker EXCEPT ![w].pc = "run", ![w].job = j,
                                ![w].left = worker[w].left - 1]
    /\ UNCHANGED <<draining, clockVars, faults, historyVars>>

\* Nothing is claimable: run_once returns and run_forever waits for the poll.
ClaimNothing(w) ==
    /\ worker[w].pc = "claim"
    /\ \A j \in Jobs : ~Claimable(j)
    /\ Goto(w, "poll")
    /\ UNCHANGED <<tableVars, draining, clockVars, faults, historyVars>>

\* complete and fail read the row; if it is no longer this worker's they return.
ReadRow(w, pc, retryable) ==
    LET j == worker[w].job
    IN  IF Owns(w, j)
        THEN worker' = [worker EXCEPT ![w].pc = pc, ![w].retryable = retryable,
                                      ![w].seen = jobs[j].attempt_count]
        ELSE NextInBatch(w)

HandlerReturns(w) ==
    /\ worker[w].pc = "run"
    /\ returned' = returned \cup {worker[w].job}
    /\ ReadRow(w, "complete", TRUE)
    /\ UNCHANGED <<tableVars, draining, clockVars, faults, fatal>>

HandlerRaises(w, retryable) ==
    /\ worker[w].pc = "run"
    /\ fatal' = IF retryable THEN fatal ELSE fatal \cup {worker[w].job}
    /\ ReadRow(w, "fail", retryable)
    /\ UNCHANGED <<tableVars, draining, clockVars, faults, returned>>

CommitComplete(w) ==
    LET j == worker[w].job
    IN  /\ worker[w].pc = "complete"
        /\ jobs' = [jobs EXCEPT ![j] = CompletedRow(jobs[j])]
        /\ NextInBatch(w)
        /\ UNCHANGED <<reclaims, draining, clockVars, faults, historyVars>>

\* The update would give a second active row to a key in the unique index.
Conflicts(w) ==
    LET j == worker[w].job
    IN  /\ FailedRow(jobs[j], worker[w].seen, worker[w].retryable).status = "queued"
        /\ KeyTaken(jobs[j].job_type, jobs[j].dedupe_key, j)

CommitFail(w) ==
    LET j == worker[w].job
    IN  /\ worker[w].pc = "fail"
        /\ ~Conflicts(w)
        /\ jobs' = [jobs EXCEPT ![j] = FailedRow(jobs[j], worker[w].seen, worker[w].retryable)]
        /\ NextInBatch(w)
        /\ UNCHANGED <<reclaims, draining, clockVars, faults, historyVars>>

\* The commit of fail raises on the unique index.  The exception leaves
\* run_once, run_forever logs it, and the row stays as it is.
CommitConflicts(w) ==
    /\ worker[w].pc = "fail"
    /\ Conflicts(w)
    /\ Goto(w, "poll")
    /\ UNCHANGED <<tableVars, draining, clockVars, faults, historyVars>>

\* The commit raises on a database error: the same, and a row the worker still
\* owns stays running until its lease runs out.
CommitErrs(w) ==
    /\ worker[w].pc \in {"complete", "fail"}
    /\ faults < MaxFaults
    /\ faults' = faults + 1
    /\ Goto(w, "poll")
    /\ UNCHANGED <<tableVars, draining, clockVars, historyVars>>

\* SIGTERM sets the stop_event, which is looked at between two run_once calls.
Drain(w) ==
    /\ Live(w)
    /\ Spare(w)
    /\ draining' = draining \cup {w}
    /\ UNCHANGED <<tableVars, worker, clockVars, faults, historyVars>>

Exit(w) ==
    /\ worker[w].pc = "poll"
    /\ w \in draining
    /\ Goto(w, "down")
    /\ draining' = draining \ {w}
    /\ UNCHANGED <<tableVars, clockVars, faults, historyVars>>

\* The process dies; its job stays running until the lease expires.
Crash(w) ==
    /\ Live(w)
    /\ Spare(w)
    /\ Goto(w, "down")
    /\ draining' = draining \ {w}
    /\ UNCHANGED <<tableVars, clockVars, faults, historyVars>>

Age(t) == IF t > -MaxAge THEN t - 1 ELSE t

\* Live workers whose lease runs out in the next unit of time.
Overrunning == {w \in Workers : /\ Live(w)
                                /\ worker[w].job # None
                                /\ Owns(w, worker[w].job)
                                /\ jobs[worker[w].job].lease_expires_at = Now + 1}

\* Time passes; a slot of any length may end.
Elapse ==
    /\ faults + Cardinality(Overrunning) <= MaxFaults
    /\ faults' = faults + Cardinality(Overrunning)
    /\ jobs' = [j \in Jobs |->
                  [jobs[j] EXCEPT
                     !.run_at = Age(@),
                     !.lease_expires_at = IF @ = None THEN None ELSE Age(@)]]
    /\ \E next \in {slot, slot + 1} \cap Slots :
          /\ slot' = next
          /\ slot_at' = [s \in Slots |-> IF s <= slot THEN Age(slot_at[s]) ELSE Now]
    /\ UNCHANGED <<reclaims, worker, draining, historyVars>>

WorkerStep(w) ==
    \/ Start(w) \/ Poll(w) \/ SkipTick(w)
    \/ \E j \in Jobs : InsertTick(w, j)
    \/ \E j \in Jobs : Claim(w, j)
    \/ ClaimNothing(w)
    \/ HandlerReturns(w)
    \/ \E retryable \in BOOLEAN : HandlerRaises(w, retryable)
    \/ CommitComplete(w) \/ CommitFail(w) \/ CommitConflicts(w) \/ CommitErrs(w)
    \/ Exit(w)

Next ==
    \/ \E j \in Jobs, key \in Keys \cup {None}, p \in Priorities : Enqueue(j, key, p)
    \/ \E w \in Workers : WorkerStep(w)
    \/ \E w \in Workers : Drain(w) \/ Crash(w)
    \/ Elapse

Spec == Init /\ [][Next]_vars

\* Running processes keep running, time passes; nothing forces a producer, a
\* signal or a crash.
FairSpec == Spec /\ WF_vars(Elapse) /\ \A w \in Workers : WF_vars(WorkerStep(w))

-----------------------------------------------------------------------------
(* Properties *)

\* A worker between its claim of a job and the end of its complete or fail.
Handling(w, j) == worker[w].pc \in {"run", "complete", "fail"} /\ worker[w].job = j

Row == [job_type : {"task", "tick"}, status : Active \cup Finished \cup {"none"},
        priority : Int, run_at : Int, attempt_count : Nat, max_attempts : Nat \ {0},
        lease_expires_at : Int \cup {None}, worker_id : Workers \cup {None},
        dedupe_key : Keys \cup Slots \cup {None}]

Process == [pc : {"new", "poll", "insert", "claim", "run", "complete", "fail", "down"},
            job : Jobs \cup {None}, slot : Slots, seen : Nat, retryable : BOOLEAN,
            left : 0 .. BatchSize]

\* Rows and worker processes keep their shape; in particular run_once never
\* executes more than its batch_size.
TypeOK ==
    /\ jobs \in [Jobs -> Row]
    /\ worker \in [Workers -> Process]
    /\ draining \subseteq Workers
    /\ slot \in Slots
    /\ slot_at \in [Slots -> Int]
    /\ faults \in Nat
    /\ reclaims \in [Jobs -> Nat]
    /\ returned \subseteq Jobs
    /\ fatal \subseteq Jobs

\* A running row always carries a lease and the worker that took it, whatever
\* stale complete or fail was applied to it: claim_next can only recover a
\* running row whose lease_expires_at is not NULL (store.py, claim_next).
RunningIsLeased ==
    \A j \in Jobs : jobs[j].status = "running" =>
        jobs[j].lease_expires_at # None /\ jobs[j].worker_id # None

\* As long as no lease on a job ran out, one worker at a time works on it, and
\* that worker still owns the row (claim_next hands a job out once).
ExclusiveUnlessReclaimed ==
    \A j \in Jobs : reclaims[j] = 0 =>
        \A w \in Workers : Handling(w, j) =>
            Owns(w, j) /\ \A v \in Workers : Handling(v, j) => v = w

\* A job is dead-lettered only after max_attempts attempts or an error its
\* handler declared not retryable, even when fail judges on a count it read
\* before another worker claimed the row (_apply_failure, next_retry_at).
DeadIsJustified ==
    \A j \in Jobs : jobs[j].status = "dead" =>
        jobs[j].attempt_count >= jobs[j].max_attempts \/ j \in fatal

\* A job reads as succeeded only if a handler of it returned (_execute).
SuccessIsEarned ==
    \A j \in Jobs : jobs[j].status = "succeeded" => j \in returned

\* A job's final status is justified by what its handlers did: dead only when
\* attempts were used up or an error was final, succeeded only when a handler
\* returned, whoever wrote the row last.
FinishedIsJustified == DeadIsJustified /\ SuccessIsEarned

\* max_attempts is exceeded by at most one attempt per expired lease, although
\* a stale fail may requeue a job that already used its attempts up.
AttemptsBounded ==
    \A j \in Jobs : jobs[j].attempt_count <= jobs[j].max_attempts + reclaims[j]

Ticks(s) == {j \in Jobs : /\ ~Absent(j)
                          /\ jobs[j].job_type = "tick"
                          /\ jobs[j].dedupe_key = s}

\* What recurring.py says of its ticks: any number of workers computes the same
\* dedupe key, and the partial unique index collapses their inserts to one job
\* per slot, in any status.
OneTickPerSlot == \A s \in Slots : Cardinality(Ticks(s)) <= 1

\* What holds of them: a slot's tick is inserted again only by a worker that
\* asked has_job before the first insert (polls after it find the row in any
\* status), so a slot never has more ticks than there are workers.
TicksPerSlotBounded ==
    \A s \in Slots : Cardinality(Ticks(s)) <= Cardinality(Workers)

\* The table is a table of leased work, of which nobody but a worker that holds
\* a job ends it; it has no protection against a lease that runs out under a live
\* worker (claim_next, complete and fail test the owner, heartbeat is not called).
PhaseOf(row) ==
    CASE row.status = "none" -> "absent"
      [] row.status = "queued" -> "waiting"
      [] row.status = "running" -> "held"
      [] OTHER -> row.status
LifeOf(row, lapses) ==
    [phase |-> PhaseOf(row), calm |-> lapses = 0,
     holder |-> IF row.status = "running" THEN row.worker_id ELSE None]
Leases == INSTANCE LeasedWork WITH
    Items <- Jobs, Endings <- Finished, Withdrawable <- {},
    work <- [j \in Jobs |-> LifeOf(jobs[j], reclaims[j])]
LeasedWorkHolds == Leases!Spec

\* A finished job is reopened only after a lease on it ran out: without that
\* no stale complete or fail can reach a row that left the running state.
FinishedIsFinal ==
    [][\A j \in Jobs : jobs[j].status \in Finished /\ reclaims[j] = 0
                       => jobs'[j].status = jobs[j].status]_vars

\* Neither a job nor a worker that drains hangs for good: every enqueued job
\* comes to rest as succeeded or dead, through crashes of the worker that runs
\* it ("expired leases are reclaimable, which is how crashed workers' jobs
\* recover", store.py), retries and stale writes that reopen it, and a worker
\* that was told to stop exits (run_once is bounded by its batch).
EverythingEnds ==
    <>[](draining = {} /\ \A j \in Jobs : jobs[j].status \notin Active)

=============================================================================
