# A verification project for the ruhu runtime

TLA+ models of the parts of ruhu where several processes change the same rows: background jobs,
the concurrent turns of a conversation, the commit of a final transcript, the outbox and its
webhooks, deferred tool calls, browser tasks, and Atlas's changes to an agent; and of the circuit
breaker that threads of one process share. Each model is checked by TLC on a small instance, and
its main results are proved by TLAPS for every instance. Paths below are relative to
`src/src/ruhu/`.

## 1. The system

ruhu runs conversational agents. API and voice processes receive user turns, a kernel turns each
into a change of the conversation and a reply, a control plane records realtime events, and
worker processes run everything that can wait. All of them share one PostgreSQL database, and
that database is their only means of coordination: row locks, unique indexes, leases with an
expiry, and dedupe or idempotency keys. What is hard about the system is what happens between
the transactions.

| Component | State | Operations | Talks to | What makes it correct |
|---|---|---|---|---|
| background jobs `jobs/` | `jobs` rows: status, attempts, `run_at`, lease, worker, dedupe key | enqueue, claim_next, complete, fail, enqueue_due_ticks | every producer; the workers | a job is never lost; one worker at a time unless a lease ran out; dead and succeeded mean what they say; ticks per slot bounded |
| worker process `worker.py` | where it is in `run_forever`; stop event | start, poll, run a batch, drain, exit, die | the jobs table | drains and stops; its jobs survive it |
| conversation kernel `kernel.py`, `stores.py` | conversation row; turn log; per-request snapshot | process_turn, _commit_turn, save, append | realtime bridge, tools, interpreters | turns totally ordered, each delivered turn once, nothing committed is undone |
| stale conversation sweep `conversation_sweep.py` | ids it has selected | process_once | conversation rows | ends only idle conversations |
| transcript commit `realtime/service.py` | idempotency record with a processing lease; event log | commit_final_transcript | kernel; channel ingress | one outcome for all deliveries; an answer means it is durable; nobody waits forever |
| realtime outbox, webhooks `realtime/store.py`, `analytics_tagging/webhooks.py` | outbox rows with claims; webhook targets | enqueue, claim, mark_delivered / retry / failed, fan-out, post, purge | receivers; administrators | no delivery lost or doubled; final status true and final; an edit of a target holds |
| circuit breaker `tools/circuit_breaker.py` | state, failures, successes, half-open calls | can_execute, record_success, record_failure | calls of the tool runtime | trips and closes on the right outcomes; never locks itself up |
| deferred tool integrations `tools/integration_*` | job row with lease and schedule; invocation | submit, claim, heartbeat, poll, callback, sweep, cancel | providers, conversations | one actor at a time; the outcome stands; nothing submitted twice; every job ends |
| browser tasks `browser_tasks/` | task row with lease; approval row | create, approve, deny, expire, cancel, retry, run | operators, workers | nothing runs unapproved; one worker at a time; every task ends |
| Atlas agent builder `atlas_*` | proposed deltas, review decisions, permissions, the agent's draft | propose, review, ask and give permission, apply | draft editor, integrations | only what was reviewed is applied, once; the draft is what was applied |
| realtime sessions, reconciler `realtime/` | session row, status | create, start, disconnect, end, reconcile_stale | transports, bridge | terminal status is final; one end event |
| redis conversation store, voice slots | redis keys | save, flush, reserve, release | | not wired into the application at this commit |
| capture, rules, interpreters, replies | none between turns | pure functions and model calls | kernel | a result of the turn for every model here |
| journeys, knowledge, KPI, sentiment, readiness runs, ticketing, phone numbers, auth, billing, front ends | rows of their own | request handlers, batch readers | jobs, conversations | no protocol between processes beyond the job queue |

`PROJECT.json` lists all of them with their status, and under `hazards` the places in the code
that a test would hardly reach, with the properties that cover each.

The behaviours that are hard here: work that outlives its lease while its successor already
runs; statements that read a row, decide, and write it later without a lock; a whole row or
document saved from memory; processes that die between two transactions; turns, transcripts and
callbacks that are delivered twice, concurrently or long apart; check-then-insert across
transactions; a status written by one table's handler before another's; outcomes that come after
the state they were produced in.

## 2. Plan

Written, in order of importance: `JobQueue`, on which all deferred work depends;
`ConversationTurn`, the state the product is about, with `SerialLog`, the abstract specification
it implements; `TranscriptCommit` with `OneOutcome`, the abstract specification it implements
(what it takes from the kernel is again `SerialLog`); `OutboxDelivery`;
`ToolIntegration`; `BrowserTask`; `AtlasApply`; `CircuitBreaker`. `LeasedWork` is the abstract
specification of a table of leased work; `JobQueue`, `ToolIntegration` and `BrowserTask`, three
queues in three styles, implement it.

Left, in this order:

1. `RealtimeSession`: lifecycle calls and the reconciler on one session row.
2. The provider projections, the second consumer of the outbox.
3. The redis store and the voice slots, once they are wired in.

## 3. The modules

Each `X.tla` has an `MCX.tla` that declares model values and symmetry for TLC, and an
`XProofs.tla` with the theorems. `PROJECT.json` maps every definition to its lines. A comment
`MUTANT of D` marks a variant of `D` with a plausible bug; no specification uses it, and the
mutation runs put it in the place of `D` to show that a property notices.

### JobQueue

Models `jobs/store.py`, `jobs/policy.py`, `jobs/recurring.py`, `jobs/runtime.py` and the process
life cycle of `worker.py`.

`jobs` is the table, `worker[w]` where process `w` is in its loop (and what it has read),
`draining` the running processes whose stop event is set, `slot` the current slot of the recurring
schedule. An action is one transaction or one event of a process:

- `Enqueue` (a producer; a taken key changes nothing), `Poll`, `InsertTick`, `SkipTick`
  (enqueue_due_ticks: the slot and has_job in one transaction, the insert in another);
- `Claim`, `ClaimNothing` (claim_next under its row lock: priority, then `run_at`, due or with an
  expired lease);
- `HandlerReturns`, `HandlerRaises` read the row for complete or fail and test that it is still
  this worker's; `CommitComplete`, `CommitFail` write it. Two actions each, because nothing locks
  the row in between. `CommitConflicts` and `CommitErrs` are the failing commits;
- `Drain`, `Exit`, `Crash`; `Elapse` lets time pass.

Instants are relative to the present, so time is unbounded in a finite state space; `MaxAge` says
from when on the past is not told apart. `reclaims`, `returned` and `fatal` are history.

### ConversationTurn

Models `process_turn` and `_commit_turn` of `kernel.py`, the merging `save` and the turn log of
`stores.py`, and `conversation_sweep.py`, for one conversation.

`row` is the conversation row with its columns (`meta` is one JSON column, written as a whole),
`log` the turn log (seq, key and request of each entry), `req[r]` what the thread of a request
holds. The path of a request is `Load` or `DropDuplicate` (the fast path on
`processed_dedupe_keys`), `Interpret` on its own snapshot, `Commit` or `CommitDuplicate` under
the row lock, `RecordRealtimeTurn`, then the trailing save of `process_turn`: `Reload`,
`ReadForSave`, `FlushSave`. The trailing save runs without a lock, merges in memory, and its
flush updates the columns that differ from those read (`Flushed`). `Crash` may happen anywhere.
`GoIdle`, `SweepSelect` and `SweepUpdate` are the idle timeout and the sweep.

What the interpreters, rules and tools decide is the nondeterminism of `Interpret`: a step the
routing can reach, with or without a change of scenario, and at most one learned fact with or
without a capture time. A fact's value is the request that learned it, so that a property can ask
where it came from.

### SerialLog

What the kernel promises the deliveries of a conversation's turns: one log that only grows and has
each dedupe key once, and to each delivery at most one answer, "committed" when its own turn is the
entry, "duplicate" when another's is (`Append`, `Drop`); a delivery may die at any time (`Die`),
also in the step in which its turn is appended. It is where two components meet. `ConversationTurn`
implements it: `length` is the row's `seq` column, and an answer is given in the step that decides
it, so `Commit` is `Append`, the fast path and the unique constraint are `Drop`, and the trailing
save, which may overwrite the counter's row, is a stutter. On the other side, `TranscriptCommit`
makes a kernel call one step, and `KernelAsPromised` says that those steps are `SerialLog`'s
(`CommitUsesSerialLog`, in no run): the transcript commit assumes nothing of the kernel that the
kernel's model has not been shown to keep.

### TranscriptCommit and OneOutcome

`TranscriptCommit` models `commit_final_transcript` for the deliveries of one transcript:
`Peek`, `Acquire` / `AcquireFindsResult` / `WaitTimesOut` (acquire_processing and its wait),
`AppendEvent`, `LinkEvent`, `ProcessTurn` or `ProcessTurnRaises` (before or after the turn
committed), `FailProcessing`, `CompleteProcessing` / `CompleteFindsLeaseGone`,
`AfterLosingLease`, `Crash`, and `GoStale`, five minutes passing on a lease. `OneOutcome` is what
callers rely on: one delivery settles the outcome, each other one that gets an answer gets that.
The refinement mapping takes the outcome from the record once it is completed.

### OutboxDelivery

Models the outbox of `realtime/store.py` and the dispatcher of `analytics_tagging/webhooks.py` for
one published event. `rows` is the outbox: the publication `Pub` and the deliveries, a delivery
being a target and a number that stands for its uuid. `target` is the table of webhook targets,
`at[d]`, `row[d]`, `count[d]`, `copy[d]` and the fan-out's `todo`, `pick` and `plan` are what a
`run_pending` has in memory. A pass claims (`Claim`, also a claim older than a minute), fans out
(`Match`, `LookUp`, `Insert`, `ClosePublication`) or delivers (`LoadTarget`, `Skip`, `MarkAttempt`,
`Send`, `MarkDelivered`, `MarkSuccess`, `MarkFailure`, `ScheduleRetry`). The marks go by id,
whoever holds the claim; the dispatcher saves the whole target. `Send` says apart what the receiver
got and what the dispatcher makes of it: a post may be received without the dispatcher knowing, and
an error is retryable or fatal (`Classified`). Fatal is not the same as rejected, since
`classify_semantic_webhook_error` makes every exception it does not know fatal, a missing secret or
a connection that breaks off after the receiver has the post among them. `Crash`, `ClaimOverruns`,
`ClaimExpires`, `BackoffPasses` and `Purge` are the rest of a delivery's life. An administrator's
PUT loads the target and later saves the whole of it (`LoadForEdit`, `SaveEdit`, or `DropEdit`), so
one that crosses a switch-off or a `DeleteTarget` brings the target back. Claims are taken in any
order, which covers the order of `list_pending`.

### CircuitBreaker

Models `tools/circuit_breaker.py` and the path of a call past it in `tools/runtime.py`. The four
counters are the breaker's; `elapsed` says that its timeout has passed, `at[c]` whether a call is
out, admitted or executing. The breaker's methods run under its lock and are single actions
(`AdmitClosed`, `AdmitFirstProbe`, `AdmitProbe`, `RecordSuccess`, `RecordFailure`); a call ends by
`Succeed`, `Fail`, `ReturnError`, or `Abandon`: rate limited, without executor, cancelled. A
result with status error is a failure to the synchronous entry point and a success to the
asynchronous one. Outcomes land in whatever state the breaker is in by then.

### ToolIntegration

Models `tools/integration_store.py`, `integration_runtime.py`, `integration_worker.py` and `cancel`
of `runtime.py` for one deferred call: `job` is its row, `invocation` the status of its invocation,
and the actors are the call that submits, workers, webhook handlers, the stuck-job sweep and a
user who cancels. Every transition of the runtime is load, save of the whole row, and sync of the
invocation, three transactions (`LoadJob`, `SaveJob`, `SyncInvocation`), and tests nothing of the
row it overwrites; the callback then saves the row once more (`RecordFingerprint`). The claim is a
select without a lock and an update of the columns that differ (`SelectJob`, `ClaimJob`). Status
tests stand only at the front: in the claim, the callback, the sweep's list and the cancel.
`slips` counts how often an actor got past its test inside another's load-to-save window. The
properties say what the tests achieve when nothing slipped and nothing failed (`Smooth`), and TLC
explores slips and faults for the rest: the job ends all the same.

### BrowserTask

Models `browser_tasks/service.py`, `store.py` and `runtime.py` for one task and its approval. Only
the claim locks the row. Renewal and release test the lease and later update its columns of whatever
the row has become (`BeginRenew`, `EndRenew`; `BeginRelease`, then `SaveTask`); every other
operation loads the row, tests it (`Allowed`) and saves its whole copy (`Updated`, `SaveTask`). A
decision saves the approval first (`LoadApproval`, `SaveApproval`), then loads and saves the task;
creation saves the task, the approval and the task again. A worker goes through `Claim`,
`BuildRequest`, `ReportProgress`, `AdapterReturns` and `ApplyResult`, and an exception of any of
these fails the task, whoever holds it by then. `Identity` is the worker id written into the lease:
processes with the default prefix share it. `expiry` is where the approval's `expires_at` lies while
it is pending: `CreateApproval` may leave it without one (`approval_ttl_seconds` may be None), and
such an approval never lapses. `renewing` is the set of heartbeats between their test and their
update; the runtime joins a heartbeat for a second only, so one may land after its worker has gone
on.

`slips` counts overlaps of load and save as above, a release's test and update included: the release
puts the task back into the queue, and a stale copy with the state unchanged (a progress report,
say) would bring it back to running under an owner that no longer drives it, until the lease
expires and another worker claims it. A renewal is not counted as an overlap. It changes nothing but
the lease's end and only makes that later, which the properties allow at any time.

### LeasedWork

What a table of leased work promises for each item: it is submitted once, one worker at a time
holds it, only its holder gives it back or ends it, and its end stands (`Submit`, `Take`,
`GiveBack`). The three tables differ in the parameter `Withdrawable`, who else may end an item, and
in what breaks the promise (`Disturb`), after which an item may be in any phase but is not lost.

| Table | waiting | Others may end | Undisturbed as long as |
|---|---|---|---|
| `jobs` | queued | nothing | no lease on the job was taken over (`reclaims`) |
| tool integration jobs | queued, retrying, waiting for the provider | a waiting job: callback, sweep, cancel | no slip and no fault (`Smooth`) |
| browser tasks | awaiting approval, queued | a waiting or running task: cancel, complete, fail, denial, expiry | no slip, no fault, no state set by hand (`Calm`) |

The first line is the strongest: in the jobs table only a takeover disturbs, crashes as such do
not, and only the job taken over is concerned. In the others one overlap may disturb the item
although every lease is kept, and a crash counts as a fault. The holder is the worker id in the
row, so for browser tasks it is the identity, which several processes may share.

### AtlasApply

Models the part of Atlas that changes things: proposal turns, reviews, permissions and applies of
one session (`atlas_coordinator.py`, `atlas_api.py`, `atlas_store.py`), with the draft of
`registry.py` and its editor in `routes/agents.py`. `deltas`, `decisions` and `permissions` are the
tables, `draft` the document as the set of what was added to it, `lock` the advisory lock, and
`copy`, `doc`, `ids`, `ran` what a request holds. Every store call is an action. A proposal turn
loads the stored changes and replaces them (`LoadStored`, `Replace`), twice if the agent has
dependencies to set up; a review saves decisions, then statuses; an apply takes the lock, loads,
passes the gate (status and content hash), writes the draft, runs the bindings, and marks; or it
reverts and marks what ran. A request dies at any point (`Crash`).

Simplifications, each without loss for the properties: a turn that carries decisions and a message
is a review turn and then a proposal turn; a review gives one verdict on all the deltas it names;
a binding that raises halfway is one that did not run.

## 4. What TLC checks

| Run | Instance | Result |
|---|---|---|
| `jobs` | 2 jobs, 2 workers, 1 key, 1 slot, batch 1, 2 attempts, 1 fault, fair | holds, 0.8 million states |
| `jobs_ticks` | the same, no fault | `OneTickPerSlot` is violated |
| `turn_safety` | 3 requests, 2 keys, 1 fact, 2 scenarios, a final step | holds, 3.1 million states |
| `turn_erased` | 3 requests, 2 facts | `FactsNeverErased` is violated |
| `transcript_commit` | 3 deliveries, fair | holds, 32 thousand states |
| `outbox` | 1 target, 2 dispatchers, 1 administrator, 1 retry, 2 copies, 1 fault, 2 edits, fair | holds, 0.4 million states |
| `breaker` | 4 calls, thresholds 2 and 2, 3 half-open calls, 1 lost, fair | holds |
| `breaker_lost` | the same, 3 lost | `IdleBreakerAdmits` is violated |
| `tools` | 2 workers, 1 handler, 2 attempts, 1 idle round, 1 fault, 1 slip, fair | holds |
| `browser` | 2 workers of one identity, 2 attempts, 1 request at a time, 2 in all, 1 fault, 1 slip, fair | holds, 0.9 million states |
| `atlas` | 3 deltas (2 bindings), 2 contents, 2 turns, 2 applies, 4 events | holds, 1.4 million states |
| `atlas_survive` | the same | `ReviewedSurvives` is violated |

**jobs.** `ExclusiveUnlessReclaimed`: one worker at a time, unless a lease ran out.
`FinishedIsJustified`: dead and succeeded are true although fail judges on a count it read
earlier. `AttemptsBounded`: max_attempts plus one per expired lease. `EverythingEnds`: from some
time on every job is finished and no worker is left draining, through crashes, stale writes that
reopen a job, retries and drains. `LeasedWorkHolds` (the refinement): as long as no lease on a
job was taken over, each of its steps is a submission, a claim, or a release or end by the worker
that holds it, although complete and fail write a row that nothing locked since they read it.

**turn_safety.** `SerialLogHolds` (the refinement): the log only grows, has each key once, and each
answer, "committed" or "duplicate", is given in the step that makes it true, although the list of
kept keys is short and overwritten by stale saves. `OnlyCommittedShows`: nothing of a rolled-back
turn shows in facts or projections.
`CommitNeverRegresses`: a commit from a stale snapshot takes nothing back.

**transcript_commit.** `OneOutcomeHolds` (the refinement), `AnsweredIsDurable`,
`ReplyLostOnlyByLapse`, and `EveryDeliveryEnds`.

**outbox.** `FanOutIsExact`: a crash in a fan-out loses no target and its repetition doubles none;
only a fan-out taken over while it runs can, since no unique index backs the dedupe key.
`SettledIsJustified`: a delivered row was received or skipped; one given up had an attempt end in
an error classified as fatal, or is out of retries. A row given up may have been received
all the same. `SettledIsFinal`: only a takeover lets a late mark reopen a settled row.
`OffStaysOff`: a target switched off while no delivery to it and no PUT of it was under way stays
off until an administrator asks to switch it on: nothing but a copy then in memory brings one back.
`EveryRowSettles`, for good.

**breaker.** `SwitchIsEarned`: it trips and closes on as many outcomes in a row as configured,
none left over from an earlier period. `IdleBreakerAdmits`: half-open and without probe in flight
it admits the next call. `Recovers`: once the tool works it closes and stays closed.

**tools.** `HoldIsExclusive`, `OutcomeStands` and `NoResubmission`: the tests at the front keep the
actors apart; a job has one outcome, the invocation shows it, the provider gets the job once.
`EveryJobEnds`, whoever is lost. `LeasedWorkHolds` (the refinement): a save of the whole row by
anyone but the holder finds the job waiting, although it tests nothing of what it overwrites.

**browser.** `ApprovalGate`: whatever stale copies are saved, a governed task is queued, run or
completed only after an approval, or a retry by hand, which does not ask for one.
`RunIsProtected`: a completed task stays so and a worker drives the browser alone.
`EveryTaskEnds`: what may stay is a task whose approval never expires and that nobody has decided,
one whose decision was cut short or overlapped, or one whose state somebody set by hand.

**atlas.** `OnlyReviewedApplied`: no interleaving of proposals under a known id, reviews and
applies brings content in that was not approved. `ReviewIsHonoured`: outside the window in which
`ReviewedSurvives` fails (below) an approval stays until it is used or the delta is proposed anew,
whoever crashes; and unless a request died, no binding runs more often than it was approved.
`DraftIsTrue`: between applies the draft is what was applied and edited.

The preconditions are where the code gives no protection, and each is a hazard of its own:
`ReviewIsHonoured` needs that no status is written between a proposal turn's load of the changes
and its replacement of them, which the apply lock does not cover, and for its count of executions
that no apply dies between running a binding and marking it; `DraftIsTrue` that nobody edits
the draft during an apply and nothing dies in one; `LeasedWorkHolds` what the table in section 3
says; `HoldIsExclusive`, `OutcomeStands`, `NoResubmission` and `RunIsProtected` that load-to-save
windows do not overlap and nothing fails: no crash, no lease that runs out under a live worker. TLC
explores the behaviours in which these happen, and `EveryJobEnds`, `EveryTaskEnds`, `ApprovalGate`
and `OnlyReviewedApplied` are checked in them; the others do not speak of them, and `hazards` in
`PROJECT.json` says so where it lists them.

### Where the code and its documentation disagree

Each of these is a run in which TLC finds the documented property violated.

- `jobs_ticks`: the partial unique index is to collapse concurrent inserts of a tick to one job per
  slot, and covers active rows only. A worker asks has_job, another inserts the tick, claims and
  finishes it, and the first inserts a second one. `TickLimit` proves how many there can be.
- `turn_erased`: the trailing save reads without a lock. A turn that commits between its read and
  its flush can lose its fact, which the merge is there to prevent.
- `breaker_lost`: `half_open_max_calls` is to limit the probes admitted concurrently, and limits
  those admitted at all. When that many end without a recorded outcome, the breaker stays half-open
  and rejects every call. `NeverLocksUp` proves what is enough to exclude it.
- `atlas_survive`: deltas that a user has approved must survive a new proposal. A review between a
  proposal turn's load of the changes and its replacement of them is wiped. `ReviewIsHonoured` says
  that this window is the only one, and `ApprovalsStand` proves it.

### Bounds, and why they are enough

Two jobs and two workers let a reclaimed job, its old holder, and a dedupe conflict or a tick
exist at once. Two attempts tell the last attempt from the others. One fault per behaviour (an
overrun lease of a live worker, or a failing commit) is enough for a stale writer; crashes are not
limited by it. A third worker would only add a second stale writer on one row. The lease and the
backoff are one unit of time, which is enough to be before, at and after an instant. `MaxFaults`
also keeps attempts and reclaims finite.

Three requests of a conversation are a committed turn, a stale one and a trailing save; two keys
make one of them a redelivery. `MaxKept = 1` (100 in the code) makes a key drop out of the list.
`turn_erased` uses one step and two facts, as the flush must differ in the facts column for a
reason other than the fact it erases.

Three deliveries are a holder, the one that takes over and the one that replays.

Outbox: the rows of one target do not depend on another's, and the publication is the second kind of
row; two dispatchers are a slow one and its successor. With one retry an attempt is the first or the
last; two copies let a fan-out be doubled. One administrator makes two edits, of which the PUT is
two steps, so that a delete and a switch-on cross deliveries and each other. Breaker: three
half-open calls and thresholds of two leave one probe to lose, and a fourth call to be turned away.
Tools: two workers for the two claims of one job, and each other actor once; an answer that settles
nothing is needed once, to poll, retry or wait, and a poll may raise after it. Browser: two workers
of one identity are the worst case of the lease checks; two attempts are one to requeue or retry and
the last. Atlas: two bindings let one run and the other raise; two contents let a delta be proposed
anew; four events are a proposal, its review, an apply, and one more of anything: a crash, an edit,
a second review, proposal or apply.

In the newer models `MaxFaults` is one fault per behaviour, and `MaxSlips` one overlap of load and
save, which `ApprovalGate` and the liveness properties go through; the others assume none.

Symmetry is used for requests, keys and facts, and for the actors, contents
and bindings of `atlas`, only in runs without liveness. `CHECK_DEADLOCK FALSE` is set where every
request, delivery, row or task of the instance ends.

### Fairness

`jobs`: `WF` of `Elapse` (time passes) and of each worker's steps (`run_forever` polls
until it is told to stop, and catches what run_once raises). Handlers end: they return, raise, or
their process dies. Producers, signals and crashes are never forced. `Drain` and `Crash` need a
spare process, since a deployment restarts its workers; each worker identity is used once.
`transcript_commit`: `WF` of each delivery, a thread of an API process whose wait has a deadline
of ten seconds. Crashes and stale leases are not forced.
`outbox`: `WF` of a dispatcher's pass (the recurring tick starts passes again) and of time.
`breaker`: calls go on being made, an admitted call ends, time passes. `tools`: whoever began goes
on, workers poll, and the sweep runs on its interval; callbacks and cancels need not come. The
sweep's look has `SF`, since refused callbacks do not hold it up in the code, while the bound on
slips makes it wait for a callback at work in the model.
`browser`: the same (approvals that have an expiry do expire, the others need not be decided), and
`SF` of the adapter's return: a report of progress takes the worker out of
the place it returns from for a moment, however often it reports, and the adapter has a time
limit.

## 5. What is proved

`XProofs.tla` proves for every value of the constants that satisfies the named assumptions
(`BoundsAssumption`, `NamesAssumption`, `TurnAssumption`, `DeliveryAssumption`,
`OutboxAssumption`, `BreakerAssumption`, `CallsAssumption`, `IntegrationAssumption`,
`BrowserAssumption`, `AtlasAssumption`: bounds are natural numbers, names of different kinds
differ, calls and workers are finitely many, `None` is none of the names). TLC evaluates those on
every run.

**JobQueueProofs.** `Invariance` establishes `IInv`: the type invariant, the three facts about
rows, and what a worker relies on between its read and its write. `OwnsOrReclaimed`: a worker at
work owns its row or the job was reclaimed. `ReadStillTrue`: the attempt count that fail read is
at most the row's, and what complete and fail are about to claim did happen. `BatchLasts`: a
claim has batch left. Without the second, `FinishedIsJustified` is not inductive: a stale fail could
judge by any number. From it follow `TypeCorrect`, `LeasesRecoverable`, `Exclusion` (two workers
at one job would both own its row), `FinalStatusJustified` and `Finality` (a
late write comes from a worker at work, which on a job never reclaimed owns a running row).
`JobsAreLeasedWork` is the refinement. `ClaimTakes`: a claim of a queued row is a `Take`, of a
running one it is a takeover and disturbs. `CommitGivesBack` needs `OwnsOrReclaimed` in the middle
of a handler: the row that complete or fail writes is running under the writer, or was reclaimed.

The two bounds count, and neither is inductive. `AttemptLimit` needs to know where an attempt
beyond `max_attempts` can come from: a fail that read the row as its owner, lost the row, and
requeues it. `AccountInv` adds those late writers to the attempts beyond the limit (one more for a
queued row, which will be claimed again) and bounds the sum by the reclaims. A takeover pays for
the writer it makes late, the late write spends that writer on a requeue, the claim spends the
requeue on an attempt. `TickLimit` needs the workers that have been told there is no tick and have
not inserted theirs: once a slot has a tick nobody joins them, and each insertion takes one off
(`TickInv`).

**ConversationTurnProofs.** `TurnInvariance` establishes `TurnInv`. Its core is `StatesAreBacked`:
every copy of the conversation that anyone holds (the row, each snapshot, each record read for a
save) lists only logged keys and only facts of committed turns, except that a request between its
interpretation and its commit holds its own. The lemmas `SavedIsBacked` and `FlushedIsBacked` say
that merge and flush cannot create anything that neither state had; that is why saves of stale
states are harmless to it. `ProgressMatchesLog` ties a thread's place to the log. From it follow
`TurnTypes`, `LogTotalOrder` (the log is gap-free), `NoTurnDropped`, `OnlyCommittedSeen`, and
`CommitsNeverRegress`, which looks at the one action that changes `seq` and at the merge.
`TurnsRefineSerialLog` goes through the steps of a request (`RequestStep`): `TurnInv` says that a
commit's key is not in the log and that a key found among the kept ones is, which are the guards of
`Append` and `Drop`; `CounterStays` says that no other writer of the row touches `seq`.

**TranscriptCommitProofs.** `CommitInvariance` establishes `CommitInv`: a delivery at work holds
the lease or let it lapse; the record names a holder exactly while it is processed; what was told
is what the record says; the delivery whose turn committed holds the lease, lost it, raised, or
has its reply stored. From it follow `CommitTypes`, `AnswersAreDurable`, `RepliesKept` and
`CommitRefinesOneOutcome`: every step settles, replays or leaves the outcome alone
(`StepSettlesOrReplays`). `CommitUsesSerialLog` shows `KernelAsPromised`; it needs that a delivery
has no reply before the kernel is called (`NoReplyYet`), so that each is answered once.

**OutboxDeliveryProofs.** `OutboxInvariance` establishes `OutboxInv`. `MarksAreBacked`: what a
dispatcher is about to mark has happened to its row, whoever claimed it since. `PlanIsCovered`: each
target a fan-out matched is still to do, being inserted, or has a row. `FanOutsAlone`: unless the
publication was taken over, one fan-out is at work. `NoWriterOnQuietTargets`: no pass holds a copy
of a target switched off in peace, and no PUT under way would switch it on. `ClaimsAreTight`: two
dispatchers at one row mean that a claim was taken over. These give `SettlementsJustified`,
`FanOutsExact`, `TargetsStayOff` and `SettlementsFinal`.

**CircuitBreakerProofs.** `BreakerInv` compares the counters with the streaks and, in
`ProbesAccounted`, says where the places of a half-open period went: to a success, a probe in
flight or a lost one. With no probe in flight and fewer successes than the threshold, a place is
left if `MaxLost + SuccessThreshold <= HalfOpenMaxCalls`, the hypothesis of `NeverLocksUp`.

**ToolIntegrationProofs.** `HoldInv` says, for behaviours without slip and fault, that one actor at
most has the job (`Alone`), that a running job is held by the worker it names, and what that actor
relies on at each place (`SeesJob`): the row is as it found it and, once written, as it left it.
`Alone` is inductive only with these, since each status test at the front fails just when another
actor is at work. From it follow `HoldsExclusive`, `OutcomesStand` and `SubmittedOnce`, and
`JobIsLeasedWork`: a save by the worker is a `GiveBack` because a running job is held by the worker
it names, a save by a callback, the sweep or a cancel is a `Withdraw` because `SeesJob` says that
the row still waits as it did when they looked; a step that spends a slip or a fault disturbs.

**BrowserTaskProofs.** Two invariants. `BaseInv` holds of all behaviours: no copy that is about to
be saved releases a task nobody permitted (`ActorFits`), which makes `ApprovalGates` immune to stale
saves. `RunInv` is for behaviours without slip and fault: one window at a time, a worker at work is
alone under its lease, copies about to be saved are fresh, and as long as a decision is outstanding
the task waits for it. It gives `RunsProtected`. `TaskIsLeasedWork` needs two facts more
(`CalmInv`): a running task has a worker at it, so that a claim never takes a task over, and a copy
to be saved with its state unchanged does not bring a run back. The second is not inductive unless a
release within somebody else's window counts as a slip, which is how the hazard described with the
module was met: the instance of `browser` has one identity for both workers and does not show it,
the theorem is about all identities.

**AtlasApplyProofs.** `ReviewInv`: an apply past the gate holds only approved content, and
decisions are never taken back, so `OnlyReviewed` needs no precondition. `StandingInv` follows an
approval into the copies of proposal turns: as long as no status was written inside a turn's
load-to-replace window, what a turn is about to put in place of the stored changes has the
approval as well. It gives `ApprovalsStand`, which crashes and failed reverts do not break.
`SpendInv` accounts for the approvals of a binding: wherever a status says approved, in the table
or in a copy that will replace it, an approval is unspent or is being spent by the apply that holds
the lock (`Unspent`), and what an apply is going to run has one left (`Spends`). The apply that
ran a binding and has not marked it yet is the case that makes the second disjunct of `Unspent`
necessary. Together they give `ApprovalsHonoured`. `DraftInv`: the apply that
holds the lock has the draft in memory as it should be, and the draft itself is that or, once
written, that and its documents. It gives `DraftStaysTrue`.

**Proved only.** `TicksPerSlotBounded` (`TickLimit`), what is left of `OneTickPerSlot`;
`TurnLogWellFormed` (theorem `LogTotalOrder`), which the refinement `SerialLogHolds`
implies and a run checks; `FinishedIsFinal` (`Finality`), the last promise of `LeasedWorkHolds`,
which says a little more of the step in which a lease is taken over; and `LeasedWorkHolds` of
`BrowserTask`, which is in no run.

**Checked by TLC only.** `EverythingEnds`, `EveryDeliveryEnds`, `EveryRowSettles`, `Recovers`,
`EveryJobEnds`, `EveryTaskEnds`: liveness under fairness is out of the prover's reach. Every
other property of a passing run is a theorem.

## 6. What is left out of the modelled parts

- Jobs: `heartbeat` (nothing calls it), the in-memory store, the momentary reordering that SKIP
  LOCKED allows between two claims that overlap, the branch of `_execute` without a handler
  (claims select registered types only), and what handlers do.
- Turns: the `state_after` snapshot of a log entry, control state, traces, move execution, tool
  confirmation, missing-facts metadata, the PII scan; the stores that are not SQL; and the unlocked
  saves of `api.py`, the widget route and other kernel entry points, which would add writers like
  the trailing save. An error that the sweep swallows is an update that does not happen.
- Transcripts: sessions, other event types, replay of events and their notifications. The kernel
  is one step here, which `SerialLog` justifies.
- Outbox: payloads, headers, signatures, delivery events, the filter of a target, which is the
  choice between active and inactive here, and `provider_projection.py`, which consumes other
  topics of the same table.
- Breaker: the registry, authorization and the checks of arguments and output. The rate limiter is
  one reason of `Abandon`.
- Tool integrations: other jobs in the queue, metrics, metadata. An executor that never returns
  keeps its lease by heartbeats in the code too; the models' executors return or raise.
- Browser tasks: operator commands and their queue, takeover beyond its save of the task,
  artifacts, credentials, events.
- Atlas: generation, validation and preflight beyond their verdict, dependencies beyond new ids,
  session status, messages, events, readiness runs, operations turns.

## 7. Not modelled

Realtime sessions and the reconciler (planned above). The bridge and channel ingress, which
normalise and call what is modelled. Redis store, redis outbox and voice slots, since nothing
creates them at this commit. Capture, rules, interpreters and reply generation, whose result is
the choice a turn makes. Journeys, knowledge, KPIs, sentiment, live evaluation and readiness, which
read committed state in batches. Ticketing, phone numbers, authentication, tenancy, billing and the
front ends: request handlers around rows of their own, with no protocol between processes.
