----------------------------- MODULE BrowserTask -----------------------------
(***************************************************************************)
(* One governed browser task (ruhu/browser_tasks): its row and its         *)
(* approval's (store.py), the requests that decide, cancel, retry or edit  *)
(* it (service.py), the sweep of stale approvals and the workers that      *)
(* claim and run it (runtime.py).                                          *)
(*                                                                         *)
(* Only the claim locks the row.  Renewal and release read it and update   *)
(* its lease columns later; everything else loads the row, tests it and    *)
(* saves the whole copy, and a decision saves the approval before it looks *)
(* at the task.                                                            *)
(***************************************************************************)
EXTENDS Naturals, FiniteSets

CONSTANTS
    Workers,       \* worker processes
    Identity,      \* the worker id each of them writes into a lease
    Requests,      \* API requests under way at once
    Creator,       \* the request that creates the task
    Sweeper,       \* expire_stale_approvals on the worker's tick
    None,
    MaxAttempts,   \* max_attempts of the task pack
    MaxRequests,   \* bound: API requests
    MaxFaults,     \* bound: crashes, pauses longer than a lease
    MaxSlips       \* bound: see slips

Actors == Workers \cup Requests \cup {Creator, Sweeper}

ASSUME BrowserAssumption ==
    /\ MaxAttempts \in Nat \ {0}
    /\ MaxRequests \in Nat /\ MaxFaults \in Nat /\ MaxSlips \in Nat
    /\ Workers \cap Requests = {}
    /\ {Creator, Sweeper} \cap (Workers \cup Requests) = {} /\ Creator # Sweeper
    /\ \A w \in Workers : Identity[w] # None

VARIABLES
    task,        \* the task's row
    approval,    \* state of its approval row
    expiry,      \* while the approval is pending, where its expires_at lies, if anywhere
    renewing,    \* workers whose heartbeat found the lease held and is to extend it
    at,          \* where each actor is
    op,          \* what it is about to do
    mem,         \* the copy of the row it loaded
    requests,    \* requests so far
    faults,      \* faults so far
    slips,       \* times an actor loaded the row inside another's load-to-save window
    governed,    \* the task was created with an approval
    approved,    \* history: an approval was saved
    byHand,      \* history: states set by retry_task and record_progress
    succeeded    \* history: the task was completed

vars == <<task, approval, expiry, renewing, at, op, mem, requests, faults, slips,
          governed, approved, byHand, succeeded>>

timers == <<expiry, renewing>>
limits == <<requests, faults>>
history == <<governed, approved, byHand, succeeded>>

Terminal == {"completed", "failed", "cancelled"}
States == {"absent", "awaiting_approval", "queued", "running"} \cup Terminal
Ids == {Identity[w] : w \in Workers}

Row == [state : States,
        owner : Ids \cup {None},   \* lease_owner
        live : BOOLEAN,            \* lease_expires_at lies ahead
        attempts : Nat]

Blank == [state |-> "absent", owner |-> None, live |-> FALSE, attempts |-> 0]

Init ==
    /\ task = Blank
    /\ approval = "none" /\ expiry = "none" /\ renewing = {}
    /\ at = [p \in Actors |-> "idle"]
    /\ op = [p \in Actors |-> "none"]
    /\ mem = [p \in Actors |-> Blank]
    /\ requests = 0 /\ faults = 0 /\ slips = 0
    /\ governed = FALSE /\ approved = FALSE /\ byHand = {} /\ succeeded = FALSE

Ended == task.state \in Terminal

Goto(p, place) == at' = [at EXCEPT ![p] = place]

Leave(p) ==
    /\ Goto(p, "idle")
    /\ op' = [op EXCEPT ![p] = "none"]
    /\ mem' = [mem EXCEPT ![p] = Blank]

\* p has loaded a row it will write from.
InWindow(p) == at[p] \notin {"idle", "claimed", "executing", "reported"}

Opens(p) ==
    IF \E q \in Actors \ {p} : InWindow(q)
    THEN slips < MaxSlips /\ slips' = slips + 1
    ELSE slips' = slips

-----------------------------------------------------------------------------
(* create_task.                                                            *)

\* The task is saved: queued, or waiting for an approval that is not there yet.
CreateTask(needs) ==
    /\ task.state = "absent"
    /\ task' = [Blank EXCEPT !.state = IF needs THEN "awaiting_approval" ELSE "queued"]
    /\ governed' = needs
    /\ IF needs
       THEN /\ Goto(Creator, "creating")
            /\ mem' = [mem EXCEPT ![Creator] = task']
       ELSE UNCHANGED <<at, mem>>
    /\ UNCHANGED <<approval, timers, op, limits, slips, approved, byHand, succeeded>>

\* Its approval is saved, to expire or not (approval_ttl_seconds) ...
CreateApproval ==
    /\ at[Creator] = "creating"
    /\ approval' = "pending"
    /\ expiry' \in {"ahead", "never"}
    /\ Goto(Creator, "loaded")
    /\ op' = [op EXCEPT ![Creator] = "keep"]
    /\ UNCHANGED <<task, renewing, mem, limits, slips, history>>

\* ... and the task once more (SaveTask), from the copy made before the approval was.

-----------------------------------------------------------------------------
(* Loading and saving the task's row.                                      *)

Unleased(m, state) == [m EXCEPT !.state = state, !.owner = None, !.live = FALSE]

\* The copy that each operation of the service saves.
Updated(m, what) ==
    CASE what = "keep" -> m                    \* takeover, artifact, worker progress
      [] what = "approve" -> [m EXCEPT !.state = "queued"]
      [] what = "deny" -> [m EXCEPT !.state = "cancelled"]
      [] what = "expire" -> Unleased(m, "failed")
      [] what = "cancel" -> Unleased(m, "cancelled")
      [] what = "retry" -> Unleased(m, "queued")
      [] what = "requeue" -> Unleased(m, "queued")
      [] what = "release" -> Unleased(task, "queued")   \* of the row, these columns only
      [] what = "complete" -> Unleased(m, "completed")
      [] what = "fail" -> Unleased(m, "failed")
      [] what = "to_queued" -> [m EXCEPT !.state = "queued"]
      [] what = "to_running" -> [m EXCEPT !.state = "running"]
      [] what = "to_awaiting" -> [m EXCEPT !.state = "awaiting_approval"]

Manual == {"retry", "to_queued", "to_running", "to_awaiting"}

\* MUTANT of Allowed: progress may set the state of a task that awaits its approval.
AllowedBeforeApproval(what, m) ==
    CASE what \in {"cancel", "keep", "fail"} -> m.state \notin Terminal
      [] what \in {"approve", "deny", "expire"} -> m.state \notin Terminal
      [] what = "complete" -> m.state \in {"queued", "running"}
      [] what = "retry" -> m.state \in {"failed", "cancelled"} /\ m.attempts < MaxAttempts
      [] what \in {"to_queued", "to_running"} -> m.state \notin Terminal
      [] what = "to_awaiting" -> m.state = "running"

\* What the operations ask of the row they loaded (_ensure_not_terminal and
\* the tests around it).  retry_task does not look at the approval.
Allowed(what, m) ==
    CASE what \in {"cancel", "keep", "fail"} -> m.state \notin Terminal
      [] what \in {"approve", "deny", "expire"} -> m.state \notin Terminal
      [] what = "complete" -> m.state \in {"queued", "running"}
      [] what = "retry" -> m.state \in {"failed", "cancelled"} /\ m.attempts < MaxAttempts
      [] what \in {"to_queued", "to_running"} -> m.state \in {"queued", "running"}
      [] what = "to_awaiting" -> m.state = "running"

\* A request loads the task and is let through; one that is refused changes nothing.
StartRequest(r, what) ==
    /\ at[r] = "idle"
    /\ requests < MaxRequests
    /\ requests' = requests + 1
    /\ task.state # "absent" /\ Allowed(what, task)
    /\ op' = [op EXCEPT ![r] = what]
    /\ mem' = [mem EXCEPT ![r] = task]
    /\ Goto(r, "loaded")
    /\ Opens(r)
    /\ UNCHANGED <<task, approval, timers, faults, history>>

\* save_task writes every column of the copy.  A cancel goes on to the
\* approval, a progress report back to the browser.
SaveTask(p) ==
    /\ at[p] = "loaded"
    /\ task' = Updated(mem[p], op[p])
    /\ byHand' = IF op[p] \in Manual THEN byHand \cup {op[p]} ELSE byHand
    /\ succeeded' = (succeeded \/ op[p] = "complete")
    /\ IF op[p] = "cancel" \/ (op[p] = "keep" /\ p \in Workers)
       THEN /\ Goto(p, IF op[p] = "cancel" THEN "unpend" ELSE "executing")
            /\ UNCHANGED op /\ mem' = [mem EXCEPT ![p] = Blank]
       ELSE Leave(p)
    /\ UNCHANGED <<approval, timers, limits, slips, governed, approved>>

\* cancel_task: a pending approval is cancelled too.
CancelApproval(r) ==
    /\ at[r] = "unpend"
    /\ approval' = IF approval = "pending" THEN "cancelled" ELSE approval
    /\ expiry' = "none"
    /\ Leave(r)
    /\ UNCHANGED <<task, renewing, limits, slips, history>>

-----------------------------------------------------------------------------
(* Decisions: approve, deny, and expiry by the sweep or by a late decision. *)

\* The approval is loaded and found pending (_ensure_pending_approval).
LoadApproval(p, what) ==
    /\ at[p] = "idle"
    /\ approval = "pending"
    /\ what = "expire" <=> expiry = "passed"
    /\ op' = [op EXCEPT ![p] = what]
    /\ Goto(p, "deciding")
    /\ Opens(p)
    /\ UNCHANGED <<task, approval, timers, mem, faults, history>>

DecideRequest(r, what) ==
    /\ requests < MaxRequests
    /\ requests' = requests + 1
    /\ LoadApproval(r, what)

SweepApproval == LoadApproval(Sweeper, "expire") /\ UNCHANGED requests

SaveApproval(p) ==
    /\ at[p] = "deciding"
    /\ approval' = CASE op[p] = "approve" -> "approved"
                     [] op[p] = "deny" -> "denied"
                     [] op[p] = "expire" -> "expired"
    /\ expiry' = "none"
    /\ approved' = (approved \/ op[p] = "approve")
    /\ Goto(p, "decided")
    /\ UNCHANGED <<task, renewing, op, mem, limits, slips, governed, byHand, succeeded>>

\* MUTANT of LoadTask: the decision is saved without loading the task.
LoadTaskBlind(p) ==
    /\ at[p] = "decided"
    /\ Goto(p, "loaded")
    /\ UNCHANGED <<task, approval, timers, op, mem, limits, slips, history>>

\* Then the task is loaded.  A decision on a task that has ended is an error;
\* so is completing one that awaits approval, which the worker answers by
\* failing it (_fail_runtime_task).
LoadTask(p) ==
    /\ at[p] = "decided"
    /\ \/ /\ Allowed(op[p], task)
          /\ mem' = [mem EXCEPT ![p] = task]
          /\ Goto(p, "loaded")
          /\ UNCHANGED op
       \/ /\ ~ Allowed(op[p], task)
          /\ IF op[p] = "complete" /\ ~ Ended
             THEN op' = [op EXCEPT ![p] = "fail"] /\ UNCHANGED <<at, mem>>
             ELSE Leave(p)
    /\ UNCHANGED <<task, approval, timers, limits, slips, history>>

-----------------------------------------------------------------------------
(* Workers.                                                                *)

\* MUTANT of Claimable: a lease is ignored.
ClaimableLeased(m) == m.state \in {"queued", "running"}

\* MUTANT of Claimable: a running task stays with whoever claimed it.
ClaimableQueued(m) == m.state = "queued"

Claimable(m) == m.state = "queued" \/ (m.state = "running" /\ ~ m.live)

\* claim_next_queued_task, FOR UPDATE SKIP LOCKED.
Claim(w) ==
    /\ at[w] = "idle"
    /\ Claimable(task)
    /\ task' = [state |-> "running", owner |-> Identity[w], live |-> TRUE,
                attempts |-> task.attempts + 1]
    /\ Goto(w, "claimed")
    /\ Opens(w)
    /\ UNCHANGED <<approval, timers, op, mem, limits, history>>

Held(w) == task.state = "running" /\ task.owner = Identity[w]

\* build_worker_request; when it raises the task is failed.
BuildRequest(w) ==
    /\ at[w] = "claimed"
    /\ \/ Held(w) /\ Goto(w, "executing") /\ UNCHANGED <<op, slips>>
       \/ /\ ~ Held(w)
          /\ op' = [op EXCEPT ![w] = "fail"]
          /\ Goto(w, "decided")
          /\ Opens(w)
    /\ UNCHANGED <<task, approval, timers, mem, limits, history>>

\* record_worker_progress loads the task, or raises and ends the adapter's run.
ReportProgress(w) ==
    /\ at[w] = "executing"
    /\ \/ /\ Held(w)
          /\ op' = [op EXCEPT ![w] = "keep"]
          /\ mem' = [mem EXCEPT ![w] = task]
          /\ Goto(w, "loaded")
          /\ Opens(w)
       \/ /\ ~ Held(w)
          /\ op' = [op EXCEPT ![w] = "retryable"]
          /\ Goto(w, "reported")
          /\ UNCHANGED <<mem, slips>>
    /\ UNCHANGED <<task, approval, timers, limits, history>>

\* The adapter returns and the heartbeats stop; artifacts are published now.
AdapterReturns(w, result) ==
    /\ at[w] = "executing"
    /\ op' = [op EXCEPT ![w] = result]
    /\ Goto(w, "reported")
    /\ UNCHANGED <<task, approval, timers, mem, limits, slips, history>>

\* apply_worker_result: the lease is checked; whatever it raises fails the
\* task, whoever holds it by then.
ApplyResult(w) ==
    /\ at[w] = "reported"
    /\ Opens(w)
    /\ IF Held(w) /\ op[w] = "retryable" /\ task.attempts < MaxAttempts
       THEN /\ op' = [op EXCEPT ![w] = "requeue"]
            /\ mem' = [mem EXCEPT ![w] = task]
            /\ Goto(w, "loaded")
       ELSE /\ op' = [op EXCEPT ![w] = IF Held(w) /\ @ = "success" THEN "complete" ELSE "fail"]
            /\ Goto(w, "decided")
            /\ UNCHANGED mem
    /\ UNCHANGED <<task, approval, timers, limits, history>>

\* release_task_lease, for a worker that gives the task back: the lease is
\* checked here and dropped later (SaveTask), whoever holds it by then.
BeginRelease(w) ==
    /\ at[w] = "executing"
    /\ Held(w)
    /\ requests < MaxRequests
    /\ requests' = requests + 1
    /\ op' = [op EXCEPT ![w] = "release"]
    /\ mem' = [mem EXCEPT ![w] = task]
    /\ Goto(w, "loaded")
    /\ Opens(w)
    /\ UNCHANGED <<task, approval, timers, faults, history>>

\* renew_task_lease, from the heartbeat of anyone with the owner's identity ...
BeginRenew(w) ==
    /\ at[w] = "executing"
    /\ Held(w)
    /\ renewing' = renewing \cup {w}
    /\ UNCHANGED <<task, approval, expiry, at, op, mem, limits, slips, history>>

\* ... which extends the lease of whatever the row has become, also after the
\* adapter returned: the heartbeat is joined for a second only.
EndRenew(w) ==
    /\ w \in renewing
    /\ renewing' = renewing \ {w}
    /\ task' = [task EXCEPT !.live = TRUE]
    /\ UNCHANGED <<approval, expiry, at, op, mem, limits, slips, history>>

-----------------------------------------------------------------------------
(* Faults and time.                                                        *)

Crash(p) ==
    /\ at[p] # "idle"
    /\ faults < MaxFaults
    /\ faults' = faults + 1
    /\ Leave(p)
    /\ renewing' = renewing \ {p}
    /\ UNCHANGED <<task, approval, expiry, requests, slips, history>>

\* A worker that claimed the task has not finished with it.
Attended == \E w \in Workers : at[w] # "idle" /\ Identity[w] = task.owner

\* lease_seconds without a renewal.  Under a worker at work that takes a pause, or
\* a slow publication of artifacts: its heartbeats stop when the adapter returns.
LeasePasses ==
    /\ task.state = "running" /\ task.live
    /\ IF Attended THEN faults < MaxFaults /\ faults' = faults + 1 ELSE faults' = faults
    /\ task' = [task EXCEPT !.live = FALSE]
    /\ UNCHANGED <<approval, timers, at, op, mem, requests, slips, history>>

\* approval_ttl_seconds have passed, if the approval has any.
ApprovalLapses ==
    /\ approval = "pending" /\ expiry = "ahead"
    /\ expiry' = "passed"
    /\ UNCHANGED <<task, approval, renewing, at, op, mem, limits, slips, history>>

-----------------------------------------------------------------------------

Decide(p) == SaveApproval(p) \/ LoadTask(p) \/ SaveTask(p)

AdapterStep(w) == \E result \in {"success", "retryable", "fatal"} : AdapterReturns(w, result)

WorkerStep(w) ==
    \/ Claim(w) \/ BuildRequest(w) \/ AdapterStep(w) \/ ApplyResult(w)
    \/ LoadTask(w) \/ SaveTask(w)

RequestStep(r) == Decide(r) \/ CancelApproval(r)

Next ==
    \/ \E needs \in BOOLEAN : CreateTask(needs)
    \/ CreateApproval \/ SaveTask(Creator)
    \/ \E r \in Requests :
          \/ \E what \in Manual \cup {"keep", "cancel", "complete", "fail"} : StartRequest(r, what)
          \/ \E what \in {"approve", "deny", "expire"} : DecideRequest(r, what)
          \/ RequestStep(r)
    \/ SweepApproval \/ Decide(Sweeper)
    \/ \E w \in Workers :
          WorkerStep(w) \/ ReportProgress(w) \/ BeginRelease(w) \/ BeginRenew(w) \/ EndRenew(w)
    \/ \E p \in Actors : Crash(p)
    \/ LeasePasses \/ ApprovalLapses

Spec == Init /\ [][Next]_vars

\* Whoever began goes on, the adapter returns however often it reports (it has a
\* time limit), the worker's tick claims and sweeps, and time passes.  Requests,
\* progress and faults need not come.
FairSpec ==
    /\ Spec
    /\ WF_vars(CreateApproval \/ SaveTask(Creator))
    /\ \A r \in Requests : WF_vars(RequestStep(r))
    /\ WF_vars(SweepApproval \/ Decide(Sweeper))
    /\ \A w \in Workers : WF_vars(WorkerStep(w)) /\ SF_vars(AdapterStep(w))
    /\ WF_vars(LeasePasses) /\ WF_vars(ApprovalLapses)

-----------------------------------------------------------------------------

Places == {"idle", "creating", "loaded", "unpend", "deciding", "decided",
           "claimed", "executing", "reported"}
Ops == Manual \cup {"none", "keep", "approve", "deny", "expire", "cancel", "requeue", "release",
                    "complete", "fail", "success", "retryable", "fatal"}
Approvals == {"none", "pending", "approved", "denied", "expired", "cancelled"}

\* The rows and the actors keep their types; a copy about to be saved is of a
\* task that exists and comes with an operation of the service.
TypeOK ==
    /\ task \in Row /\ approval \in Approvals /\ expiry \in {"none", "ahead", "passed", "never"}
    /\ renewing \in SUBSET Workers
    /\ at \in [Actors -> Places] /\ op \in [Actors -> Ops] /\ mem \in [Actors -> Row]
    /\ requests \in 0 .. MaxRequests /\ faults \in 0 .. MaxFaults /\ slips \in 0 .. MaxSlips
    /\ governed \in BOOLEAN /\ approved \in BOOLEAN /\ succeeded \in BOOLEAN
    /\ byHand \in SUBSET Manual
    /\ \A p \in Actors :
          at[p] = "loaded" => /\ mem[p].state # "absent"
                              /\ op[p] \notin {"none", "success", "retryable", "fatal"}

Smooth == slips = 0 /\ faults = 0

\* A task that needs an approval is queued, run or completed only after one
\* was given or the task was retried by hand, whatever stale copies are saved.
ApprovalGate ==
    governed /\ task.state \in {"queued", "running", "completed"} =>
        approved \/ "retry" \in byHand

\* A completed task stays completed, and a worker that drives a browser is the
\* only one: the task runs under its lease or was ended by a request.  Both
\* hold unless copies overlap, a lease runs out under a live worker or, for the
\* second, somebody sets the state by hand.
RunIsProtected ==
    Smooth =>
        /\ succeeded => task.state = "completed"
        /\ byHand = {} =>
              \A w \in Workers : at[w] = "executing" =>
                  /\ Ended \/ (Held(w) /\ task.live)
                  /\ \A v \in Workers \ {w} : at[v] # "executing"

Calm == Smooth /\ byHand = {}

\* The row is leased work: one worker identity at a time holds the task, only it
\* gives the task back, and the task ends once, also by a request that ends it
\* under its holder, unless copies overlap, something fails or somebody sets the
\* state by hand.
PhaseOf(m) ==
    CASE m.state = "absent" -> "absent"
      [] m.state \in {"awaiting_approval", "queued"} -> "waiting"
      [] m.state = "running" -> "held"
      [] OTHER -> m.state
LifeOf(m, calm) ==
    [phase |-> PhaseOf(m), calm |-> calm,
     holder |-> IF m.state = "running" THEN m.owner ELSE None]
Leases == INSTANCE LeasedWork WITH
    Items <- {"task"}, Workers <- Ids, Endings <- Terminal, Withdrawable <- {"waiting", "held"},
    work <- [i \in {"task"} |-> LifeOf(task, Calm)]
LeasedWorkHolds == Leases!Spec

\* Every task ends although workers are lost, unless it waits for an approval:
\* one that does not expire and that nobody has decided, or one that nobody can
\* give any more, after a decision that was cut short or overlapped, or a state
\* set by hand.
EveryTaskEnds ==
    (task.state \in {"awaiting_approval", "queued", "running"}) ~>
        \/ Ended
        \/ /\ task.state = "awaiting_approval"
           /\ (approval = "pending" /\ expiry = "never") \/ ~ Smooth \/ byHand # {}
=============================================================================
