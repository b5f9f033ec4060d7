-------------------------- MODULE BrowserTaskProofs --------------------------
(***************************************************************************)
(* Proofs about browser tasks, for any number of workers, identities,      *)
(* requests, attempts, faults and slips.                                   *)
(***************************************************************************)
EXTENDS BrowserTask, TLAPS

USE DEF timers

\* Nothing is under way before the task is created.
NothingBeforeTask ==
    task.state = "absent" => approval = "none" /\ \A p \in Actors : at[p] = "idle"

Decisions == {"approve", "deny", "expire"}
Savable == Manual \cup Decisions \cup {"keep", "cancel", "requeue", "release", "complete", "fail"}

Released == {"queued", "running", "completed"}
Permitted == ~ governed \/ approved \/ "retry" \in byHand

\* What an actor is about to do fits the place it is at, and no copy that it is
\* about to save releases a task that nobody permitted.
ActorFits(p) ==
    /\ at[p] = "creating" => mem[p].state = "awaiting_approval"
    /\ at[p] = "deciding" => op[p] \in Decisions
    /\ at[p] = "decided" => op[p] \in Decisions \cup {"complete", "fail"}
    /\ at[p] = "loaded" =>
          /\ op[p] \in Savable
          /\ mem[p].state # "absent"
          /\ mem[p].state \in Released => Permitted
          /\ op[p] \in {"to_queued", "to_running", "to_awaiting", "requeue", "release", "complete"} =>
                mem[p].state \in Released
          /\ op[p] \in {"requeue", "release"} => p \in Workers
    /\ at[p] \in {"decided", "loaded"} /\ op[p] = "approve" => approved

TaskPermitted == task.state \in Released => Permitted

\* Only one actor at a time is between its load and its save.
OneWindow == \A p, q \in Actors : InWindow(p) /\ InWindow(q) => p = q

\* Nobody holds a copy from before the task was completed.
CompletedAlone ==
    succeeded => task.state = "completed" /\ \A p \in Actors : at[p] \notin {"loaded", "creating"}

\* A worker at work is the only one and, unless the task has ended, holds its lease.
WorkerHolds ==
    \A w \in Workers : at[w] # "idle" =>
        /\ Ended \/ (Held(w) /\ task.live)
        /\ \A v \in Workers : at[v] # "idle" => v = w

\* The approval is still to be decided, or its decision to be applied.
Undecided ==
    \/ approval = "pending"
    \/ at[Creator] \in {"creating", "loaded"}
    \/ \E p \in Actors : at[p] \in {"deciding", "decided", "loaded"} /\ op[p] \in Decisions

\* Until then the task waits for it or has ended.
UndecidedWaits ==
    /\ Undecided => task.state = "awaiting_approval" \/ Ended
    /\ at[Creator] = "creating" => ~ Ended
    /\ \A p \in Actors : at[p] \in {"decided", "loaded"} /\ op[p] \in Decisions =>
          approval # "pending"

\* A copy about to be saved shows the worker at work and the decision to come.
CopiesAreFresh ==
    \A p \in Actors : at[p] = "loaded" /\ op[p] # "retry" =>
        /\ ~ Ended
        /\ Undecided => mem[p].state = "awaiting_approval"
        /\ \A w \in Workers : at[w] # "idle" =>
              mem[p].state = "running" /\ mem[p].owner = Identity[w] /\ mem[p].live

\* What holds of a smooth run in which nobody set the state by hand.
HandsOff == WorkerHolds /\ UndecidedWaits /\ CopiesAreFresh

RunInv == Smooth => OneWindow /\ CompletedAlone /\ (byHand = {} => HandsOff)

BaseInv ==
    TypeOK /\ NothingBeforeTask /\ TaskPermitted /\ \A p \in Actors : ActorFits(p)

-----------------------------------------------------------------------------

LEMMA ActorFacts ==
    /\ Workers \subseteq Actors /\ Requests \subseteq Actors
    /\ Creator \in Actors /\ Sweeper \in Actors
    /\ Creator \notin Workers /\ Creator \notin Requests
    /\ Sweeper \notin Workers /\ Sweeper \notin Requests /\ Creator # Sweeper
BY BrowserAssumption DEF Actors

LEMMA BlankFacts == Blank \in Row /\ Blank.state = "absent"
BY DEF Blank, Row, States

\* What the operations make of a copy.
LEMMA UpdatedFacts ==
    ASSUME NEW m \in Row, NEW what \in Savable, task \in Row
    PROVE  /\ Updated(m, what) \in Row
           /\ m.state # "absent" => Updated(m, what).state # "absent"
           /\ what = "keep" => Updated(m, what) = m
           /\ what \in {"approve", "retry", "requeue", "release", "to_queued"} =>
                 Updated(m, what).state = "queued"
           /\ what \in {"deny", "cancel"} => Updated(m, what).state = "cancelled"
           /\ what \in {"expire", "fail"} => Updated(m, what).state = "failed"
           /\ what = "complete" => Updated(m, what).state = "completed"
           /\ what = "to_running" => Updated(m, what).state = "running"
           /\ what = "to_awaiting" => Updated(m, what).state = "awaiting_approval"
<1>1. what \in Manual \/ what \in Decisions
      \/ what \in {"keep", "cancel", "requeue", "release", "complete", "fail"}
  BY DEF Savable
<1>2. CASE what = "keep"
  BY <1>2 DEF Updated, Manual, Decisions
<1>3. CASE what \in {"approve", "deny", "to_queued", "to_running", "to_awaiting"}
  BY <1>3 DEF Updated, Row, States, Terminal
<1>4. CASE what \in {"expire", "cancel", "retry", "requeue", "release", "complete", "fail"}
  BY <1>4 DEF Updated, Unleased, Row, States, Terminal
<1> QED
  BY <1>1, <1>2, <1>3, <1>4 DEF Manual, Decisions

\* What the operations ask of the row they load.
LEMMA AllowedFacts ==
    ASSUME NEW m \in Row, NEW what \in Savable \ {"requeue", "release"}, Allowed(what, m)
    PROVE  /\ what # "retry" => m.state \notin Terminal
           /\ what = "retry" => m.state \in {"failed", "cancelled"}
           /\ what \in {"to_queued", "to_running", "to_awaiting", "complete"} =>
                 m.state \in {"queued", "running"}
<1>1. what \in Manual \/ what \in Decisions \/ what \in {"keep", "cancel", "complete", "fail"}
  BY DEF Savable
<1> QED
  BY <1>1 DEF Allowed, Manual, Decisions, Terminal

\* An actor that is done forgets its copies; the others are as they were.
LEMMA LeaveEffect ==
    ASSUME TypeOK, NEW p \in Actors, Leave(p)
    PROVE  /\ at' \in [Actors -> Places] /\ op' \in [Actors -> Ops] /\ mem' \in [Actors -> Row]
           /\ at'[p] = "idle"
           /\ \A q \in Actors : q # p => at'[q] = at[q] /\ op'[q] = op[q] /\ mem'[q] = mem[q]
BY BlankFacts DEF TypeOK, Leave, Goto, Places, Ops

LEMMA OpensEffect ==
    ASSUME TypeOK, NEW p \in Actors, Opens(p)
    PROVE  /\ slips' \in 0 .. MaxSlips
           /\ slips' = 0 => slips = 0 /\ \A q \in Actors : InWindow(q) => q = p
BY BrowserAssumption DEF TypeOK, Opens

-----------------------------------------------------------------------------
(* Types and the approval gate.                                            *)

\* The types of what the actors share.
SharedTypes ==
    /\ task \in Row /\ approval \in Approvals /\ expiry \in {"none", "ahead", "passed", "never"}
    /\ renewing \in SUBSET Workers
    /\ requests \in 0 .. MaxRequests /\ faults \in 0 .. MaxFaults /\ slips \in 0 .. MaxSlips
    /\ governed \in BOOLEAN /\ approved \in BOOLEAN /\ succeeded \in BOOLEAN
    /\ byHand \in SUBSET Manual

ActorTypes == at \in [Actors -> Places] /\ op \in [Actors -> Ops] /\ mem \in [Actors -> Row]

LEMMA BaseParts ==
    ASSUME BaseInv
    PROVE  SharedTypes /\ ActorTypes
BY DEF BaseInv, TypeOK, SharedTypes, ActorTypes

\* What is to be shown of a step in which one actor moves and the task stays.
LEMMA OneActorMoves ==
    ASSUME BaseInv, NEW p \in Actors,
           SharedTypes', ActorTypes',
           \A q \in Actors : q # p => at'[q] = at[q] /\ op'[q] = op[q] /\ mem'[q] = mem[q],
           Permitted => Permitted', approved => approved',
           task'.state # "absent", TaskPermitted', ActorFits(p)'
    PROVE  BaseInv'
<1>1. ASSUME NEW q \in Actors, q # p
      PROVE  ActorFits(q)'
  <2>1. ActorFits(q)
    BY DEF BaseInv
  <2>2. at'[q] = at[q] /\ op'[q] = op[q] /\ mem'[q] = mem[q]
    BY <1>1
  <2> QED
    BY <2>1, <2>2 DEF ActorFits
<1>2. \A q \in Actors : ActorFits(q)'
  BY <1>1
<1>3. TypeOK'
  BY <1>2 DEF TypeOK, SharedTypes, ActorTypes, ActorFits, Savable, Decisions, Manual
<1>4. NothingBeforeTask'
  BY DEF NothingBeforeTask
<1> QED
  BY <1>2, <1>3, <1>4 DEF BaseInv

LEMMA InitBase == Init => BaseInv
<1> SUFFICES ASSUME Init PROVE BaseInv
  OBVIOUS
<1>1. expiry = "none" /\ renewing = {} /\ governed \in BOOLEAN /\ approved \in BOOLEAN /\ succeeded \in BOOLEAN
  BY DEF Init
<1>2. task \in Row /\ mem \in [Actors -> Row]
  BY BlankFacts DEF Init
<1>3. at \in [Actors -> Places] /\ op \in [Actors -> Ops]
  BY DEF Init, Places, Ops
<1>4. \A p \in Actors : at[p] = "idle"
  BY DEF Init
<1>5. TypeOK
  BY <1>1, <1>2, <1>3, <1>4, BrowserAssumption DEF Init, TypeOK, Approvals
<1>6. NothingBeforeTask /\ TaskPermitted
  BY <1>4, BlankFacts DEF Init, NothingBeforeTask, TaskPermitted, Released
<1>7. \A p \in Actors : ActorFits(p)
  BY <1>4 DEF ActorFits
<1> QED
  BY <1>5, <1>6, <1>7 DEF BaseInv

LEMMA CreateBase ==
    ASSUME BaseInv, NEW needs \in BOOLEAN, CreateTask(needs)
    PROVE  BaseInv'
<1>0. SharedTypes /\ ActorTypes
  BY BaseParts
<1>1. \A p \in Actors : at[p] = "idle"
  BY DEF BaseInv, NothingBeforeTask, CreateTask
<1>2. /\ task' \in Row
      /\ task'.state = IF needs THEN "awaiting_approval" ELSE "queued"
  BY DEF CreateTask, Blank, Row, States
<1>3. SharedTypes'
  BY <1>0, <1>2 DEF SharedTypes, CreateTask, limits
<1>4. ActorTypes'
  BY <1>0, <1>2 DEF ActorTypes, CreateTask, Goto, Places
<1>5. \A p \in Actors : at'[p] = "idle" \/ (p = Creator /\ at'[p] = "creating" /\ needs
                                           /\ mem'[p] = task')
  BY <1>0, <1>1, ActorFacts DEF ActorTypes, CreateTask, Goto
<1>6. \A p \in Actors : ActorFits(p)'
  BY <1>2, <1>5 DEF ActorFits
<1>7. TaskPermitted'
  BY <1>2 DEF TaskPermitted, Permitted, Released, CreateTask
<1>8. NothingBeforeTask'
  BY <1>2 DEF NothingBeforeTask
<1>9. TypeOK'
  BY <1>3, <1>4, <1>5 DEF TypeOK, SharedTypes, ActorTypes
<1> QED
  BY <1>6, <1>7, <1>8, <1>9 DEF BaseInv

\* An actor at work works on a task that exists.
LEMMA AtWork ==
    ASSUME BaseInv, NEW p \in Actors, at[p] # "idle"
    PROVE  task.state # "absent"
BY DEF BaseInv, NothingBeforeTask

\* Steps that write neither the task nor a permission.
LEMMA QuietBase ==
    ASSUME BaseInv, NEW p \in Actors,
           SharedTypes', ActorTypes',
           \A q \in Actors : q # p => at'[q] = at[q] /\ op'[q] = op[q] /\ mem'[q] = mem[q],
           UNCHANGED <<task, history>>, task.state # "absent", ActorFits(p)'
    PROVE  BaseInv'
<1>1. TaskPermitted' /\ (Permitted => Permitted') /\ (approved => approved')
  BY DEF BaseInv, TaskPermitted, Permitted, history
<1> QED
  BY <1>1, OneActorMoves

LEMMA CreateApprovalBase ==
    ASSUME BaseInv, CreateApproval
    PROVE  BaseInv'
<1>0. SharedTypes /\ ActorTypes
  BY BaseParts
<1>1. SharedTypes'
  BY <1>0 DEF SharedTypes, CreateApproval, limits, history, Approvals
<1>2. ActorTypes'
  BY <1>0, ActorFacts DEF ActorTypes, CreateApproval, Goto, Places, Ops
<1>3. /\ at'[Creator] = "loaded" /\ op'[Creator] = "keep" /\ mem'[Creator] = mem[Creator]
      /\ \A q \in Actors : q # Creator => at'[q] = at[q] /\ op'[q] = op[q] /\ mem'[q] = mem[q]
  BY <1>0, ActorFacts DEF ActorTypes, CreateApproval, Goto
<1>4. mem[Creator].state = "awaiting_approval" /\ task.state # "absent"
  BY AtWork, ActorFacts DEF BaseInv, ActorFits, CreateApproval
<1>5. ActorFits(Creator)'
  BY <1>3, <1>4, ActorFacts DEF ActorFits, Savable, Released
<1> QED
  BY <1>1, <1>2, <1>3, <1>4, <1>5, ActorFacts, QuietBase DEF CreateApproval

LEMMA StartRequestBase ==
    ASSUME BaseInv, NEW r \in Requests,
           NEW what \in Manual \cup {"keep", "cancel", "complete", "fail"}, StartRequest(r, what)
    PROVE  BaseInv'
<1>0. SharedTypes /\ ActorTypes /\ r \in Actors
  BY BaseParts, ActorFacts
<1>1. slips' \in 0 .. MaxSlips
  BY <1>0, OpensEffect DEF BaseInv, StartRequest
<1>2. SharedTypes'
  BY <1>0, <1>1, BrowserAssumption DEF SharedTypes, StartRequest, history
<1>3. what \in Savable /\ what \in Ops /\ what \notin {"requeue", "release", "approve"}
  BY DEF Savable, Ops, Manual
<1>4. ActorTypes'
  BY <1>0, <1>3 DEF SharedTypes, ActorTypes, StartRequest, Goto, Places
<1>5. /\ at'[r] = "loaded" /\ op'[r] = what /\ mem'[r] = task /\ task.state # "absent"
      /\ Allowed(what, task)
      /\ \A q \in Actors : q # r => at'[q] = at[q] /\ op'[q] = op[q] /\ mem'[q] = mem[q]
  BY <1>0 DEF ActorTypes, StartRequest, Goto
<1>6. what \in {"to_queued", "to_running", "to_awaiting", "complete"} =>
         task.state \in {"queued", "running"}
  BY <1>0, <1>3, <1>5, AllowedFacts DEF SharedTypes
<1>7. UNCHANGED <<task, history>>
  BY DEF StartRequest
<1>8. ActorFits(r)'
  BY <1>3, <1>5, <1>6, <1>7 DEF BaseInv, ActorFits, TaskPermitted, Permitted, Released, history
<1> QED
  BY <1>0, <1>2, <1>4, <1>5, <1>7, <1>8, QuietBase

LEMMA SaveTaskBase ==
    ASSUME BaseInv, NEW p \in Actors, SaveTask(p)
    PROVE  BaseInv'
<1>0. SharedTypes /\ ActorTypes
  BY BaseParts
<1>1. /\ mem[p] \in Row /\ op[p] \in Savable /\ mem[p].state # "absent"
      /\ mem[p].state \in Released => Permitted
      /\ op[p] \in {"to_queued", "to_running", "to_awaiting", "requeue", "release", "complete"} =>
            mem[p].state \in Released
      /\ op[p] = "approve" => approved
  BY <1>0 DEF BaseInv, ActorTypes, ActorFits, SaveTask
<1>2. task \in Row /\ task' = Updated(mem[p], op[p]) /\ task' \in Row /\ task'.state # "absent"
  BY <1>0, <1>1, UpdatedFacts DEF SharedTypes, SaveTask
<1>3. SharedTypes'
  BY <1>0, <1>2 DEF SharedTypes, SaveTask, limits
<1>4. /\ ActorTypes' /\ at'[p] \in {"idle", "unpend", "executing"}
      /\ \A q \in Actors : q # p => at'[q] = at[q] /\ op'[q] = op[q] /\ mem'[q] = mem[q]
  <2>1. CASE Leave(p)
    BY <2>1, LeaveEffect DEF BaseInv, ActorTypes
  <2>2. CASE ~ Leave(p)
    BY <1>0, <2>2, BlankFacts DEF ActorTypes, SaveTask, Goto, Places
  <2> QED
    BY <2>1, <2>2
<1>5. ActorFits(p)'
  BY <1>4 DEF ActorFits
<1>6. (Permitted => Permitted') /\ (approved => approved')
  BY DEF Permitted, SaveTask
<1>7. TaskPermitted'
  <2>1. CASE op[p] = "retry"
    BY <2>1 DEF TaskPermitted, Permitted, SaveTask, Manual
  <2>2. CASE op[p] = "approve" \/ mem[p].state \in Released
    BY <1>1, <1>6, <2>2 DEF TaskPermitted, Permitted
  <2>3. CASE op[p] \notin {"retry", "approve"} /\ mem[p].state \notin Released
    BY <1>1, <1>2, <2>3, UpdatedFacts DEF TaskPermitted, Savable, Manual, Decisions, Released
  <2> QED
    BY <2>1, <2>2, <2>3
<1> QED
  BY <1>2, <1>3, <1>4, <1>5, <1>6, <1>7, OneActorMoves

LEMMA CancelApprovalBase ==
    ASSUME BaseInv, NEW r \in Actors, CancelApproval(r)
    PROVE  BaseInv'
<1>0. SharedTypes /\ ActorTypes
  BY BaseParts
<1>1. SharedTypes'
  BY <1>0 DEF SharedTypes, CancelApproval, limits, history, Approvals
<1>2. /\ ActorTypes' /\ at'[r] = "idle"
      /\ \A q \in Actors : q # r => at'[q] = at[q] /\ op'[q] = op[q] /\ mem'[q] = mem[q]
  BY LeaveEffect DEF BaseInv, ActorTypes, CancelApproval
<1>3. ActorFits(r)'
  BY <1>2 DEF ActorFits
<1>4. task.state # "absent" /\ UNCHANGED <<task, history>>
  BY AtWork DEF CancelApproval
<1> QED
  BY <1>1, <1>2, <1>3, <1>4, QuietBase

LEMMA LoadApprovalBase ==
    ASSUME BaseInv, NEW p \in Actors, NEW what \in Decisions, LoadApproval(p, what),
           requests' \in 0 .. MaxRequests
    PROVE  BaseInv'
<1>0. SharedTypes /\ ActorTypes /\ task.state # "absent"
  BY BaseParts DEF BaseInv, NothingBeforeTask, LoadApproval
<1>1. slips' \in 0 .. MaxSlips
  BY OpensEffect DEF BaseInv, LoadApproval
<1>2. SharedTypes'
  BY <1>0, <1>1 DEF SharedTypes, LoadApproval, history
<1>3. /\ ActorTypes' /\ at'[p] = "deciding" /\ op'[p] = what
      /\ \A q \in Actors : q # p => at'[q] = at[q] /\ op'[q] = op[q] /\ mem'[q] = mem[q]
  BY <1>0 DEF ActorTypes, LoadApproval, Goto, Places, Ops, Decisions
<1>4. ActorFits(p)'
  BY <1>3 DEF ActorFits
<1>5. UNCHANGED <<task, history>>
  BY DEF LoadApproval
<1> QED
  BY <1>0, <1>2, <1>3, <1>4, <1>5, QuietBase

LEMMA SaveApprovalBase ==
    ASSUME BaseInv, NEW p \in Actors, SaveApproval(p)
    PROVE  BaseInv'
<1>0. SharedTypes /\ ActorTypes /\ task.state # "absent" /\ op[p] \in Decisions
  BY BaseParts, AtWork DEF BaseInv, ActorFits, SaveApproval
<1>1. approval' \in Approvals
  BY <1>0 DEF SaveApproval, Decisions, Approvals
<1>2. SharedTypes'
  BY <1>0, <1>1 DEF SharedTypes, SaveApproval, limits
<1>3. /\ ActorTypes' /\ at'[p] = "decided" /\ op'[p] = op[p]
      /\ \A q \in Actors : q # p => at'[q] = at[q] /\ op'[q] = op[q] /\ mem'[q] = mem[q]
  BY <1>0 DEF ActorTypes, SaveApproval, Goto, Places
<1>4. ActorFits(p)'
  BY <1>0, <1>3 DEF ActorFits, SaveApproval
<1>5. TaskPermitted' /\ (Permitted => Permitted') /\ (approved => approved')
  BY DEF BaseInv, TaskPermitted, Permitted, SaveApproval
<1>6. task'.state # "absent"
  BY <1>0 DEF SaveApproval
<1> QED
  BY <1>2, <1>3, <1>4, <1>5, <1>6, OneActorMoves

LEMMA LoadTaskBase ==
    ASSUME BaseInv, NEW p \in Actors, LoadTask(p)
    PROVE  BaseInv'
<1>0. /\ SharedTypes /\ ActorTypes /\ task.state # "absent"
      /\ op[p] \in Decisions \cup {"complete", "fail"}
      /\ op[p] = "approve" => approved
  BY BaseParts, AtWork DEF BaseInv, ActorFits, LoadTask
<1>1. SharedTypes' /\ UNCHANGED <<task, history>>
  BY <1>0 DEF SharedTypes, LoadTask, limits, history
<1>2. CASE Allowed(op[p], task)
  <2>1. /\ ActorTypes' /\ at'[p] = "loaded" /\ op'[p] = op[p] /\ mem'[p] = task
        /\ \A q \in Actors : q # p => at'[q] = at[q] /\ op'[q] = op[q] /\ mem'[q] = mem[q]
    BY <1>0, <1>2 DEF SharedTypes, ActorTypes, LoadTask, Goto, Places
  <2>2. op[p] \in Savable \ {"requeue", "release"}
    BY <1>0 DEF Savable, Decisions
  <2>3. op[p] \in {"to_queued", "to_running", "to_awaiting", "requeue", "release", "complete"} =>
           task.state \in Released
    BY <1>0, <1>2, <2>2, AllowedFacts DEF SharedTypes, Released, Decisions
  <2>4. ActorFits(p)'
    BY <1>0, <1>1, <2>1, <2>2, <2>3
    DEF BaseInv, ActorFits, TaskPermitted, Permitted, history
  <2> QED
    BY <1>0, <1>1, <2>1, <2>4, QuietBase
<1>3. CASE ~ Allowed(op[p], task) /\ op[p] = "complete" /\ ~ Ended
  <2>1. /\ ActorTypes' /\ at'[p] = "decided" /\ op'[p] = "fail"
        /\ \A q \in Actors : q # p => at'[q] = at[q] /\ op'[q] = op[q] /\ mem'[q] = mem[q]
    BY <1>0, <1>3 DEF ActorTypes, LoadTask, Ops
  <2>2. ActorFits(p)'
    BY <2>1 DEF ActorFits
  <2> QED
    BY <1>0, <1>1, <2>1, <2>2, QuietBase
<1>4. CASE ~ Allowed(op[p], task) /\ ~ (op[p] = "complete" /\ ~ Ended)
  <2>1. /\ ActorTypes' /\ at'[p] = "idle"
        /\ \A q \in Actors : q # p => at'[q] = at[q] /\ op'[q] = op[q] /\ mem'[q] = mem[q]
    BY <1>4, LeaveEffect DEF BaseInv, ActorTypes, LoadTask
  <2>2. ActorFits(p)'
    BY <2>1 DEF ActorFits
  <2> QED
    BY <1>0, <1>1, <2>1, <2>2, QuietBase
<1> QED
  BY <1>2, <1>3, <1>4

LEMMA ClaimBase ==
    ASSUME BaseInv, NEW w \in Workers, Claim(w)
    PROVE  BaseInv'
<1>0. SharedTypes /\ ActorTypes /\ w \in Actors
  BY BaseParts, ActorFacts
<1>1. task' \in Row /\ task'.state = "running"
  BY <1>0 DEF SharedTypes, Claim, Row, States, Ids
<1>2. SharedTypes'
  BY <1>0, <1>1, OpensEffect DEF BaseInv, SharedTypes, Claim, limits, history
<1>3. /\ ActorTypes' /\ at'[w] = "claimed"
      /\ \A q \in Actors : q # w => at'[q] = at[q] /\ op'[q] = op[q] /\ mem'[q] = mem[q]
  BY <1>0 DEF ActorTypes, Claim, Goto, Places
<1>4. ActorFits(w)'
  BY <1>3 DEF ActorFits
<1>5. TaskPermitted' /\ (Permitted => Permitted') /\ (approved => approved')
  BY DEF BaseInv, TaskPermitted, Permitted, Claim, history, Claimable, Released
<1> QED
  BY <1>0, <1>1, <1>2, <1>3, <1>4, <1>5, OneActorMoves

LEMMA BuildRequestBase ==
    ASSUME BaseInv, NEW w \in Workers, BuildRequest(w)
    PROVE  BaseInv'
<1>0. SharedTypes /\ ActorTypes /\ w \in Actors /\ task.state # "absent"
  BY BaseParts, ActorFacts, AtWork DEF BuildRequest
<1>1. slips' \in 0 .. MaxSlips
  BY <1>0, OpensEffect DEF BaseInv, SharedTypes, BuildRequest
<1>2. SharedTypes' /\ UNCHANGED <<task, history>>
  BY <1>0, <1>1 DEF SharedTypes, BuildRequest, limits, history
<1>3. /\ ActorTypes'
      /\ at'[w] = "executing" \/ (at'[w] = "decided" /\ op'[w] = "fail")
      /\ \A q \in Actors : q # w => at'[q] = at[q] /\ op'[q] = op[q] /\ mem'[q] = mem[q]
  BY <1>0 DEF ActorTypes, BuildRequest, Goto, Places, Ops
<1>4. ActorFits(w)'
  BY <1>3 DEF ActorFits
<1> QED
  BY <1>0, <1>2, <1>3, <1>4, QuietBase

LEMMA ReportProgressBase ==
    ASSUME BaseInv, NEW w \in Workers, ReportProgress(w)
    PROVE  BaseInv'
<1>0. SharedTypes /\ ActorTypes /\ w \in Actors /\ task.state # "absent"
  BY BaseParts, ActorFacts, AtWork DEF ReportProgress
<1>1. slips' \in 0 .. MaxSlips
  BY <1>0, OpensEffect DEF BaseInv, SharedTypes, ReportProgress
<1>2. SharedTypes' /\ UNCHANGED <<task, history>>
  BY <1>0, <1>1 DEF SharedTypes, ReportProgress, limits, history
<1>3. /\ ActorTypes'
      /\ at'[w] = "reported" \/ (at'[w] = "loaded" /\ op'[w] = "keep" /\ mem'[w] = task)
      /\ \A q \in Actors : q # w => at'[q] = at[q] /\ op'[q] = op[q] /\ mem'[q] = mem[q]
  BY <1>0 DEF SharedTypes, ActorTypes, ReportProgress, Goto, Places, Ops
<1>4. ActorFits(w)'
  BY <1>0, <1>2, <1>3
  DEF BaseInv, ActorFits, TaskPermitted, Permitted, history, Savable
<1> QED
  BY <1>0, <1>2, <1>3, <1>4, QuietBase

LEMMA AdapterReturnsBase ==
    ASSUME BaseInv, NEW w \in Workers, AdapterStep(w)
    PROVE  BaseInv'
<1>0. SharedTypes /\ ActorTypes /\ w \in Actors /\ task.state # "absent"
  BY BaseParts, ActorFacts, AtWork DEF AdapterStep, AdapterReturns
<1>1. SharedTypes' /\ UNCHANGED <<task, history>>
  BY <1>0 DEF SharedTypes, AdapterStep, AdapterReturns, limits, history
<1>2. /\ ActorTypes' /\ at'[w] = "reported"
      /\ \A q \in Actors : q # w => at'[q] = at[q] /\ op'[q] = op[q] /\ mem'[q] = mem[q]
  BY <1>0 DEF ActorTypes, AdapterStep, AdapterReturns, Goto, Places, Ops
<1>3. ActorFits(w)'
  BY <1>2 DEF ActorFits
<1> QED
  BY <1>0, <1>1, <1>2, <1>3, QuietBase

LEMMA ApplyResultBase ==
    ASSUME BaseInv, NEW w \in Workers, ApplyResult(w)
    PROVE  BaseInv'
<1>0. SharedTypes /\ ActorTypes /\ w \in Actors /\ task.state # "absent"
  BY BaseParts, ActorFacts, AtWork DEF ApplyResult
<1>1. slips' \in 0 .. MaxSlips
  BY <1>0, OpensEffect DEF BaseInv, ApplyResult
<1>2. SharedTypes' /\ UNCHANGED <<task, history>>
  BY <1>0, <1>1 DEF SharedTypes, ApplyResult, limits, history
<1>3. /\ ActorTypes'
      /\ \/ at'[w] = "decided" /\ op'[w] \in {"complete", "fail"}
         \/ at'[w] = "loaded" /\ op'[w] = "requeue" /\ mem'[w] = task /\ task.state = "running"
      /\ \A q \in Actors : q # w => at'[q] = at[q] /\ op'[q] = op[q] /\ mem'[q] = mem[q]
  BY <1>0 DEF SharedTypes, ActorTypes, ApplyResult, Held, Goto, Places, Ops
<1>4. ActorFits(w)'
  BY <1>0, <1>2, <1>3
  DEF BaseInv, ActorFits, TaskPermitted, Permitted, history, Savable, Released
<1> QED
  BY <1>0, <1>2, <1>3, <1>4, QuietBase

LEMMA BeginReleaseBase ==
    ASSUME BaseInv, NEW w \in Workers, BeginRelease(w)
    PROVE  BaseInv'
<1>0. SharedTypes /\ ActorTypes /\ w \in Actors /\ task.state = "running"
  BY BaseParts, ActorFacts DEF BeginRelease, Held
<1>1. slips' \in 0 .. MaxSlips
  BY <1>0, OpensEffect DEF BaseInv, BeginRelease
<1>2. SharedTypes' /\ UNCHANGED <<task, history>>
  BY <1>0, <1>1, BrowserAssumption DEF SharedTypes, BeginRelease, history
<1>3. /\ ActorTypes' /\ at'[w] = "loaded" /\ op'[w] = "release" /\ mem'[w] = task
      /\ \A q \in Actors : q # w => at'[q] = at[q] /\ op'[q] = op[q] /\ mem'[q] = mem[q]
  BY <1>0 DEF SharedTypes, ActorTypes, BeginRelease, Goto, Places, Ops
<1>4. ActorFits(w)'
  BY <1>0, <1>2, <1>3
  DEF BaseInv, ActorFits, TaskPermitted, Permitted, history, Savable, Released
<1> QED
  BY <1>0, <1>2, <1>3, <1>4, QuietBase

LEMMA CrashBase ==
    ASSUME BaseInv, NEW p \in Actors, Crash(p)
    PROVE  BaseInv'
<1>0. SharedTypes /\ ActorTypes /\ task.state # "absent"
  BY BaseParts, AtWork DEF Crash
<1>1. SharedTypes' /\ UNCHANGED <<task, history>>
  BY <1>0, BrowserAssumption DEF SharedTypes, Crash, history
<1>2. /\ ActorTypes' /\ at'[p] = "idle"
      /\ \A q \in Actors : q # p => at'[q] = at[q] /\ op'[q] = op[q] /\ mem'[q] = mem[q]
  BY LeaveEffect DEF BaseInv, ActorTypes, Crash
<1>3. ActorFits(p)'
  BY <1>2 DEF ActorFits
<1> QED
  BY <1>0, <1>1, <1>2, <1>3, QuietBase

\* Time passes, and leases are renewed, without any actor moving.
LEMMA ClockBase ==
    ASSUME BaseInv, SharedTypes', UNCHANGED <<at, op, mem, history>>,
           task'.state = task.state, approval' = approval
    PROVE  BaseInv'
<1>1. ActorTypes'
  BY BaseParts DEF ActorTypes
<1>2. TypeOK' /\ NothingBeforeTask' /\ TaskPermitted'
  BY <1>1 DEF BaseInv, TypeOK, SharedTypes, ActorTypes, NothingBeforeTask, TaskPermitted,
              Permitted, history
<1>3. \A p \in Actors : ActorFits(p)'
  BY DEF BaseInv, ActorFits, Permitted, history
<1> QED
  BY <1>2, <1>3 DEF BaseInv

LEMMA RenewBase ==
    ASSUME BaseInv, NEW w \in Workers, BeginRenew(w) \/ EndRenew(w)
    PROVE  BaseInv'
<1>1. task' \in Row /\ task'.state = task.state
  BY BaseParts DEF SharedTypes, BeginRenew, EndRenew, Row
<1>2. SharedTypes'
  BY <1>1, BaseParts DEF SharedTypes, BeginRenew, EndRenew, limits, history
<1> QED
  BY <1>1, <1>2, ClockBase DEF BeginRenew, EndRenew

LEMMA LeasePassesBase ==
    ASSUME BaseInv, LeasePasses
    PROVE  BaseInv'
<1>1. task' \in Row /\ task'.state = task.state /\ task.state = "running"
  BY BaseParts DEF SharedTypes, LeasePasses, Row
<1>2. SharedTypes'
  BY <1>1, BaseParts, BrowserAssumption DEF SharedTypes, LeasePasses, history
<1> QED
  BY <1>1, <1>2, ClockBase DEF LeasePasses

LEMMA ApprovalLapsesBase ==
    ASSUME BaseInv, ApprovalLapses
    PROVE  BaseInv'
<1>2. SharedTypes'
  BY BaseParts DEF SharedTypes, ApprovalLapses, limits, history
<1> QED
  BY <1>2, ClockBase DEF ApprovalLapses

LEMMA StutterBase ==
    ASSUME BaseInv, UNCHANGED vars
    PROVE  BaseInv'
BY DEF vars, limits, history, BaseInv, TypeOK, NothingBeforeTask, TaskPermitted, ActorFits, Permitted

LEMMA BaseStep ==
    ASSUME BaseInv, [Next]_vars
    PROVE  BaseInv'
<1>0. requests \in Nat /\ Requests \subseteq Actors /\ Workers \subseteq Actors
      /\ requests \in 0 .. MaxRequests
  BY BaseParts, ActorFacts, BrowserAssumption DEF SharedTypes
<1>1. CASE \E needs \in BOOLEAN : CreateTask(needs)
  BY <1>1, CreateBase
<1>2. CASE CreateApproval \/ SaveTask(Creator)
  BY <1>2, CreateApprovalBase, SaveTaskBase, ActorFacts
<1>3. CASE \E r \in Requests :
              \E what \in Manual \cup {"keep", "cancel", "complete", "fail"} : StartRequest(r, what)
  BY <1>3, StartRequestBase
<1>4. CASE \E r \in Requests : \E what \in Decisions : DecideRequest(r, what)
  <2>1. PICK r \in Requests, what \in Decisions : DecideRequest(r, what)
    BY <1>4
  <2>2. LoadApproval(r, what) /\ requests' \in 0 .. MaxRequests
    BY <1>0, <2>1, BrowserAssumption DEF DecideRequest
  <2> QED
    BY <1>0, <2>2, LoadApprovalBase
<1>5. CASE \E p \in Actors : SaveApproval(p) \/ LoadTask(p) \/ SaveTask(p) \/ CancelApproval(p)
  BY <1>5, SaveApprovalBase, LoadTaskBase, SaveTaskBase, CancelApprovalBase
<1>6. CASE SweepApproval
  <2>1. LoadApproval(Sweeper, "expire") /\ requests' \in 0 .. MaxRequests /\ "expire" \in Decisions
    BY <1>0, <1>6 DEF SweepApproval, Decisions
  <2> QED
    BY <2>1, ActorFacts, LoadApprovalBase
<1>7. CASE \E w \in Workers : Claim(w) \/ BuildRequest(w) \/ AdapterStep(w) \/ ApplyResult(w)
  BY <1>7, ClaimBase, BuildRequestBase, AdapterReturnsBase, ApplyResultBase
<1>8. CASE \E w \in Workers :
              ReportProgress(w) \/ BeginRelease(w) \/ BeginRenew(w) \/ EndRenew(w)
  BY <1>8, ReportProgressBase, BeginReleaseBase, RenewBase
<1>9. CASE \E p \in Actors : Crash(p)
  BY <1>9, CrashBase
<1>10. CASE LeasePasses \/ ApprovalLapses
  BY <1>10, LeasePassesBase, ApprovalLapsesBase
<1>11. CASE UNCHANGED vars
  BY <1>11, StutterBase
<1> QED
  BY <1>0, <1>1, <1>2, <1>3, <1>4, <1>5, <1>6, <1>7, <1>8, <1>9, <1>10, <1>11, ActorFacts
  DEF Next, RequestStep, Decide, WorkerStep, Decisions

\* Rows and copies keep their types, nothing happens before the task is created,
\* and no copy about to be saved releases a task that nobody permitted: in all
\* behaviours, overlaps and faults included.
THEOREM TaskInvariance == Spec => []BaseInv
<1>1. Init => BaseInv
  BY InitBase
<1>2. BaseInv /\ [Next]_vars => BaseInv'
  BY BaseStep
<1> QED
  BY <1>1, <1>2, PTL DEF Spec

\* The rows and the actors' copies keep their types, and what is about to be
\* saved is a task that exists with an operation of the service.
THEOREM TaskTypes == Spec => []TypeOK
<1>1. BaseInv => TypeOK
  BY DEF BaseInv
<1> QED
  BY <1>1, TaskInvariance, PTL

\* A task that needs an approval is released by an approval or by retry_task
\* only, whichever stale copies are saved, crashes and lost leases included.
THEOREM ApprovalGates == Spec => []ApprovalGate
<1>1. BaseInv => ApprovalGate
  BY DEF BaseInv, TaskPermitted, Permitted, Released, ApprovalGate
<1> QED
  BY <1>1, TaskInvariance, PTL

-----------------------------------------------------------------------------
(* The run is protected.                                                   *)

OnlyMoves(p) == \A q \in Actors : q # p => at'[q] = at[q] /\ op'[q] = op[q] /\ mem'[q] = mem[q]

\* p does not enter a window that another actor is in.
KeepsOut(p) == InWindow(p)' => InWindow(p) \/ \A q \in Actors : InWindow(q) => q = p

LEMMA WindowMoves ==
    ASSUME OneWindow, NEW p \in Actors, OnlyMoves(p), KeepsOut(p)
    PROVE  OneWindow'
<1>1. \A q \in Actors : q # p => InWindow(q)' = InWindow(q)
  BY DEF OnlyMoves, InWindow
<1> QED
  BY <1>1 DEF OneWindow, KeepsOut

\* Steps that write neither the task nor a history: it is enough to look at
\* the actor that moves.
LEMMA QuietRun ==
    ASSUME BaseInv, RunInv, NEW p \in Actors, p # Creator, OnlyMoves(p),
           UNCHANGED <<task, byHand, succeeded>>,
           Smooth' => Smooth /\ KeepsOut(p),
           approval' = "pending" => approval = "pending",
           at'[p] \in {"deciding", "decided", "loaded"} /\ op'[p] \in Decisions =>
              Undecided /\ (at'[p] # "deciding" => approval' # "pending"),
           p \in Workers => at'[p] = "idle" \/ at[p] # "idle",
           at'[p] # "creating",
           at'[p] = "loaded" =>
              mem'[p] = task /\ task.state # "completed" /\ (op'[p] # "retry" => ~ Ended)
    PROVE  RunInv'
<1> SUFFICES ASSUME Smooth'
             PROVE  OneWindow' /\ CompletedAlone' /\ (byHand' = {} => HandsOff')
  BY DEF RunInv
<1>1. OneWindow /\ CompletedAlone /\ (byHand = {} => HandsOff)
  BY DEF RunInv
<1>2. OneWindow'
  BY <1>1, WindowMoves
<1>3. CompletedAlone'
  BY <1>1 DEF CompletedAlone, OnlyMoves
<1>4. ASSUME byHand' = {}
      PROVE  HandsOff'
  <2>1. WorkerHolds /\ UndecidedWaits /\ CopiesAreFresh
    BY <1>1, <1>4 DEF HandsOff
  <2>2. \A w \in Workers : at'[w] # "idle" => at[w] # "idle"
    BY ActorFacts DEF OnlyMoves
  <2>3. WorkerHolds'
    BY <2>1, <2>2 DEF WorkerHolds, Ended, Held
  <2>4. Undecided' => Undecided
    BY ActorFacts DEF OnlyMoves, Undecided
  <2>5. UndecidedWaits'
    <3>1. Undecided' => task'.state = "awaiting_approval" \/ Ended'
      BY <2>1, <2>4 DEF UndecidedWaits, Ended
    <3>2. at'[Creator] = "creating" => ~ Ended'
      BY <2>1, ActorFacts DEF UndecidedWaits, OnlyMoves, Ended
    <3>3. ASSUME NEW q \in Actors, at'[q] \in {"decided", "loaded"}, op'[q] \in Decisions
          PROVE  approval' # "pending"
      BY <2>1, <3>3 DEF UndecidedWaits, OnlyMoves
    <3> QED
      BY <3>1, <3>2, <3>3 DEF UndecidedWaits
  <2>6. ASSUME NEW q \in Actors, at'[q] = "loaded", op'[q] # "retry"
        PROVE  /\ ~ Ended'
               /\ Undecided' => mem'[q].state = "awaiting_approval"
               /\ \A w \in Workers : at'[w] # "idle" =>
                     mem'[q].state = "running" /\ mem'[q].owner = Identity[w] /\ mem'[q].live
    <3>1. CASE q = p
      <4>1. mem'[q] = task /\ ~ Ended
        BY <2>6, <3>1
      <4> QED
        BY <2>1, <2>2, <2>4, <4>1 DEF UndecidedWaits, WorkerHolds, Held, Ended
    <3>2. CASE q # p
      <4>1. at[q] = "loaded" /\ op[q] # "retry" /\ mem'[q] = mem[q]
        BY <2>6, <3>2 DEF OnlyMoves
      <4> QED
        BY <2>1, <2>2, <2>4, <4>1 DEF CopiesAreFresh, Ended
    <3> QED
      BY <3>1, <3>2
  <2>7. CopiesAreFresh'
    BY <2>6 DEF CopiesAreFresh
  <2> QED
    BY <2>3, <2>5, <2>7 DEF HandsOff
<1> QED
  BY <1>2, <1>3, <1>4

\* A step that opens a window keeps the run smooth only if no other is open.
LEMMA OpensSmoothly ==
    ASSUME BaseInv, NEW p \in Actors, Opens(p), faults' = faults
    PROVE  Smooth' => Smooth /\ KeepsOut(p)
BY OpensEffect DEF BaseInv, Smooth, KeepsOut

LEMMA StartRequestRun ==
    ASSUME BaseInv, RunInv, NEW r \in Requests,
           NEW what \in Manual \cup {"keep", "cancel", "complete", "fail"}, StartRequest(r, what)
    PROVE  RunInv'
<1>0. SharedTypes /\ ActorTypes /\ r \in Actors /\ r # Creator /\ r \notin Workers
  BY BaseParts, ActorFacts, BrowserAssumption
<1>1. at'[r] = "loaded" /\ op'[r] = what /\ mem'[r] = task /\ OnlyMoves(r)
  BY <1>0 DEF ActorTypes, StartRequest, Goto, OnlyMoves
<1>2. what \in Savable \ {"requeue", "release"} /\ what \notin Decisions
  BY DEF Savable, Manual, Decisions
<1>3. task.state # "completed" /\ (what # "retry" => ~ Ended)
  <2>1. Allowed(what, task) /\ task \in Row
    BY <1>0 DEF StartRequest, SharedTypes
  <2> QED
    BY <1>2, <2>1, AllowedFacts DEF Ended, Terminal
<1>4. Smooth' => Smooth /\ KeepsOut(r)
  BY <1>0, OpensSmoothly DEF StartRequest
<1>5. UNCHANGED <<task, approval, byHand, succeeded>>
  BY DEF StartRequest, history
<1> QED
  BY <1>0, <1>1, <1>2, <1>3, <1>4, <1>5, QuietRun

LEMMA CancelApprovalRun ==
    ASSUME BaseInv, RunInv, NEW r \in Requests, CancelApproval(r)
    PROVE  RunInv'
<1>0. r \in Actors /\ r # Creator
  BY ActorFacts
<1>1. at'[r] = "idle" /\ OnlyMoves(r)
  BY <1>0, LeaveEffect DEF BaseInv, CancelApproval, OnlyMoves
<1>2. Smooth' => Smooth /\ KeepsOut(r)
  BY <1>1 DEF CancelApproval, limits, Smooth, KeepsOut, InWindow
<1>3. UNCHANGED <<task, byHand, succeeded>> /\ approval' # "pending"
  BY DEF CancelApproval, history
<1> QED
  BY <1>0, <1>1, <1>2, <1>3, QuietRun

LEMMA LoadApprovalRun ==
    ASSUME BaseInv, RunInv, NEW p \in Requests \cup {Sweeper}, NEW what \in Decisions,
           LoadApproval(p, what)
    PROVE  RunInv'
<1>0. ActorTypes /\ p \in Actors /\ p # Creator /\ p \notin Workers
  BY BaseParts, ActorFacts, BrowserAssumption
<1>1. at'[p] = "deciding" /\ OnlyMoves(p)
  BY <1>0 DEF ActorTypes, LoadApproval, Goto, OnlyMoves
<1>2. Smooth' => Smooth /\ KeepsOut(p)
  BY <1>0, OpensSmoothly DEF LoadApproval
<1>3. UNCHANGED <<task, approval, byHand, succeeded>> /\ Undecided
  BY DEF LoadApproval, history, Undecided
<1> QED
  BY <1>0, <1>1, <1>2, <1>3, QuietRun

LEMMA SaveApprovalRun ==
    ASSUME BaseInv, RunInv, NEW p \in Requests \cup {Sweeper}, SaveApproval(p)
    PROVE  RunInv'
<1>0. ActorTypes /\ p \in Actors /\ p # Creator /\ p \notin Workers
  BY BaseParts, ActorFacts, BrowserAssumption
<1>1. at[p] = "deciding" /\ op[p] \in Decisions /\ Undecided
  BY <1>0 DEF BaseInv, ActorFits, SaveApproval, Undecided
<1>2. at'[p] = "decided" /\ op'[p] = op[p] /\ OnlyMoves(p)
  BY <1>0 DEF ActorTypes, SaveApproval, Goto, OnlyMoves
<1>3. approval' # "pending"
  BY <1>1 DEF SaveApproval, Decisions
<1>4. Smooth' => Smooth /\ KeepsOut(p)
  BY <1>1 DEF SaveApproval, limits, Smooth, KeepsOut, InWindow
<1>5. UNCHANGED <<task, byHand, succeeded>>
  BY DEF SaveApproval
<1> QED
  BY <1>0, <1>1, <1>2, <1>3, <1>4, <1>5, QuietRun

LEMMA LoadTaskRun ==
    ASSUME BaseInv, RunInv, NEW p \in Actors, p # Creator, LoadTask(p)
    PROVE  RunInv'
<1>0. SharedTypes /\ ActorTypes
  BY BaseParts
<1>1. at[p] = "decided" /\ op[p] \in Decisions \cup {"complete", "fail"}
  BY DEF BaseInv, ActorFits, LoadTask
<1>2. UNCHANGED <<task, approval, byHand, succeeded, slips, faults>>
  BY DEF LoadTask, limits, history
<1>3. Smooth' => Smooth /\ KeepsOut(p)
  BY <1>1, <1>2 DEF Smooth, KeepsOut, InWindow
<1>4. CASE ~ Smooth'
  BY <1>4 DEF RunInv
<1>5. CASE Smooth' /\ Allowed(op[p], task)
  <2>1. at'[p] = "loaded" /\ op'[p] = op[p] /\ mem'[p] = task /\ OnlyMoves(p)
    BY <1>0, <1>5 DEF ActorTypes, LoadTask, Goto, OnlyMoves
  <2>2. ~ Ended
    BY <1>0, <1>1, <1>5, AllowedFacts DEF SharedTypes, Ended, Savable, Decisions
  <2>3. op[p] \in Decisions => Undecided
    BY <1>1 DEF Undecided
  <2>4. CASE op[p] \in Decisions => approval # "pending"
    BY <1>1, <1>2, <1>3, <2>1, <2>2, <2>3, <2>4, QuietRun DEF Ended, Terminal
  <2>5. CASE byHand = {}
    BY <1>1, <1>3, <1>5, <2>4, <2>5 DEF RunInv, HandsOff, UndecidedWaits
  <2>6. CASE byHand # {}
    <3>1. OneWindow /\ CompletedAlone
      BY <1>3, <1>5 DEF RunInv
    <3>2. OneWindow'
      BY <1>3, <1>5, <2>1, <3>1, WindowMoves
    <3>3. CompletedAlone'
      BY <1>2, <2>1, <2>2, <3>1 DEF CompletedAlone, OnlyMoves, Ended, Terminal
    <3> QED
      BY <1>2, <2>6, <3>2, <3>3 DEF RunInv
  <2> QED
    BY <2>5, <2>6
<1>6. CASE ~ Allowed(op[p], task) /\ op[p] = "complete" /\ ~ Ended
  <2>1. at'[p] = "decided" /\ op'[p] = "fail" /\ OnlyMoves(p)
    BY <1>0, <1>1, <1>6 DEF ActorTypes, LoadTask, OnlyMoves
  <2> QED
    BY <1>1, <1>2, <1>3, <2>1, QuietRun DEF Decisions
<1>7. CASE ~ Allowed(op[p], task) /\ ~ (op[p] = "complete" /\ ~ Ended)
  <2>1. at'[p] = "idle" /\ OnlyMoves(p)
    BY <1>7, LeaveEffect DEF BaseInv, LoadTask, OnlyMoves
  <2> QED
    BY <1>2, <1>3, <2>1, QuietRun
<1> QED
  BY <1>4, <1>5, <1>6, <1>7

LEMMA BuildRequestRun ==
    ASSUME BaseInv, RunInv, NEW w \in Workers, BuildRequest(w)
    PROVE  RunInv'
<1>0. ActorTypes /\ w \in Actors /\ w # Creator
  BY BaseParts, ActorFacts
<1>1. /\ at[w] = "claimed" /\ OnlyMoves(w)
      /\ at'[w] = "executing" \/ (at'[w] = "decided" /\ op'[w] = "fail")
  BY <1>0 DEF ActorTypes, BuildRequest, Goto, OnlyMoves
<1>2. UNCHANGED <<task, approval, byHand, succeeded, faults>>
  BY DEF BuildRequest, limits, history
<1>3. Smooth' => Smooth /\ KeepsOut(w)
  <2>1. CASE Held(w)
    BY <1>0, <2>1 DEF ActorTypes, BuildRequest, Goto, limits, Smooth, KeepsOut, InWindow
  <2>2. CASE ~ Held(w)
    BY <1>0, <1>2, <2>2, OpensSmoothly DEF BuildRequest
  <2> QED
    BY <2>1, <2>2
<1> QED
  BY <1>0, <1>1, <1>2, <1>3, QuietRun DEF Decisions

LEMMA ReportProgressRun ==
    ASSUME BaseInv, RunInv, NEW w \in Workers, ReportProgress(w)
    PROVE  RunInv'
<1>0. ActorTypes /\ w \in Actors /\ w # Creator
  BY BaseParts, ActorFacts
<1>1. UNCHANGED <<task, approval, byHand, succeeded, faults>> /\ at[w] = "executing"
  BY DEF ReportProgress, limits, history
<1>2. CASE Held(w)
  <2>1. OnlyMoves(w) /\ at'[w] = "loaded" /\ op'[w] = "keep" /\ mem'[w] = task
    BY <1>0, <1>2 DEF ActorTypes, ReportProgress, Goto, OnlyMoves
  <2>2. Smooth' => Smooth /\ KeepsOut(w)
    BY <1>0, <1>1, <1>2, OpensSmoothly DEF ReportProgress
  <2>3. task.state # "completed" /\ ~ Ended
    BY <1>2 DEF Held, Ended, Terminal
  <2> QED
    BY <1>0, <1>1, <2>1, <2>2, <2>3, QuietRun DEF Decisions
<1>3. CASE ~ Held(w)
  <2>1. OnlyMoves(w) /\ at'[w] = "reported" /\ slips' = slips
    BY <1>0, <1>3 DEF ActorTypes, ReportProgress, Goto, OnlyMoves
  <2>2. Smooth' => Smooth /\ KeepsOut(w)
    BY <1>1, <2>1 DEF Smooth, KeepsOut, InWindow
  <2> QED
    BY <1>0, <1>1, <2>1, <2>2, QuietRun
<1> QED
  BY <1>2, <1>3

LEMMA AdapterReturnsRun ==
    ASSUME BaseInv, RunInv, NEW w \in Workers, AdapterStep(w)
    PROVE  RunInv'
<1>0. ActorTypes /\ w \in Actors /\ w # Creator
  BY BaseParts, ActorFacts
<1>1. UNCHANGED <<task, approval, byHand, succeeded, faults, slips>> /\ at[w] = "executing"
  BY DEF AdapterStep, AdapterReturns, limits, history
<1>2. OnlyMoves(w) /\ at'[w] = "reported"
  BY <1>0 DEF ActorTypes, AdapterStep, AdapterReturns, Goto, OnlyMoves
<1>3. Smooth' => Smooth /\ KeepsOut(w)
  BY <1>1, <1>2 DEF Smooth, KeepsOut, InWindow
<1> QED
  BY <1>0, <1>1, <1>2, <1>3, QuietRun

LEMMA ApplyResultRun ==
    ASSUME BaseInv, RunInv, NEW w \in Workers, ApplyResult(w)
    PROVE  RunInv'
<1>0. ActorTypes /\ w \in Actors /\ w # Creator
  BY BaseParts, ActorFacts
<1>1. UNCHANGED <<task, approval, byHand, succeeded, faults>> /\ at[w] = "reported"
  BY DEF ApplyResult, limits, history
<1>2. /\ OnlyMoves(w)
      /\ \/ at'[w] = "decided" /\ op'[w] \in {"complete", "fail"}
         \/ at'[w] = "loaded" /\ op'[w] = "requeue" /\ mem'[w] = task /\ task.state = "running"
  BY <1>0 DEF ActorTypes, ApplyResult, Held, Goto, OnlyMoves
<1>3. Smooth' => Smooth /\ KeepsOut(w)
  BY <1>0, <1>1, OpensSmoothly DEF ApplyResult
<1> QED
  BY <1>0, <1>1, <1>2, <1>3, QuietRun DEF Decisions, Ended, Terminal

LEMMA CreateRun ==
    ASSUME BaseInv, RunInv, NEW needs \in BOOLEAN, CreateTask(needs)
    PROVE  RunInv'
<1>0. ActorTypes /\ approval = "none" /\ \A p \in Actors : at[p] = "idle"
  BY BaseParts DEF BaseInv, NothingBeforeTask, CreateTask
<1>1. /\ \A p \in Actors : p # Creator => at'[p] = "idle"
      /\ at'[Creator] = IF needs THEN "creating" ELSE "idle"
  BY <1>0, ActorFacts DEF ActorTypes, CreateTask, Goto
<1>2. task'.state = (IF needs THEN "awaiting_approval" ELSE "queued") /\ approval' = "none"
  BY <1>0 DEF CreateTask, Blank
<1>3. OneWindow'
  BY <1>1 DEF OneWindow, InWindow
<1>4. Smooth' => CompletedAlone'
  BY DEF RunInv, Smooth, CompletedAlone, CreateTask, limits
<1>5. WorkerHolds' /\ CopiesAreFresh'
  <2>1. \A p \in Actors : at'[p] # "loaded"
    BY <1>1
  <2>2. \A w \in Workers : at'[w] = "idle"
    BY <1>1, ActorFacts
  <2> QED
    BY <2>1, <2>2 DEF WorkerHolds, CopiesAreFresh
<1>6. UndecidedWaits'
  <2>1. Undecided' => needs
    BY <1>1, <1>2 DEF Undecided
  <2>2. ~ Ended'
    BY <1>2 DEF Ended, Terminal
  <2> QED
    BY <1>1, <1>2, <2>1, <2>2 DEF UndecidedWaits
<1> QED
  BY <1>3, <1>4, <1>5, <1>6 DEF RunInv, HandsOff

LEMMA CreateApprovalRun ==
    ASSUME BaseInv, RunInv, CreateApproval
    PROVE  RunInv'
<1> SUFFICES ASSUME Smooth' PROVE OneWindow' /\ CompletedAlone' /\ (byHand' = {} => HandsOff')
  BY DEF RunInv
<1>0. /\ ActorTypes /\ at[Creator] = "creating" /\ mem[Creator].state = "awaiting_approval"
      /\ Creator \in Actors
  BY BaseParts, ActorFacts DEF BaseInv, ActorFits, CreateApproval
<1>1. UNCHANGED <<task, mem, byHand, succeeded>> /\ Smooth /\ approval' = "pending"
  BY DEF CreateApproval, limits, history, Smooth
<1>2. at'[Creator] = "loaded" /\ op'[Creator] = "keep" /\ OnlyMoves(Creator)
  BY <1>0, <1>1 DEF ActorTypes, CreateApproval, Goto, OnlyMoves
<1>3. OneWindow /\ CompletedAlone /\ (byHand = {} => HandsOff)
  BY <1>1 DEF RunInv
<1>4. OneWindow'
  BY <1>0, <1>2, <1>3, WindowMoves DEF KeepsOut, InWindow
<1>5. CompletedAlone'
  BY <1>0, <1>1, <1>3 DEF CompletedAlone
<1>6. ASSUME byHand' = {}
      PROVE  HandsOff'
  <2>1. WorkerHolds /\ UndecidedWaits /\ CopiesAreFresh
    BY <1>1, <1>3, <1>6 DEF HandsOff
  <2>2. task.state = "awaiting_approval" /\ ~ Ended
    BY <1>0, <2>1 DEF UndecidedWaits, Undecided
  <2>3. \A w \in Workers : at[w] = "idle" /\ at'[w] = "idle"
    BY <1>2, <2>1, <2>2, ActorFacts DEF WorkerHolds, Held, OnlyMoves
  <2>4. \A q \in Actors : q # Creator => at'[q] \notin {"decided", "loaded"}
    BY <1>0, <1>2, <1>3 DEF OneWindow, InWindow, OnlyMoves
  <2>5. WorkerHolds'
    BY <2>3 DEF WorkerHolds
  <2>6. UndecidedWaits'
    BY <1>1, <1>2, <2>2, <2>4 DEF UndecidedWaits, Ended, Decisions
  <2>7. CopiesAreFresh'
    BY <1>0, <1>1, <2>2, <2>3, <2>4 DEF CopiesAreFresh, Ended
  <2> QED
    BY <2>5, <2>6, <2>7 DEF HandsOff
<1> QED
  BY <1>4, <1>5, <1>6

LEMMA SaveTaskRun ==
    ASSUME BaseInv, RunInv, NEW p \in Actors, SaveTask(p)
    PROVE  RunInv'
<1> SUFFICES ASSUME Smooth' PROVE OneWindow' /\ CompletedAlone' /\ (byHand' = {} => HandsOff')
  BY DEF RunInv
<1>0. SharedTypes /\ ActorTypes
  BY BaseParts
<1>1. /\ at[p] = "loaded" /\ mem[p] \in Row /\ op[p] \in Savable
      /\ op[p] \in {"requeue", "release"} => p \in Workers /\ mem[p].state \in Released
      /\ task \in Row
  BY <1>0 DEF BaseInv, SharedTypes, ActorTypes, ActorFits, SaveTask
<1>2. task' = Updated(mem[p], op[p]) /\ UNCHANGED approval /\ Smooth
  BY DEF SaveTask, limits, Smooth
<1>3. OneWindow /\ CompletedAlone /\ (byHand = {} => HandsOff)
  BY <1>2 DEF RunInv
<1>4. at'[p] \in {"idle", "unpend", "executing"} /\ (op[p] \in {"requeue", "release"} => at'[p] = "idle")
      /\ OnlyMoves(p)
  <2>1. CASE Leave(p)
    BY <2>1, LeaveEffect DEF BaseInv, OnlyMoves
  <2>2. CASE ~ Leave(p)
    BY <1>0, <2>2 DEF ActorTypes, SaveTask, Goto, OnlyMoves
  <2> QED
    BY <2>1, <2>2
<1>5. \A q \in Actors : q # p => ~ InWindow(q) /\ ~ InWindow(q)'
  BY <1>1, <1>3, <1>4 DEF OneWindow, InWindow, OnlyMoves
<1>6. OneWindow'
  BY <1>5 DEF OneWindow
<1>7. \A q \in Actors : at'[q] \notin {"creating", "deciding", "decided", "loaded"}
  BY <1>4, <1>5 DEF InWindow
<1>8. CompletedAlone'
  <2>1. succeeded' => op[p] = "complete"
    BY <1>1, <1>3 DEF CompletedAlone, SaveTask
  <2>2. op[p] = "complete" => task'.state = "completed"
    BY <1>1, <1>2, UpdatedFacts
  <2> QED
    BY <1>7, <2>1, <2>2 DEF CompletedAlone
<1>9. ASSUME byHand' = {}
      PROVE  HandsOff'
  <2>0. byHand = {} /\ op[p] \notin Manual
    BY <1>9 DEF SaveTask
  <2>1. WorkerHolds /\ UndecidedWaits /\ CopiesAreFresh /\ op[p] # "retry"
    BY <1>3, <2>0 DEF HandsOff, Manual
  <2>2. /\ ~ Ended
        /\ Undecided => mem[p].state = "awaiting_approval"
        /\ \A w \in Workers : at[w] # "idle" =>
              mem[p].state = "running" /\ mem[p].owner = Identity[w] /\ mem[p].live
    BY <1>1, <2>1 DEF CopiesAreFresh
  <2>3. op[p] \in Decisions \cup {"keep", "cancel", "requeue", "release", "complete", "fail"}
    BY <1>1, <2>0 DEF Savable
  <2>4. op[p] \in {"deny", "expire", "cancel", "complete", "fail"} => Ended'
    BY <1>1, <1>2, UpdatedFacts DEF Ended, Terminal
  <2>5. op[p] \in Decisions => Undecided /\ approval # "pending"
    BY <1>1, <2>1 DEF Undecided, UndecidedWaits
  <2>6. op[p] = "keep" => task' = mem[p]
    BY <1>1, <1>2, UpdatedFacts
  <2>7. \A w \in Workers : at'[w] # "idle" => at[w] # "idle"
    BY <1>1, <1>4, ActorFacts DEF OnlyMoves
  <2>8. WorkerHolds'
    <3>1. ASSUME NEW w \in Workers, at'[w] # "idle"
          PROVE  Ended' \/ (Held(w)' /\ task'.live)
      <4>1. mem[p].state = "running" /\ mem[p].owner = Identity[w] /\ mem[p].live
        BY <2>2, <2>7, <3>1
      <4>2. CASE op[p] = "keep"
        BY <2>6, <4>1, <4>2 DEF Held
      <4>3. CASE op[p] \in {"requeue", "release"}
        BY <1>1, <1>4, <2>1, <2>7, <3>1, <4>3 DEF WorkerHolds
      <4>4. CASE op[p] = "approve"
        BY <2>2, <2>5, <4>1, <4>4 DEF Decisions
      <4> QED
        BY <2>3, <2>4, <4>2, <4>3, <4>4 DEF Decisions
    <3> QED
      BY <2>1, <2>7, <3>1 DEF WorkerHolds
  <2>9. UndecidedWaits'
    <3>1. Undecided' => approval = "pending"
      BY <1>2, <1>7, ActorFacts DEF Undecided
    <3>2. Undecided' => task'.state = "awaiting_approval" \/ Ended'
      <4>1. SUFFICES ASSUME Undecided' PROVE task'.state = "awaiting_approval" \/ Ended'
        OBVIOUS
      <4>2. op[p] \notin Decisions /\ mem[p].state = "awaiting_approval"
        BY <2>2, <2>5, <3>1, <4>1 DEF Undecided
      <4>3. op[p] \notin {"requeue", "release"}
        BY <1>1, <4>2 DEF Released
      <4> QED
        BY <2>3, <2>4, <2>6, <4>2, <4>3
    <3> QED
      BY <1>7, <3>2, ActorFacts DEF UndecidedWaits
  <2>10. CopiesAreFresh'
    BY <1>7 DEF CopiesAreFresh
  <2> QED
    BY <2>8, <2>9, <2>10 DEF HandsOff
<1> QED
  BY <1>6, <1>8, <1>9

LEMMA ClaimRun ==
    ASSUME BaseInv, RunInv, NEW w \in Workers, Claim(w)
    PROVE  RunInv'
<1> SUFFICES ASSUME Smooth' PROVE OneWindow' /\ CompletedAlone' /\ (byHand' = {} => HandsOff')
  BY DEF RunInv
<1>0. SharedTypes /\ ActorTypes /\ w \in Actors /\ w # Creator
  BY BaseParts, ActorFacts
<1>1. at[w] = "idle" /\ at'[w] = "claimed" /\ OnlyMoves(w)
  BY <1>0 DEF ActorTypes, Claim, Goto, OnlyMoves
<1>2. UNCHANGED <<approval, byHand, succeeded, faults>>
  BY DEF Claim, limits, history
<1>3. Smooth /\ \A q \in Actors : InWindow(q) => q = w
  BY <1>0, <1>2, OpensEffect DEF BaseInv, Claim, Smooth
<1>4. OneWindow /\ CompletedAlone /\ (byHand = {} => HandsOff)
  BY <1>3 DEF RunInv
<1>5. /\ task.state = "queued" \/ (task.state = "running" /\ ~ task.live)
      /\ task'.state = "running" /\ task'.owner = Identity[w] /\ task'.live
  BY DEF Claim, Claimable
<1>6. \A q \in Actors : at'[q] \notin {"creating", "deciding", "decided", "loaded"}
  BY <1>1, <1>3 DEF InWindow, OnlyMoves
<1>7. OneWindow'
  BY <1>0, <1>1, <1>4, WindowMoves DEF KeepsOut, InWindow
<1>8. CompletedAlone'
  BY <1>2, <1>4, <1>5 DEF CompletedAlone
<1>9. ASSUME byHand' = {}
      PROVE  HandsOff'
  <2>1. WorkerHolds /\ UndecidedWaits
    BY <1>2, <1>4, <1>9 DEF HandsOff
  <2>2. \A v \in Workers : at[v] = "idle"
    BY <1>5, <2>1 DEF WorkerHolds, Held, Ended, Terminal
  <2>3. WorkerHolds'
    BY <1>0, <1>1, <1>5, <2>2, ActorFacts DEF WorkerHolds, Held, OnlyMoves
  <2>4. ~ Undecided'
    <3>1. ~ Undecided
      BY <1>5, <2>1 DEF UndecidedWaits, Ended, Terminal
    <3> QED
      BY <1>2, <1>6, <3>1, ActorFacts DEF Undecided
  <2>5. UndecidedWaits' /\ CopiesAreFresh'
    BY <1>6, <2>4, ActorFacts DEF UndecidedWaits, CopiesAreFresh
  <2> QED
    BY <2>3, <2>5 DEF HandsOff
<1> QED
  BY <1>7, <1>8, <1>9

\* Steps on the lease of a running task, after which no worker is at work.
LEMMA LeaseRun ==
    ASSUME BaseInv, RunInv, NEW p \in Actors, OnlyMoves(p),
           UNCHANGED <<approval, byHand, succeeded>>, Smooth' => Smooth,
           at'[p] = "idle" \/ UNCHANGED <<at, op, mem>>,
           task.state = "running", task'.state \in {"queued", "running"},
           Smooth' /\ byHand = {} => \A w \in Workers : at'[w] = "idle"
    PROVE  RunInv'
<1> SUFFICES ASSUME Smooth' PROVE OneWindow' /\ CompletedAlone' /\ (byHand' = {} => HandsOff')
  BY DEF RunInv
<1>1. OneWindow /\ CompletedAlone /\ (byHand = {} => HandsOff)
  BY DEF RunInv
<1>2. OneWindow'
  BY <1>1, WindowMoves DEF KeepsOut, InWindow
<1>3. CompletedAlone'
  BY <1>1 DEF CompletedAlone
<1>4. ASSUME byHand' = {}
      PROVE  HandsOff'
  <2>1. UndecidedWaits /\ CopiesAreFresh /\ \A w \in Workers : at'[w] = "idle"
    BY <1>1, <1>4 DEF HandsOff
  <2>2. ~ Undecided /\ ~ Ended'
    BY <2>1 DEF UndecidedWaits, Ended, Terminal
  <2>3. ~ Undecided'
    BY <2>2, ActorFacts DEF Undecided, OnlyMoves
  <2>4. at'[Creator] # "creating"
    BY <2>3 DEF Undecided
  <2>5. \A q \in Actors : at'[q] \in {"deciding", "decided", "loaded"} => op'[q] \notin Decisions
    BY <2>3 DEF Undecided
  <2>6. UndecidedWaits'
    BY <2>3, <2>4, <2>5 DEF UndecidedWaits
  <2>7. WorkerHolds' /\ CopiesAreFresh'
    BY <2>1, <2>2, <2>3 DEF WorkerHolds, CopiesAreFresh
  <2> QED
    BY <2>6, <2>7 DEF HandsOff
<1> QED
  BY <1>2, <1>3, <1>4

LEMMA BeginReleaseRun ==
    ASSUME BaseInv, RunInv, NEW w \in Workers, BeginRelease(w)
    PROVE  RunInv'
<1>0. ActorTypes /\ w \in Actors /\ w # Creator
  BY BaseParts, ActorFacts
<1>1. UNCHANGED <<task, approval, byHand, succeeded, faults>> /\ at[w] = "executing"
      /\ task.state = "running"
  BY DEF BeginRelease, Held, history
<1>2. OnlyMoves(w) /\ at'[w] = "loaded" /\ op'[w] = "release" /\ mem'[w] = task
  BY <1>0 DEF ActorTypes, BeginRelease, Goto, OnlyMoves
<1>3. Smooth' => Smooth /\ KeepsOut(w)
  BY <1>0, <1>1, OpensSmoothly DEF BeginRelease
<1> QED
  BY <1>0, <1>1, <1>2, <1>3, QuietRun DEF Decisions, Ended, Terminal

LEMMA LeasePassesRun ==
    ASSUME BaseInv, RunInv, LeasePasses
    PROVE  RunInv'
<1>1. UNCHANGED <<approval, byHand, succeeded, slips, at, op, mem>>
  BY DEF LeasePasses, history
<1>2. faults \in Nat
  BY BaseParts, BrowserAssumption DEF SharedTypes
<1>3. Smooth' => Smooth /\ ~ Attended
  BY <1>1, <1>2 DEF LeasePasses, Smooth
<1>4. task.state = "running" /\ task'.state = "running"
  BY BaseParts DEF LeasePasses, SharedTypes, Row
<1>5. ASSUME Smooth', byHand = {}, NEW v \in Workers
      PROVE  at'[v] = "idle"
  <2>1. WorkerHolds
    BY <1>3, <1>5 DEF RunInv, HandsOff
  <2> QED
    BY <1>1, <1>3, <1>4, <1>5, <2>1 DEF WorkerHolds, Attended, Held, Ended, Terminal
<1> QED
  BY <1>1, <1>3, <1>4, <1>5, ActorFacts, LeaseRun DEF OnlyMoves

\* Nothing but the lease of the row changes, and that for the better.
LEMMA StillRun ==
    ASSUME BaseInv, RunInv,
           task'.state = task.state, task'.owner = task.owner, task.live => task'.live,
           UNCHANGED <<approval, byHand, succeeded, slips, faults, at, op, mem>>
    PROVE  RunInv'
BY ActorFacts DEF RunInv, Smooth, OneWindow, InWindow, CompletedAlone, HandsOff, WorkerHolds, Held,
   Ended, UndecidedWaits, Undecided, CopiesAreFresh

LEMMA RenewRun ==
    ASSUME BaseInv, RunInv, NEW w \in Workers, BeginRenew(w) \/ EndRenew(w)
    PROVE  RunInv'
<1>1. UNCHANGED <<approval, byHand, succeeded, slips, faults, at, op, mem>>
  BY DEF BeginRenew, EndRenew, history, limits
<1>2. task'.state = task.state /\ task'.owner = task.owner /\ (task.live => task'.live)
  BY BaseParts DEF BeginRenew, EndRenew, SharedTypes, Row
<1> QED
  BY <1>1, <1>2, StillRun

LEMMA RunStep ==
    ASSUME BaseInv, RunInv, [Next]_vars
    PROVE  RunInv'
<1>0. /\ Requests \subseteq Actors /\ Workers \subseteq Actors /\ Sweeper \in Actors
      /\ Creator \in Actors /\ Creator \notin Requests /\ Creator \notin Workers /\ Creator # Sweeper
  BY ActorFacts
<1>1. CASE \E needs \in BOOLEAN : CreateTask(needs)
  BY <1>1, CreateRun
<1>2. CASE CreateApproval \/ \E p \in Actors : SaveTask(p)
  BY <1>2, CreateApprovalRun, SaveTaskRun
<1>3. CASE \E r \in Requests :
              \E what \in Manual \cup {"keep", "cancel", "complete", "fail"} : StartRequest(r, what)
  BY <1>3, StartRequestRun
<1>4. CASE (\E r \in Requests : \E what \in Decisions : DecideRequest(r, what)) \/ SweepApproval
  <2>1. CASE SweepApproval
    BY <2>1, LoadApprovalRun DEF SweepApproval, Decisions
  <2>2. CASE \E r \in Requests : \E what \in Decisions : DecideRequest(r, what)
    BY <2>2, LoadApprovalRun DEF DecideRequest
  <2> QED
    BY <1>4, <2>1, <2>2
<1>5. CASE \E p \in Requests \cup {Sweeper} : SaveApproval(p)
  BY <1>5, SaveApprovalRun
<1>6. CASE \E p \in Actors : p # Creator /\ LoadTask(p)
  BY <1>6, LoadTaskRun
<1>7. CASE \E r \in Requests : CancelApproval(r)
  BY <1>7, CancelApprovalRun
<1>8. CASE \E w \in Workers : Claim(w) \/ BuildRequest(w) \/ AdapterStep(w) \/ ApplyResult(w)
  BY <1>8, ClaimRun, BuildRequestRun, AdapterReturnsRun, ApplyResultRun
<1>9. CASE \E w \in Workers :
              ReportProgress(w) \/ BeginRelease(w) \/ BeginRenew(w) \/ EndRenew(w)
  BY <1>9, ReportProgressRun, BeginReleaseRun, RenewRun
<1>10. CASE \E p \in Actors : Crash(p)
  <2>1. faults \in Nat
    BY BaseParts, BrowserAssumption DEF SharedTypes
  <2> QED
    BY <1>10, <2>1 DEF Crash, RunInv, Smooth
<1>11. CASE LeasePasses
  BY <1>11, LeasePassesRun
<1>12. CASE ApprovalLapses
  BY <1>12, StillRun DEF ApprovalLapses, limits, history
<1>13. CASE UNCHANGED vars
  BY <1>13, StillRun DEF vars
<1> QED
  BY <1>0, <1>1, <1>2, <1>3, <1>4, <1>5, <1>6, <1>7, <1>8, <1>9, <1>10, <1>11, <1>12, <1>13
  DEF Next, RequestStep, Decide, WorkerStep, Decisions

\* While copies do not overlap, leases last and nothing fails, a completed task
\* stays completed and, unless somebody sets the state by hand, a worker that
\* drives a browser is the only one and holds the task, for any number of
\* workers, whether or not they share their identity.
THEOREM RunsProtected == Spec => []RunIsProtected
<1>1. Init => RunInv
  <2> SUFFICES ASSUME Init PROVE RunInv
    OBVIOUS
  <2>1. \A p \in Actors : at[p] = "idle"
    BY DEF Init
  <2>2. OneWindow /\ CompletedAlone /\ WorkerHolds /\ CopiesAreFresh
    BY <2>1, ActorFacts DEF Init, OneWindow, InWindow, CompletedAlone, WorkerHolds, CopiesAreFresh
  <2>3. UndecidedWaits
    BY <2>1, ActorFacts DEF Init, UndecidedWaits, Undecided
  <2> QED
    BY <2>2, <2>3 DEF RunInv, HandsOff
<1>2. BaseInv /\ RunInv /\ [Next]_vars => RunInv'
  BY RunStep
<1>3. BaseInv /\ RunInv => RunIsProtected
  BY DEF RunInv, CompletedAlone, HandsOff, WorkerHolds, RunIsProtected
<1> QED
  BY <1>1, <1>2, <1>3, TaskInvariance, PTL DEF Spec

-----------------------------------------------------------------------------
(* The row is a table of leased work, of one item.                         *)

\* A running task is in the hands of some worker, and a copy about to be saved
\* as it is does not bring back a run that is over.
RunningAttended == task.state = "running" => \E w \in Workers : at[w] # "idle"
KeepFits(p) ==
    at[p] = "loaded" /\ op[p] = "keep" =>
        mem[p].state \notin Terminal /\ (mem[p].state = "running" => task.state = "running")
CalmInv == Calm => RunningAttended /\ \A p \in Actors : KeepFits(p)

LEMMA CalmParts ==
    ASSUME RunInv, Calm
    PROVE  Smooth /\ byHand = {} /\ OneWindow /\ WorkerHolds /\ UndecidedWaits /\ CopiesAreFresh
BY DEF RunInv, Calm, HandsOff

LEMMA CalmBefore ==
    ASSUME BaseInv, [Next]_vars, Calm'
    PROVE  Calm
<1>1. faults \in Nat /\ slips \in Nat
  BY BaseParts, BrowserAssumption DEF SharedTypes
<1>2. faults' \in {faults, faults + 1} /\ slips' \in {slips, slips + 1} /\ byHand \subseteq byHand'
  BY <1>1
  DEF Next, vars, limits, history, RequestStep, Decide, WorkerStep, AdapterStep, CreateTask,
      CreateApproval, SaveTask, StartRequest, DecideRequest, LoadApproval, SweepApproval,
      SaveApproval, LoadTask, CancelApproval, Claim, BuildRequest, AdapterReturns, ApplyResult,
      ReportProgress, BeginRelease, BeginRenew, EndRenew, Crash, LeasePasses, ApprovalLapses, Opens
<1> QED
  BY <1>1, <1>2 DEF Calm, Smooth

\* The steps that leave the task: it is enough to look at the actor that moves.
LEMMA QuietCalm ==
    ASSUME CalmInv, Calm, NEW p \in Actors, OnlyMoves(p), task' = task,
           task.state = "running" /\ at'[p] = "idle" => at[p] = "idle" \/ p \notin Workers,
           at'[p] = "loaded" /\ op'[p] = "keep" =>
              mem'[p].state \notin Terminal /\ (mem'[p].state = "running" => task.state = "running")
    PROVE  CalmInv'
<1>1. RunningAttended'
  BY ActorFacts DEF CalmInv, RunningAttended, OnlyMoves
<1>2. ASSUME NEW q \in Actors PROVE KeepFits(q)'
  BY <1>2 DEF CalmInv, KeepFits, OnlyMoves
<1> QED
  BY <1>1, <1>2 DEF CalmInv

\* The steps of requests, and of whoever decides.
LEMMA RequestCalm ==
    ASSUME BaseInv, RunInv, CalmInv, Calm, NEW p \in Actors,
           \/ p \notin Workers /\ (\E what \in Savable : StartRequest(p, what))
           \/ \E what \in Decisions : LoadApproval(p, what)
           \/ SaveApproval(p)
           \/ LoadTask(p)
           \/ p \notin Workers /\ CancelApproval(p)
    PROVE  CalmInv'
<1>0. ActorTypes /\ task \in Row /\ task' = task
  BY BaseParts
  DEF SharedTypes, StartRequest, LoadApproval, SaveApproval, LoadTask, CancelApproval
<1>1. CASE p \notin Workers /\ \E what \in Savable : StartRequest(p, what)
  <2>1. PICK what \in Savable : StartRequest(p, what)
    BY <1>1
  <2>2. OnlyMoves(p) /\ at'[p] = "loaded" /\ mem'[p] = task /\ op'[p] = what
    BY <1>0, <2>1 DEF ActorTypes, StartRequest, Goto, OnlyMoves
  <2>3. what = "keep" => task.state \notin Terminal
    BY <1>0, <2>1, AllowedFacts DEF StartRequest
  <2> QED
    BY <1>0, <2>2, <2>3, QuietCalm
<1>2. CASE \E what \in Decisions : LoadApproval(p, what)
  <2>1. OnlyMoves(p) /\ at'[p] = "deciding"
    BY <1>0, <1>2 DEF ActorTypes, LoadApproval, Goto, OnlyMoves
  <2> QED
    BY <1>0, <2>1, QuietCalm
<1>3. CASE SaveApproval(p)
  <2>1. OnlyMoves(p) /\ at'[p] = "decided"
    BY <1>0, <1>3 DEF ActorTypes, SaveApproval, Goto, OnlyMoves
  <2> QED
    BY <1>0, <2>1, QuietCalm
<1>4. CASE LoadTask(p)
  <2>1. at[p] = "decided" /\ op[p] \in Decisions \cup {"complete", "fail"} /\ op[p] # "keep"
    BY <1>4 DEF LoadTask, BaseInv, ActorFits, Decisions
  <2>2. CASE Allowed(op[p], task)
    <3>1. OnlyMoves(p) /\ at'[p] = "loaded" /\ op'[p] = op[p]
      BY <1>0, <1>4, <2>2 DEF ActorTypes, LoadTask, Goto, OnlyMoves
    <3> QED
      BY <1>0, <2>1, <3>1, QuietCalm
  <2>3. CASE ~ Allowed(op[p], task) /\ op[p] = "complete" /\ ~ Ended
    <3>1. OnlyMoves(p) /\ at'[p] = "decided"
      BY <1>0, <1>4, <2>1, <2>3 DEF ActorTypes, LoadTask, Goto, OnlyMoves
    <3> QED
      BY <1>0, <3>1, QuietCalm
  <2>4. CASE ~ Allowed(op[p], task) /\ ~ (op[p] = "complete" /\ ~ Ended)
    <3>1. OnlyMoves(p) /\ at'[p] = "idle"
      BY <1>4, <2>4, LeaveEffect DEF BaseInv, LoadTask, OnlyMoves
    <3>2. task.state # "running"
      BY <2>1, <2>4 DEF Allowed, Decisions, Ended, Terminal
    <3> QED
      BY <1>0, <3>1, <3>2, QuietCalm
  <2> QED
    BY <2>2, <2>3, <2>4
<1>5. CASE p \notin Workers /\ CancelApproval(p)
  <2>1. OnlyMoves(p) /\ at'[p] = "idle"
    BY <1>5, LeaveEffect DEF BaseInv, CancelApproval, OnlyMoves
  <2> QED
    BY <1>0, <1>5, <2>1, QuietCalm
<1> QED
  BY <1>1, <1>2, <1>3, <1>4, <1>5

\* The steps of workers that leave the task.
LEMMA WorkCalm ==
    ASSUME BaseInv, RunInv, CalmInv, Calm, NEW w \in Workers,
           BuildRequest(w) \/ ReportProgress(w) \/ AdapterStep(w) \/ ApplyResult(w)
           \/ BeginRelease(w)
    PROVE  CalmInv'
<1>0. ActorTypes /\ w \in Actors
  BY BaseParts, ActorFacts
<1>1. /\ OnlyMoves(w) /\ task' = task /\ at'[w] # "idle"
      /\ at'[w] = "loaded" /\ op'[w] = "keep" => mem'[w] = task /\ task.state = "running"
  <2>1. CASE BuildRequest(w)
    BY <1>0, <2>1 DEF ActorTypes, BuildRequest, Goto, OnlyMoves
  <2>2. CASE ReportProgress(w)
    BY <1>0, <2>2 DEF ActorTypes, ReportProgress, Held, Goto, OnlyMoves
  <2>3. CASE AdapterStep(w)
    BY <1>0, <2>3 DEF ActorTypes, AdapterStep, AdapterReturns, Goto, OnlyMoves
  <2>4. CASE ApplyResult(w)
    BY <1>0, <2>4 DEF ActorTypes, ApplyResult, Goto, OnlyMoves
  <2>5. CASE BeginRelease(w)
    BY <1>0, <2>5 DEF ActorTypes, BeginRelease, Goto, OnlyMoves
  <2> QED
    BY <2>1, <2>2, <2>3, <2>4, <2>5
<1> QED
  BY <1>0, <1>1, QuietCalm DEF Terminal

LEMMA CreateCalm ==
    ASSUME BaseInv, CalmInv, Calm, CreateApproval \/ \E needs \in BOOLEAN : CreateTask(needs)
    PROVE  CalmInv'
<1>0. ActorTypes /\ Creator \in Actors /\ Creator \notin Workers
  BY BaseParts, ActorFacts
<1>1. CASE CreateApproval
  <2>1. OnlyMoves(Creator) /\ task' = task /\ mem'[Creator].state = "awaiting_approval" /\ at'[Creator] = "loaded"
    BY <1>0, <1>1 DEF ActorTypes, BaseInv, ActorFits, CreateApproval, Goto, OnlyMoves
  <2> QED
    BY <1>0, <2>1, QuietCalm DEF Terminal
<1>2. CASE \E needs \in BOOLEAN : CreateTask(needs)
  <2>1. \A p \in Actors : at'[p] # "loaded"
    BY <1>0, <1>2 DEF ActorTypes, BaseInv, NothingBeforeTask, CreateTask, Goto
  <2>2. task'.state # "running"
    BY <1>2 DEF CreateTask, Blank
  <2> QED
    BY <2>1, <2>2 DEF CalmInv, RunningAttended, KeepFits
<1> QED
  BY <1>1, <1>2

\* What is saved in a calm run: the copy of the one actor inside a window, of
\* a task that has not ended.
LEMMA SaveFacts ==
    ASSUME BaseInv, RunInv, CalmInv, Calm, Calm', NEW p \in Actors, SaveTask(p)
    PROVE  /\ at[p] = "loaded" /\ mem[p] \in Row /\ mem[p].state # "absent" /\ ~ Ended
           /\ op[p] \in Decisions \cup {"keep", "cancel", "requeue", "release", "complete", "fail"}
           /\ task \in Row /\ task' = Updated(mem[p], op[p])
           /\ op[p] \in Decisions => task.state = "awaiting_approval"
           /\ op[p] \in {"requeue", "release"} => p \in Workers
           /\ \A q \in Actors : at'[q] # "loaded" /\ (q # p => at'[q] = at[q])
           /\ op[p] = "keep" /\ p \in Workers => at'[p] # "idle"
<1>0. ActorTypes /\ task \in Row
  BY BaseParts DEF SharedTypes
<1>1. /\ at[p] = "loaded" /\ mem[p] \in Row /\ mem[p].state # "absent" /\ op[p] \in Savable
      /\ op[p] \in {"requeue", "release"} => p \in Workers
      /\ task' = Updated(mem[p], op[p])
  BY <1>0 DEF ActorTypes, BaseInv, ActorFits, SaveTask
<1>2. op[p] \in Decisions \cup {"keep", "cancel", "requeue", "release", "complete", "fail"} /\ op[p] # "retry"
  <2>1. op[p] \notin Manual
    BY DEF SaveTask, Calm
  <2> QED
    BY <1>1, <2>1 DEF Savable, Manual
<1>3. ~ Ended
  BY <1>1, <1>2, CalmParts DEF CopiesAreFresh
<1>4. op[p] \in Decisions => task.state = "awaiting_approval"
  BY <1>1, <1>3, CalmParts DEF Undecided, UndecidedWaits
<1>5. /\ \A q \in Actors : q # p => at'[q] = at[q]
      /\ at'[p] # "loaded"
      /\ op[p] = "keep" /\ p \in Workers => at'[p] # "idle"
  BY <1>0 DEF ActorTypes, SaveTask, Leave, Goto
<1>6. \A q \in Actors : at'[q] # "loaded"
  BY <1>1, <1>5, CalmParts DEF OneWindow, InWindow
<1> QED
  BY <1>0, <1>1, <1>2, <1>3, <1>4, <1>5, <1>6

LEMMA SaveCalm ==
    ASSUME BaseInv, RunInv, CalmInv, Calm, Calm', NEW p \in Actors, SaveTask(p)
    PROVE  CalmInv'
<1>1. ASSUME task'.state = "running"
      PROVE  \E w \in Workers : at'[w] # "idle"
  <2>1. op[p] = "keep" /\ task' = mem[p]
    BY <1>1, SaveFacts, UpdatedFacts DEF Decisions, Savable
  <2>2. PICK w \in Workers : at[w] # "idle"
    BY <1>1, <2>1, SaveFacts DEF CalmInv, KeepFits, RunningAttended
  <2> QED
    BY <2>1, <2>2, SaveFacts, ActorFacts
<1>2. \A q \in Actors : at'[q] # "loaded"
  BY SaveFacts
<1> QED
  BY <1>1, <1>2 DEF CalmInv, RunningAttended, KeepFits

\* Steps of a worker that open no window and find none open, and of the clock.
LEMMA LeaseCalm ==
    ASSUME BaseInv, RunInv, CalmInv, Calm, Calm',
           \/ \E w \in Workers : Claim(w) \/ BeginRenew(w) \/ EndRenew(w)
           \/ LeasePasses \/ ApprovalLapses
    PROVE  CalmInv'
<1>0. ActorTypes /\ task \in Row /\ Workers \subseteq Actors
  BY BaseParts, ActorFacts DEF SharedTypes
<1>1. CASE \E w \in Workers : Claim(w)
  <2>1. PICK w \in Workers : Claim(w)
    BY <1>1
  <2>2. Opens(w) /\ slips' = 0
    BY <2>1 DEF Claim, Calm, Smooth
  <2>3. \A q \in Actors : InWindow(q) => q = w
    BY <1>0, <2>2, OpensEffect DEF BaseInv
  <2>4. OnlyMoves(w) /\ at'[w] = "claimed"
    BY <1>0, <2>1 DEF ActorTypes, Claim, Goto, OnlyMoves
  <2>5. \A q \in Actors : at'[q] # "loaded"
    BY <2>3, <2>4 DEF InWindow, OnlyMoves
  <2> QED
    BY <1>0, <2>4, <2>5 DEF CalmInv, RunningAttended, KeepFits
<1>2. CASE LeasePasses \/ ApprovalLapses \/ \E w \in Workers : BeginRenew(w) \/ EndRenew(w)
  <2>1. UNCHANGED <<at, op, mem>> /\ task'.state = task.state
    BY <1>0, <1>2 DEF LeasePasses, ApprovalLapses, BeginRenew, EndRenew, Row
  <2> QED
    BY <2>1 DEF CalmInv, RunningAttended, KeepFits
<1> QED
  BY <1>1, <1>2

LEMMA CalmStep ==
    ASSUME BaseInv, RunInv, CalmInv, [Next]_vars
    PROVE  CalmInv'
<1> SUFFICES ASSUME Calm' PROVE CalmInv'
  BY DEF CalmInv
<1>0. /\ Requests \subseteq Actors /\ Workers \subseteq Actors /\ Sweeper \in Actors
      /\ Creator \in Actors /\ Creator \notin Requests /\ Creator \notin Workers
      /\ \A r \in Requests : r \notin Workers
      /\ Calm
  BY ActorFacts, BrowserAssumption, CalmBefore
<1>1. CASE CreateApproval \/ \E needs \in BOOLEAN : CreateTask(needs)
  BY <1>0, <1>1, CreateCalm
<1>2. CASE \E p \in Actors : SaveTask(p)
  BY <1>0, <1>2, SaveCalm
<1>3. CASE \E r \in Requests :
              \/ \E what \in Manual \cup {"keep", "cancel", "complete", "fail"} : StartRequest(r, what)
              \/ CancelApproval(r)
  BY <1>0, <1>3, RequestCalm DEF Savable
<1>4. CASE (\E r \in Requests : \E what \in Decisions : DecideRequest(r, what)) \/ SweepApproval
  <2>1. \E p \in Actors : \E what \in Decisions : LoadApproval(p, what)
    BY <1>0, <1>4 DEF DecideRequest, SweepApproval, Decisions
  <2> QED
    BY <1>0, <2>1, RequestCalm
<1>5. CASE \E p \in Actors : SaveApproval(p) \/ LoadTask(p)
  BY <1>0, <1>5, RequestCalm
<1>6. CASE \E w \in Workers :
              BuildRequest(w) \/ ReportProgress(w) \/ AdapterStep(w) \/ ApplyResult(w) \/ BeginRelease(w)
  BY <1>0, <1>6, WorkCalm
<1>7. CASE (\E w \in Workers : Claim(w) \/ BeginRenew(w) \/ EndRenew(w)) \/ LeasePasses \/ ApprovalLapses
  BY <1>0, <1>7, LeaseCalm
<1>8. CASE \E p \in Actors : Crash(p)
  <2>1. faults \in Nat
    BY BaseParts, BrowserAssumption DEF SharedTypes
  <2> QED
    BY <1>8, <2>1 DEF Crash, Calm, Smooth
<1>9. CASE UNCHANGED vars
  BY <1>0, <1>9 DEF vars, CalmInv, RunningAttended, KeepFits
<1> QED
  BY <1>0, <1>1, <1>2, <1>3, <1>4, <1>5, <1>6, <1>7, <1>8, <1>9
  DEF Next, RequestStep, Decide, WorkerStep, Decisions

Life == [i \in {"task"} |-> LifeOf(task, Calm)]

LEMMA OneLife == Life' = [Life EXCEPT !["task"] = LifeOf(task', Calm')]
BY DEF Life

LEMMA CalmLife ==
    ASSUME Calm, Calm'
    PROVE  /\ Life["task"] = LifeOf(task, TRUE)
           /\ Life' = [Life EXCEPT !["task"] = LifeOf(task', TRUE)]
<1>1. Calm = TRUE /\ Calm' = TRUE
  BY DEF Calm, Smooth
<1> QED
  BY <1>1, OneLife DEF Life

LEMMA LifePhase ==
    ASSUME NEW m, NEW calm
    PROVE  LifeOf(m, calm).phase = PhaseOf(m)
BY DEF LifeOf

LEMMA LifeFacts ==
    ASSUME NEW m \in Row, NEW calm \in BOOLEAN
    PROVE  /\ m.state = "absent" => LifeOf(m, calm) = Leases!Piece("absent", None, calm)
           /\ m.state \in {"awaiting_approval", "queued"} =>
                 LifeOf(m, calm) = Leases!Piece("waiting", None, calm)
           /\ m.state = "running" => LifeOf(m, calm) = Leases!Piece("held", m.owner, calm)
           /\ m.state \in Terminal => LifeOf(m, calm) = Leases!Piece(m.state, None, calm)
           /\ m.state # "absent" =>
                 \E phase \in Leases!Phases \ {"absent"}, i \in Ids \cup {None} :
                    LifeOf(m, calm) = Leases!Piece(phase, i, calm)
<1> DEFINE holder == IF m.state = "running" THEN m.owner ELSE None
<1>1. /\ m.state = "absent" => PhaseOf(m) = "absent" /\ holder = None
      /\ m.state \in {"awaiting_approval", "queued"} => PhaseOf(m) = "waiting" /\ holder = None
      /\ m.state = "running" => PhaseOf(m) = "held" /\ holder = m.owner
      /\ m.state \in Terminal => PhaseOf(m) = m.state /\ holder = None
      /\ m.state # "absent" => PhaseOf(m) \in Leases!Phases \ {"absent"}
      /\ holder \in Ids \cup {None}
  BY DEF PhaseOf, Row, States, Terminal, Leases!Phases
<1>2. LifeOf(m, calm) = Leases!Piece(PhaseOf(m), holder, calm)
  BY DEF LifeOf, Leases!Piece
<1> HIDE DEF holder
<1> QED
  BY <1>1, <1>2

\* Whatever happens to a task, it is not lost.
LEMMA TaskStays ==
    ASSUME BaseInv, [Next]_vars, task.state # "absent"
    PROVE  task'.state # "absent"
<1>1. CASE \E p \in Actors : SaveTask(p)
  <2>1. PICK p \in Actors : SaveTask(p)
    BY <1>1
  <2>2. mem[p] \in Row /\ op[p] \in Savable /\ mem[p].state # "absent" /\ task' = Updated(mem[p], op[p])
    BY <2>1, BaseParts DEF BaseInv, ActorTypes, ActorFits, SaveTask
  <2>3. task \in Row
    BY BaseParts DEF SharedTypes
  <2> QED
    BY <2>2, <2>3, UpdatedFacts
<1>2. CASE (\E w \in Workers : Claim(w) \/ BeginRenew(w) \/ EndRenew(w)) \/ LeasePasses
  <2>0. task \in Row
    BY BaseParts DEF SharedTypes
  <2>1. CASE \E w \in Workers : Claim(w)
    BY <2>1 DEF Claim
  <2>2. CASE LeasePasses \/ \E w \in Workers : BeginRenew(w) \/ EndRenew(w)
    BY <2>0, <2>2 DEF LeasePasses, BeginRenew, EndRenew, Row
  <2> QED
    BY <1>2, <2>1, <2>2
<1>3. CASE \E needs \in BOOLEAN : CreateTask(needs)
  BY <1>3 DEF CreateTask
<1>4. CASE task' = task
  BY <1>4
<1> QED
  BY <1>1, <1>2, <1>3, <1>4, ActorFacts
  DEF Next, vars, RequestStep, Decide, WorkerStep, AdapterStep, CreateApproval, StartRequest,
      DecideRequest, LoadApproval, SweepApproval, SaveApproval, LoadTask, CancelApproval,
      BuildRequest, AdapterReturns, ApplyResult, ReportProgress, BeginRelease, Crash, ApprovalLapses

\* Once copies overlapped, something failed or the state was set by hand, the
\* task goes anywhere but out of the table.
LEMMA UncalmDisturbs ==
    ASSUME BaseInv, [Next]_vars, ~ Calm'
    PROVE  Leases!Next
<1>1. task' \in Row /\ task \in Row
  BY BaseStep DEF BaseInv, TypeOK
<1>2. \E phase \in Leases!Phases, i \in Ids \cup {None} :
         /\ phase = "absent" => task.state = "absent"
         /\ LifeOf(task', FALSE) = Leases!Piece(phase, i, FALSE)
  <2>1. CASE task'.state = "absent"
    <3>1. LifeOf(task', FALSE) = Leases!Piece("absent", None, FALSE) /\ task.state = "absent"
      BY <1>1, <2>1, LifeFacts, TaskStays
    <3> QED
      BY <3>1 DEF Leases!Phases
  <2>2. CASE task'.state # "absent"
    BY <1>1, <2>2, LifeFacts
  <2> QED
    BY <2>1, <2>2
<1>3. task.state = "absent" => Life["task"].phase = "absent"
  <2>1. Life["task"] = LifeOf(task, Calm)
    BY DEF Life
  <2>2. LifeOf(task, Calm).phase = PhaseOf(task)
    BY LifePhase
  <2>3. task.state = "absent" => PhaseOf(task) = "absent"
    BY DEF PhaseOf
  <2> QED
    BY <2>1, <2>2, <2>3
<1>4. Life' = [Life EXCEPT !["task"] = LifeOf(task', FALSE)]
  <2>1. Calm' = FALSE
    BY DEF Calm
  <2> QED
    BY <2>1, OneLife
<1>5. Leases!Disturb("task")
  BY <1>2, <1>3, <1>4 DEF Leases!Disturb, Leases!Becomes, Life
<1> QED
  BY <1>5 DEF Leases!Next

\* Calm steps that leave the state, and the owner of a running task.
LEMMA SameLife ==
    ASSUME Calm, Calm', task'.state = task.state, task.state = "running" => task'.owner = task.owner
    PROVE  Life' = Life
<1>1. LifeOf(task', TRUE) = LifeOf(task, TRUE)
  BY DEF LifeOf, PhaseOf
<1> QED
  BY <1>1, CalmLife DEF Life

\* A request, or the worker, ends the task.
LEMMA EndIsLeased ==
    ASSUME BaseInv, BaseInv', Calm, Calm', task.state # "absent", ~ Ended, Ended'
    PROVE  Leases!Next
<1>1. task \in Row /\ task' \in Row
  BY DEF BaseInv, TypeOK
<1>2. Life["task"].calm /\ Life["task"].phase \in {"waiting", "held"}
  <2>1. CASE task.state = "running"
    <3>1. Life["task"] = Leases!Piece("held", task.owner, TRUE)
      BY <1>1, <2>1, LifeFacts, CalmLife
    <3> QED
      BY <3>1 DEF Leases!Piece
  <2>2. CASE task.state \in {"awaiting_approval", "queued"}
    <3>1. Life["task"] = Leases!Piece("waiting", None, TRUE)
      BY <1>1, <2>2, LifeFacts, CalmLife
    <3> QED
      BY <3>1 DEF Leases!Piece
  <2> QED
    BY <1>1, <2>1, <2>2 DEF Ended, Row, States
<1>3. task'.state \in Terminal /\ LifeOf(task', TRUE) = Leases!Piece(task'.state, None, TRUE)
  BY <1>1, LifeFacts DEF Ended
<1>4. Life' = [Life EXCEPT !["task"] = LifeOf(task', TRUE)]
  BY CalmLife
<1>5. Leases!Withdraw("task")
  BY <1>2, <1>3, <1>4 DEF Leases!Withdraw, Leases!Becomes, Life
<1> QED
  BY <1>5 DEF Leases!Next

\* The worker that holds the task gives it back.
LEMMA BackIsLeased ==
    ASSUME BaseInv, BaseInv', Calm, Calm', NEW w \in Workers, Held(w), task'.state = "queued"
    PROVE  Leases!Next
<1>1. task \in Row /\ task' \in Row /\ Identity[w] \in Ids
  BY DEF BaseInv, TypeOK, Ids
<1>2. /\ Life["task"] = Leases!Piece("held", Identity[w], TRUE)
      /\ LifeOf(task', TRUE) = Leases!Piece("waiting", None, TRUE)
  BY <1>1, LifeFacts, CalmLife DEF Held
<1>3. Life' = [Life EXCEPT !["task"] = LifeOf(task', TRUE)]
  BY CalmLife
<1>4. Leases!GiveBack("task", Identity[w])
  BY <1>2, <1>3 DEF Leases!GiveBack, Leases!Becomes, Life
<1> QED
  BY <1>1, <1>4 DEF Leases!Next

\* A claim in a calm run finds a queued task: a running one is attended and its
\* lease alive.
LEMMA ClaimIsLeased ==
    ASSUME BaseInv, BaseInv', RunInv, CalmInv, Calm, Calm', NEW w \in Workers, Claim(w)
    PROVE  Leases!Next
<1>1. task \in Row /\ task' \in Row /\ Identity[w] \in Ids
  BY DEF BaseInv, TypeOK, Ids
<1>2. task.state = "queued"
  <2>1. task.state = "running" => \E v \in Workers : at[v] # "idle"
    BY DEF CalmInv, RunningAttended
  <2>2. task.state = "running" => task.live
    BY <2>1, CalmParts DEF WorkerHolds, Ended, Terminal
  <2> QED
    BY <2>2 DEF Claim, Claimable
<1>3. /\ Life["task"] = Leases!Piece("waiting", None, TRUE)
      /\ LifeOf(task', TRUE) = Leases!Piece("held", Identity[w], TRUE)
  <2>1. task'.state = "running" /\ task'.owner = Identity[w]
    BY DEF Claim
  <2> QED
    BY <1>1, <1>2, <2>1, LifeFacts, CalmLife
<1>4. Life' = [Life EXCEPT !["task"] = LifeOf(task', TRUE)]
  BY CalmLife
<1>5. Leases!Take("task", Identity[w])
  BY <1>3, <1>4 DEF Leases!Take, Leases!Becomes, Life
<1> QED
  BY <1>1, <1>5 DEF Leases!Next

LEMMA SaveIsLeased ==
    ASSUME BaseInv, BaseInv', RunInv, CalmInv, Calm, Calm', NEW p \in Actors, SaveTask(p)
    PROVE  Leases!Next \/ Life' = Life
<1>1. /\ task \in Row /\ mem[p] \in Row /\ mem[p].state # "absent" /\ ~ Ended
      /\ task.state # "absent" /\ at[p] = "loaded"
      /\ op[p] \in Savable /\ task' = Updated(mem[p], op[p])
  BY SaveFacts, AtWork DEF BaseInv, TypeOK, Savable
<1>2. CASE op[p] \in {"deny", "expire", "cancel", "complete", "fail"}
  <2>1. Ended'
    BY <1>1, <1>2, UpdatedFacts DEF Ended, Terminal
  <2> QED
    BY <1>1, <2>1, EndIsLeased
<1>3. CASE op[p] \in {"requeue", "release"}
  <2>1. p \in Workers /\ Held(p) /\ task'.state = "queued"
    BY <1>1, <1>3, SaveFacts, UpdatedFacts, CalmParts DEF WorkerHolds
  <2> QED
    BY <2>1, BackIsLeased
<1>4. CASE op[p] = "approve"
  <2>1. task.state = "awaiting_approval" /\ task'.state = "queued"
    BY <1>1, <1>4, SaveFacts, UpdatedFacts DEF Decisions
  <2>2. LifeOf(task', TRUE) = LifeOf(task, TRUE)
    BY <2>1 DEF LifeOf, PhaseOf
  <2> QED
    BY <2>2, CalmLife DEF Life
<1>5. CASE op[p] = "keep"
  <2>1. task' = mem[p]
    BY <1>1, <1>5, UpdatedFacts
  <2>2. CASE task.state = "running"
    <3>1. PICK w \in Workers : at[w] # "idle"
      BY <2>2 DEF CalmInv, RunningAttended
    <3>2. task.owner = Identity[w]
      BY <1>1, <3>1, CalmParts DEF WorkerHolds, Held
    <3>3. mem[p].state = "running" /\ mem[p].owner = Identity[w]
      BY <1>1, <1>5, <3>1, CalmParts DEF CopiesAreFresh
    <3> QED
      BY <2>1, <2>2, <3>2, <3>3, SameLife
  <2>3. CASE task.state # "running"
    <3>1. task.state \in {"awaiting_approval", "queued"}
      BY <1>1, <2>3 DEF Ended, Row, States
    <3>2. mem[p].state \notin Terminal /\ mem[p].state # "running"
      BY <1>1, <1>5, <2>3 DEF CalmInv, KeepFits
    <3>3. mem[p].state \in {"awaiting_approval", "queued"}
      BY <1>1, <3>2 DEF Row, States
    <3>4. LifeOf(task', TRUE) = LifeOf(task, TRUE)
      BY <1>1, <2>1, <3>1, <3>3, LifeFacts
    <3> QED
      BY <3>4, CalmLife DEF Life
  <2> QED
    BY <2>2, <2>3
<1> QED
  BY <1>2, <1>3, <1>4, <1>5, SaveFacts DEF Decisions

LEMMA CreateIsLeased ==
    ASSUME BaseInv, BaseInv', Calm, Calm', NEW needs \in BOOLEAN, CreateTask(needs)
    PROVE  Leases!Next
<1>1. /\ task \in Row /\ task' \in Row /\ task.state = "absent"
      /\ task'.state \in {"awaiting_approval", "queued"}
  BY DEF BaseInv, TypeOK, CreateTask, Blank
<1>2. /\ Life["task"] = Leases!Piece("absent", None, TRUE)
      /\ LifeOf(task', TRUE) = Leases!Piece("waiting", None, TRUE)
  BY <1>1, LifeFacts, CalmLife
<1>3. Life' = [Life EXCEPT !["task"] = LifeOf(task', TRUE)]
  BY CalmLife
<1>4. Leases!Submit("task")
  BY <1>2, <1>3 DEF Leases!Submit, Leases!Becomes, Life
<1> QED
  BY <1>4 DEF Leases!Next

\* The browser task is leased work, for any number of workers and whether or not
\* they share an identity: whoever claimed it holds it alone until it gives it
\* back or the task ends, and it comes to harm only by overlapping copies, faults
\* and states set by hand.
THEOREM TaskIsLeasedWork == Spec => LeasedWorkHolds
<1>1. Init => Leases!Init
  <2> SUFFICES ASSUME Init PROVE Life = [i \in {"task"} |-> Leases!Piece("absent", None, TRUE)]
    BY DEF Leases!Init, Life
  <2>1. task \in Row /\ task.state = "absent" /\ Calm = TRUE
    BY BlankFacts DEF Init, Calm, Smooth
  <2>2. LifeOf(task, TRUE) = Leases!Piece("absent", None, TRUE)
    BY <2>1, LifeFacts
  <2> QED
    BY <2>1, <2>2 DEF Life
<1>2. Init => RunInv /\ CalmInv
  <2> SUFFICES ASSUME Init PROVE RunInv /\ CalmInv
    OBVIOUS
  <2>1. /\ \A p \in Actors : at[p] = "idle"
        /\ ~ succeeded /\ approval = "none" /\ task.state = "absent"
    BY BlankFacts DEF Init
  <2>2. OneWindow /\ CompletedAlone /\ WorkerHolds /\ CopiesAreFresh /\ UndecidedWaits
    BY <2>1, ActorFacts
    DEF OneWindow, InWindow, CompletedAlone, WorkerHolds, CopiesAreFresh, UndecidedWaits, Undecided
  <2> QED
    BY <2>1, <2>2 DEF RunInv, HandsOff, CalmInv, RunningAttended, KeepFits
<1>3. BaseInv /\ RunInv /\ CalmInv /\ [Next]_vars => RunInv' /\ CalmInv'
  BY RunStep, CalmStep
<1>4. ASSUME BaseInv, RunInv, CalmInv, [Next]_vars, Calm'
      PROVE  Leases!Next \/ Life' = Life
  <2>0. Calm /\ BaseInv' /\ task \in Row /\ Workers \subseteq Actors /\ Requests \subseteq Actors
    BY <1>4, CalmBefore, BaseStep, ActorFacts, BaseParts DEF SharedTypes
  <2>1. CASE \E needs \in BOOLEAN : CreateTask(needs)
    BY <1>4, <2>0, <2>1, CreateIsLeased
  <2>2. CASE \E p \in Actors : SaveTask(p)
    BY <1>4, <2>0, <2>2, SaveIsLeased
  <2>3. CASE \E w \in Workers : Claim(w)
    BY <1>4, <2>0, <2>3, ClaimIsLeased
  <2>5. CASE LeasePasses \/ \E w \in Workers : BeginRenew(w) \/ EndRenew(w)
    <3>1. task'.state = task.state /\ task'.owner = task.owner
      BY <2>0, <2>5 DEF LeasePasses, BeginRenew, EndRenew, Row
    <3> QED
      BY <1>4, <2>0, <3>1, SameLife
  <2>6. CASE task' = task
    BY <1>4, <2>0, <2>6, SameLife
  <2> QED
    BY <1>4, <2>1, <2>2, <2>3, <2>5, <2>6, ActorFacts
    DEF Next, vars, RequestStep, Decide, WorkerStep, AdapterStep, CreateApproval, StartRequest,
        DecideRequest, LoadApproval, SweepApproval, SaveApproval, LoadTask, CancelApproval,
        BuildRequest, AdapterReturns, ApplyResult, ReportProgress, BeginRelease, Crash, ApprovalLapses
<1>5. BaseInv /\ RunInv /\ CalmInv /\ [Next]_vars =>
         [Leases!Next]_[i \in {"task"} |-> LifeOf(task, Calm)]
  BY <1>4, UncalmDisturbs DEF Life
<1> QED
  BY <1>1, <1>2, <1>3, <1>5, TaskInvariance, PTL DEF Spec, LeasedWorkHolds, Leases!Spec

=============================================================================
