------------------------ MODULE ToolIntegrationProofs ------------------------
(***************************************************************************)
(* Proofs about deferred tool calls, for any number of workers and webhook *)
(* handlers, attempts, answers, faults and slips.                          *)
(***************************************************************************)
EXTENDS ToolIntegration, TLAPS

\* Nothing is under way before the job is inserted.
NothingBeforeJob ==
    job.status = "absent" =>
        invocation = "pending" /\ external = "none" /\ outcome = "none"
        /\ \A p \in Actors : at[p] = "idle"

BaseInv == TypeOK /\ NothingBeforeJob

Busy(p) == at[p] \notin {"idle", "asked"}

\* Only one actor at a time has taken the job up.
Alone == \A p, q \in Actors : Busy(p) /\ Busy(q) => p = q

\* A running job is running in the name of a worker that has it.
RunningHeld ==
    job.status = "running" =>
        /\ job.worker \in Workers /\ at[job.worker] \in {"executing", "decided", "loaded"}
        /\ job.live /\ ~ job.stale

Resent == {"queued", "retry_scheduled"}

\* The provider does not have a job that waits to be submitted.
NotSubmitted == job.status \in Resent => external \notin {"held", "done"}

\* The first terminal status is the job's.
FirstStands ==
    /\ outcome # "none" => job.status = outcome
    /\ job.status \in Terminal => outcome = job.status
    /\ outcome # "none" /\ (\A p \in Actors : ~ InWindow(p)) => invocation = outcome

\* What an actor that has the job relies on: the row is as it found it, and
\* once it is written it is as it left it.
SeesJob(p) ==
    /\ at[p] = "claiming" => op[p] = job.status /\ job.status \in Resent \cup {"waiting_poll"}
    /\ at[p] = "executing" => job.status = "running" /\ job.worker = p
    /\ at[p] = "handling" => job.status = "waiting_webhook"
    /\ at[p] \in {"decided", "loaded"} =>
          /\ Open(job)
          /\ p \in Workers => job.status = "running" /\ job.worker = p
          /\ op[p] # "queued"
          /\ op[p] = "retry_scheduled" => external \notin {"held", "done"}
    /\ at[p] \in {"saved", "stamp"} => op[p] = job.status
    /\ p = Canceller /\ at[p] \in {"decided", "loaded", "saved"} => op[p] = "cancelled"
    /\ at[p] = "stamp" => invocation = op[p]
    /\ at[p] = "again" => job.status = "cancelled" /\ outcome = "cancelled"

HoldInv ==
    Smooth =>
        /\ Alone /\ RunningHeld /\ NotSubmitted /\ FirstStands /\ ~ dup
        /\ \A p \in Actors : SeesJob(p)

-----------------------------------------------------------------------------

LEMMA ActorFacts ==
    /\ Workers \subseteq Actors /\ Handlers \subseteq Actors
    /\ Submitter \in Actors /\ Sweeper \in Actors /\ Canceller \in Actors
    /\ Workers \cap Handlers = {} /\ None \notin Workers
    /\ Submitter \notin Workers /\ Sweeper \notin Workers /\ Canceller \notin Workers
    /\ Submitter \notin Handlers /\ Sweeper \notin Handlers /\ Canceller \notin Handlers
    /\ Submitter # Sweeper /\ Sweeper # Canceller /\ Submitter # Canceller
BY IntegrationAssumption DEF Actors

\* The types of what the actors share, and of what they keep.
SharedTypes ==
    /\ job \in Row /\ invocation \in {"pending"} \cup Waiting \cup Terminal
    /\ rounds \in 0 .. MaxRounds /\ faults \in 0 .. MaxFaults /\ slips \in 0 .. MaxSlips
    /\ external \in {"none", "held", "unsure", "done"} /\ dup \in BOOLEAN
    /\ outcome \in {"none"} \cup Terminal

ActorTypes ==
    /\ at \in [Actors -> Places] /\ op \in [Actors -> Ops] /\ mem \in [Actors -> Nat]
    /\ tries \in [Workers -> Nat]

Writes(p) == at[p] \in {"decided", "loaded", "saved", "stamp"} => op[p] # "running"

LEMMA BaseParts ==
    ASSUME BaseInv
    PROVE  SharedTypes /\ ActorTypes /\ \A p \in Actors : Writes(p)
BY DEF BaseInv, TypeOK, SharedTypes, ActorTypes, Writes

\* The others are where they were.
OthersStay(p) == \A q \in Actors : q # p => at'[q] = at[q] /\ op'[q] = op[q]

LEMMA MoveBase ==
    ASSUME BaseInv, NEW p \in Actors, SharedTypes', ActorTypes', OthersStay(p), Writes(p)',
           job'.status # "absent"
    PROVE  BaseInv'
<1>1. \A q \in Actors : q # p => Writes(q)'
  BY BaseParts DEF Writes, OthersStay
<1> QED
  BY <1>1 DEF BaseInv, TypeOK, SharedTypes, ActorTypes, Writes, NothingBeforeJob

LEMMA LeaveEffect ==
    ASSUME BaseInv, NEW p \in Actors, Leave(p)
    PROVE  ActorTypes' /\ at'[p] = "idle" /\ op'[p] = "queued" /\ OthersStay(p)
<1>1. ActorTypes
  BY BaseParts
<1>2. at' \in [Actors -> Places] /\ op' \in [Actors -> Ops]
      /\ at'[p] = "idle" /\ op'[p] = "queued" /\ OthersStay(p)
  BY <1>1 DEF ActorTypes, Leave, Goto, Places, Ops, Waiting, OthersStay
<1>3. mem' \in [Actors -> Nat] /\ tries' \in [Workers -> Nat]
  BY <1>1 DEF ActorTypes, Leave
<1> QED
  BY <1>2, <1>3 DEF ActorTypes

LEMMA AtWork ==
    ASSUME BaseInv, NEW p \in Actors, at[p] # "idle"
    PROVE  job.status # "absent"
BY DEF BaseInv, NothingBeforeJob

LEMMA TakesUpEffect ==
    ASSUME BaseInv, NEW p \in Actors, TakesUp(p)
    PROVE  /\ slips' \in 0 .. MaxSlips
           /\ slips' = 0 => slips = 0 /\ \A q \in Actors : q # p => ~ InWindow(q)
<1>1. slips \in Nat /\ slips \in 0 .. MaxSlips
  BY BaseParts, IntegrationAssumption DEF SharedTypes
<1> QED
  BY <1>1, IntegrationAssumption DEF TakesUp

LEMMA MovedFacts ==
    ASSUME NEW status \in Ops, NEW n \in Nat
    PROVE  /\ Moved(status, n) \in Row /\ Moved(status, n).status = status
           /\ status # "absent"
BY DEF Moved, NewJob, Row, Ops, Waiting, Terminal

-----------------------------------------------------------------------------
(* Types.                                                                  *)

LEMMA InitBase == Init => BaseInv
<1> SUFFICES ASSUME Init PROVE BaseInv
  OBVIOUS
<1>1. job \in Row /\ dup \in BOOLEAN
  BY DEF Init, NewJob, Row
<1>2. ActorTypes
  BY DEF Init, ActorTypes, Places, Ops, Waiting
<1>3. \A p \in Actors : at[p] = "idle"
  BY DEF Init
<1>4. TypeOK
  BY <1>1, <1>2, <1>3, IntegrationAssumption DEF Init, TypeOK, ActorTypes
<1>5. NothingBeforeJob
  BY <1>3 DEF Init, NothingBeforeJob
<1> QED
  BY <1>4, <1>5 DEF BaseInv

LEMMA CreateBase ==
    ASSUME BaseInv, CreateJob
    PROVE  BaseInv'
<1>0. SharedTypes /\ ActorTypes /\ Submitter \in Actors
  BY BaseParts, ActorFacts
<1>1. job' \in Row /\ job'.status = "queued"
  BY DEF CreateJob, NewJob, Row, Waiting
<1>2. SharedTypes'
  BY <1>0, <1>1 DEF SharedTypes, CreateJob
<1>3. ActorTypes' /\ op'[Submitter] = "queued" /\ OthersStay(Submitter)
  BY <1>0 DEF ActorTypes, CreateJob, Goto, Places, Ops, Waiting, OthersStay
<1> QED
  BY <1>0, <1>1, <1>2, <1>3, MoveBase DEF Writes

LEMMA SelectBase ==
    ASSUME BaseInv, NEW w \in Workers, SelectJob(w)
    PROVE  BaseInv'
<1>0. SharedTypes /\ ActorTypes /\ w \in Actors
  BY BaseParts, ActorFacts
<1>1. job.status \in Ops /\ job.status # "absent" /\ job.attempts \in Nat
  BY <1>0 DEF SharedTypes, Row, SelectJob, Claimable, Ops, Waiting
<1>2. SharedTypes'
  BY <1>0, TakesUpEffect DEF SharedTypes, SelectJob
<1>3. ActorTypes' /\ at'[w] = "claiming" /\ OthersStay(w)
  BY <1>0, <1>1 DEF ActorTypes, SelectJob, Goto, Places, OthersStay
<1> QED
  BY <1>0, <1>1, <1>2, <1>3, MoveBase DEF Writes, SelectJob

LEMMA ClaimBase ==
    ASSUME BaseInv, NEW w \in Workers, ClaimJob(w)
    PROVE  BaseInv'
<1>0. SharedTypes /\ ActorTypes /\ w \in Actors /\ job.status # "absent"
  BY BaseParts, ActorFacts, AtWork DEF ClaimJob
<1>1. job' \in Row /\ job'.status \in {"running", job.status}
  <2> DEFINE status == IF op[w] = "running" THEN job.status ELSE "running"
             n == mem[w] + 1
  <2>1. n \in Nat
    BY <1>0 DEF ActorTypes
  <2>2. status \in {"absent", "running"} \cup Waiting \cup Terminal
    BY <1>0 DEF SharedTypes, Row
  <2>3. job' = [job EXCEPT !.status = status, !.worker = w, !.live = TRUE, !.due = FALSE,
                           !.stale = FALSE, !.attempts = n]
    BY DEF ClaimJob
  <2>4. job \in Row /\ w \in Workers \cup {None}
    BY <1>0 DEF SharedTypes
  <2> HIDE DEF status, n
  <2>5. job' \in Row /\ job'.status = status
    BY <2>1, <2>2, <2>3, <2>4 DEF Row
  <2> QED
    BY <2>5 DEF status
<1>2. dup' \in BOOLEAN
  BY DEF ClaimJob
<1>3. SharedTypes'
  BY <1>0, <1>1, <1>2 DEF SharedTypes, ClaimJob
<1>4. ActorTypes' /\ at'[w] = "executing" /\ OthersStay(w)
  BY <1>0 DEF ActorTypes, ClaimJob, Goto, Places, OthersStay
<1> QED
  BY <1>0, <1>1, <1>3, <1>4, MoveBase DEF Writes

\* An answer of the provider, to a worker or through a webhook.
LEMMA AnswerBase ==
    ASSUME BaseInv, NEW p \in Actors, NEW answer \in Transitions,
           at[p] # "idle", answer \in Settling \/ rounds < MaxRounds, Answers(answer),
           op' = [op EXCEPT ![p] = answer], Goto(p, "decided"),
           UNCHANGED <<job, invocation, mem, tries, faults, dup, slips, outcome>>
    PROVE  BaseInv'
<1>0. SharedTypes /\ ActorTypes /\ job.status # "absent"
  BY BaseParts, AtWork
<1>1. answer \in Ops /\ answer # "running"
  BY DEF Transitions, Settling, Ops, Waiting, Terminal
<1>2. SharedTypes'
  BY <1>0, IntegrationAssumption DEF SharedTypes, Answers
<1>3. ActorTypes' /\ op'[p] = answer /\ OthersStay(p)
  BY <1>0, <1>1 DEF ActorTypes, Goto, Places, OthersStay
<1> QED
  BY <1>0, <1>1, <1>2, <1>3, MoveBase DEF Writes

LEMMA RaisesBase ==
    ASSUME BaseInv, NEW w \in Workers, ExecutorRaises(w)
    PROVE  BaseInv'
<1>0. SharedTypes /\ ActorTypes /\ w \in Actors /\ job.status # "absent"
  BY BaseParts, ActorFacts, AtWork DEF ExecutorRaises
<1>1. AfterError(w) \in Ops /\ AfterError(w) # "running"
  BY DEF AfterError, Ops, Waiting, Terminal
<1>2. SharedTypes'
  BY <1>0, IntegrationAssumption DEF SharedTypes, ExecutorRaises
<1>3. ActorTypes' /\ op'[w] # "running" /\ OthersStay(w)
  BY <1>0, <1>1 DEF ActorTypes, ExecutorRaises, Goto, Places, OthersStay
<1> QED
  BY <1>0, <1>2, <1>3, MoveBase DEF Writes, ExecutorRaises

LEMMA ApplyBase ==
    ASSUME BaseInv, NEW p \in Actors, Apply(p)
    PROVE  BaseInv'
<1>0. SharedTypes /\ ActorTypes /\ job.status # "absent" /\ Writes(p)
  BY BaseParts, AtWork DEF Apply, LoadJob, SaveJob, SyncInvocation
<1>1. CASE LoadJob(p)
  <2>1. SharedTypes'
    BY <1>0, <1>1 DEF SharedTypes, LoadJob
  <2>2. ActorTypes' /\ op'[p] = op[p] /\ at[p] = "decided" /\ OthersStay(p)
    BY <1>0, <1>1 DEF SharedTypes, ActorTypes, LoadJob, Goto, Places, Row, OthersStay
  <2> QED
    BY <1>0, <1>1, <2>1, <2>2, MoveBase DEF Writes, LoadJob
<1>2. CASE SaveJob(p)
  <2>1. job' \in Row /\ job'.status # "absent"
    BY <1>0, <1>2, MovedFacts DEF ActorTypes, SaveJob
  <2>2. outcome' \in {"none"} \cup Terminal
    BY <1>0, <1>2 DEF SharedTypes, SaveJob, Noted
  <2>3. SharedTypes'
    BY <1>0, <1>2, <2>1, <2>2 DEF SharedTypes, SaveJob
  <2>4. ActorTypes' /\ op'[p] = op[p] /\ at[p] = "loaded" /\ OthersStay(p)
    BY <1>0, <1>2 DEF ActorTypes, SaveJob, Goto, Places, OthersStay
  <2> QED
    BY <1>0, <2>1, <2>3, <2>4, MoveBase DEF Writes
<1>3. CASE SyncInvocation(p)
  <2>1. invocation' \in Waiting \cup Terminal
    BY <1>0, <1>3 DEF ActorTypes, SyncInvocation, Writes, Ops
  <2>2. SharedTypes'
    BY <1>0, <1>3, <2>1 DEF SharedTypes, SyncInvocation
  <2>3. ActorTypes' /\ OthersStay(p) /\ Writes(p)'
    <3>1. CASE Leave(p)
      BY <3>1, LeaveEffect DEF Writes
    <3>2. CASE ~ Leave(p)
      BY <1>0, <1>3, <3>2 DEF ActorTypes, SyncInvocation, Resume, Goto, Places, OthersStay, Writes
    <3> QED
      BY <3>1, <3>2
  <2> QED
    BY <1>0, <1>3, <2>2, <2>3, MoveBase DEF SyncInvocation
<1> QED
  BY <1>1, <1>2, <1>3 DEF Apply

LEMMA AcceptBase ==
    ASSUME BaseInv, NEW h \in Handlers, AcceptCallback(h)
    PROVE  BaseInv'
<1>0. SharedTypes /\ ActorTypes /\ h \in Actors
  BY BaseParts, ActorFacts
<1>1. SharedTypes' /\ job'.status # "absent"
  BY <1>0, TakesUpEffect DEF SharedTypes, AcceptCallback
<1>2. ActorTypes' /\ at'[h] = "handling" /\ OthersStay(h)
  BY <1>0 DEF ActorTypes, AcceptCallback, Goto, Places, OthersStay
<1> QED
  BY <1>0, <1>1, <1>2, MoveBase DEF Writes

\* Steps after which an actor is done.
LEMMA DoneBase ==
    ASSUME BaseInv, NEW p \in Actors, at[p] # "idle", Leave(p), SharedTypes', job'.status # "absent"
    PROVE  BaseInv'
BY LeaveEffect, MoveBase DEF Writes

LEMMA CallbackRaisesBase ==
    ASSUME BaseInv, NEW h \in Handlers, CallbackRaises(h)
    PROVE  BaseInv'
<1>0. SharedTypes /\ h \in Actors /\ at[h] # "idle" /\ job.status # "absent"
  BY BaseParts, ActorFacts, AtWork DEF CallbackRaises
<1>1. SharedTypes'
  BY <1>0, IntegrationAssumption DEF SharedTypes, CallbackRaises
<1> QED
  BY <1>0, <1>1, DoneBase DEF CallbackRaises

LEMMA FingerprintBase ==
    ASSUME BaseInv, NEW h \in Handlers, RecordFingerprint(h)
    PROVE  BaseInv'
<1>0. SharedTypes /\ ActorTypes /\ h \in Actors /\ at[h] # "idle"
  BY BaseParts, ActorFacts DEF RecordFingerprint
<1>1. job' \in Row /\ job'.status # "absent"
  BY <1>0, MovedFacts DEF ActorTypes, RecordFingerprint
<1>2. SharedTypes'
  BY <1>0, <1>1 DEF SharedTypes, RecordFingerprint
<1> QED
  BY <1>0, <1>1, <1>2, DoneBase DEF RecordFingerprint

LEMMA ListBase ==
    ASSUME BaseInv, ListStuck
    PROVE  BaseInv'
<1>0. SharedTypes /\ ActorTypes /\ Sweeper \in Actors
  BY BaseParts, ActorFacts
<1>1. SharedTypes' /\ job'.status # "absent"
  BY <1>0, TakesUpEffect DEF SharedTypes, ListStuck, Stuck, Open
<1>2. ActorTypes' /\ op'[Sweeper] = "dead_lettered" /\ OthersStay(Sweeper)
  BY <1>0 DEF ActorTypes, ListStuck, Goto, Places, Ops, Terminal, OthersStay
<1> QED
  BY <1>0, <1>1, <1>2, MoveBase DEF Writes

LEMMA CancelBase ==
    ASSUME BaseInv, AskCancel \/ LoadToCancel \/ RefuseCancel \/ CancelAgain
    PROVE  BaseInv'
<1>0. SharedTypes /\ ActorTypes /\ Canceller \in Actors
  BY BaseParts, ActorFacts
<1>1. job.status # "absent"
  BY <1>0, AtWork DEF BaseInv, NothingBeforeJob, AskCancel, LoadToCancel, RefuseCancel,
     CancelAgain, Waiting
<1>2. CASE AskCancel
  <2>1. SharedTypes'
    BY <1>0, <1>2 DEF SharedTypes, AskCancel
  <2>2. ActorTypes' /\ at'[Canceller] = "asked" /\ OthersStay(Canceller)
    BY <1>0, <1>2 DEF ActorTypes, AskCancel, Goto, Places, OthersStay
  <2> QED
    BY <1>0, <1>1, <1>2, <2>1, <2>2, MoveBase DEF Writes, AskCancel
<1>3. CASE LoadToCancel
  <2>1. SharedTypes'
    BY <1>0, <1>3, TakesUpEffect DEF SharedTypes, LoadToCancel
  <2>2. ActorTypes' /\ op'[Canceller] = "cancelled" /\ OthersStay(Canceller)
    BY <1>0, <1>3 DEF SharedTypes, ActorTypes, LoadToCancel, Goto, Places, Ops, Terminal, Row,
       OthersStay
  <2> QED
    BY <1>0, <1>1, <1>3, <2>1, <2>2, MoveBase DEF Writes, LoadToCancel
<1>4. CASE RefuseCancel \/ CancelAgain
  <2>1. SharedTypes' /\ job' = job /\ Leave(Canceller) /\ at[Canceller] # "idle"
    BY <1>0, <1>4 DEF SharedTypes, RefuseCancel, CancelAgain, Terminal
  <2> QED
    BY <1>0, <1>1, <2>1, DoneBase
<1> QED
  BY <1>2, <1>3, <1>4

LEMMA FaultBase ==
    ASSUME BaseInv,
           (\E p \in Actors : Crash(p)) \/ (\E w \in Workers : ApplyFails(w))
    PROVE  BaseInv'
<1>0. SharedTypes /\ ActorTypes
  BY BaseParts
<1>1. CASE \E p \in Actors : Crash(p)
  <2>1. PICK p \in Actors : Crash(p)
    BY <1>1
  <2>2. SharedTypes' /\ job'.status # "absent" /\ Leave(p) /\ at[p] # "idle"
    BY <1>0, <2>1, AtWork, IntegrationAssumption DEF SharedTypes, Crash
  <2> QED
    BY <2>2, DoneBase
<1>2. CASE \E w \in Workers : ApplyFails(w)
  <2>1. PICK w \in Workers : ApplyFails(w)
    BY <1>2
  <2>2. w \in Actors /\ AfterError(w) \in Ops /\ AfterError(w) # "running"
    BY ActorFacts DEF AfterError, Ops, Waiting, Terminal
  <2>3. SharedTypes' /\ job'.status # "absent"
    BY <1>0, <2>1, <2>2, AtWork, IntegrationAssumption DEF SharedTypes, ApplyFails
  <2>4. ActorTypes' /\ op'[w] # "running" /\ OthersStay(w)
    BY <1>0, <2>1, <2>2 DEF ActorTypes, ApplyFails, Goto, Places, OthersStay
  <2> QED
    BY <2>2, <2>3, <2>4, MoveBase DEF Writes
<1> QED
  BY <1>1, <1>2

\* Heartbeats and time change flags of the row.
LEMMA ClockBase ==
    ASSUME BaseInv,
           LeasePasses \/ ProgressStops \/ FallsDue \/ \E w \in Workers : Heartbeat(w)
    PROVE  /\ BaseInv' /\ UNCHANGED <<invocation, at, op, external, dup, slips, outcome>>
           /\ job'.status = job.status /\ job'.worker = job.worker
<1>0. SharedTypes /\ ActorTypes
  BY BaseParts
<1>1. /\ job' \in Row /\ job'.status = job.status /\ job'.worker = job.worker
      /\ job.status # "absent"
  BY <1>0 DEF SharedTypes, Row, LeasePasses, ProgressStops, FallsDue, Heartbeat, Open
<1>2. UNCHANGED <<invocation, at, op, mem, tries, rounds, external, dup, slips, outcome>>
  BY DEF LeasePasses, ProgressStops, FallsDue, Heartbeat
<1>3. faults' \in 0 .. MaxFaults
  BY <1>0, IntegrationAssumption
  DEF SharedTypes, LeasePasses, ProgressStops, FallsDue, Heartbeat
<1>4. TypeOK'
  BY <1>1, <1>2, <1>3 DEF BaseInv, TypeOK
<1> QED
  BY <1>1, <1>2, <1>4 DEF BaseInv, NothingBeforeJob

LEMMA StutterBase ==
    ASSUME BaseInv, UNCHANGED vars
    PROVE  BaseInv'
BY DEF vars, BaseInv, TypeOK, NothingBeforeJob

LEMMA BaseStep ==
    ASSUME BaseInv, [Next]_vars
    PROVE  BaseInv'
<1>0. Workers \subseteq Actors /\ Handlers \subseteq Actors
      /\ Submitter \in Actors /\ Sweeper \in Actors /\ Canceller \in Actors
  BY ActorFacts
<1>1. CASE CreateJob \/ \E p \in Actors : Apply(p)
  BY <1>1, CreateBase, ApplyBase
<1>2. CASE \E w \in Workers : SelectJob(w) \/ ClaimJob(w) \/ ExecutorRaises(w)
  BY <1>2, SelectBase, ClaimBase, RaisesBase
<1>3. CASE \E w \in Workers : \E answer \in Transitions : ExecutorReturns(w, answer)
  BY <1>0, <1>3, AnswerBase DEF ExecutorReturns
<1>4. CASE \E h \in Handlers : \E answer \in Transitions : CallbackReturns(h, answer)
  BY <1>0, <1>4, AnswerBase DEF CallbackReturns
<1>5. CASE \E h \in Handlers : AcceptCallback(h) \/ CallbackRaises(h) \/ RecordFingerprint(h)
  BY <1>5, AcceptBase, CallbackRaisesBase, FingerprintBase
<1>6. CASE ListStuck \/ AskCancel \/ LoadToCancel \/ RefuseCancel \/ CancelAgain
  BY <1>6, ListBase, CancelBase
<1>7. CASE (\E p \in Actors : Crash(p)) \/ (\E w \in Workers : ApplyFails(w))
  BY <1>7, FaultBase
<1>8. CASE LeasePasses \/ ProgressStops \/ FallsDue \/ \E w \in Workers : Heartbeat(w)
  BY <1>8, ClockBase
<1>9. CASE UNCHANGED vars
  BY <1>9, StutterBase
<1> QED
  BY <1>0, <1>1, <1>2, <1>3, <1>4, <1>5, <1>6, <1>7, <1>8, <1>9
  DEF Next, WorkerStep, CallbackStep, CancelStep, Apply

-----------------------------------------------------------------------------
(* One actor at a time has the job.                                        *)

LEMMA HoldParts ==
    ASSUME HoldInv, Smooth
    PROVE  /\ Alone /\ RunningHeld /\ NotSubmitted /\ FirstStands /\ ~ dup
           /\ \A p \in Actors : SeesJob(p)
BY DEF HoldInv

Sole(p) == \A q \in Actors : q # p => ~ Busy(q)

\* A step of the one actor that has the job, or takes it up alone.
LEMMA SoleStep ==
    ASSUME HoldInv, NEW p \in Actors, OthersStay(p), Sole(p),
           RunningHeld', NotSubmitted', FirstStands', ~ dup', SeesJob(p)'
    PROVE  HoldInv'
<1>1. \A q \in Actors : q # p => at'[q] \in {"idle", "asked"}
  BY DEF Sole, Busy, OthersStay
<1>2. Alone'
  BY <1>1 DEF Alone, Busy
<1>3. \A q \in Actors : q # p => SeesJob(q)'
  BY <1>1 DEF SeesJob
<1> QED
  BY <1>2, <1>3 DEF HoldInv

\* Whoever has the job has it alone.
LEMMA BusySole ==
    ASSUME HoldInv, Smooth, NEW p \in Actors, Busy(p)
    PROVE  Sole(p)
BY HoldParts DEF Alone, Sole

\* Whoever takes the job up, outside all windows, takes it up alone: it is not running.
LEMMA TakesUpSole ==
    ASSUME BaseInv, HoldInv, Smooth', faults' = faults, NEW p \in Actors, TakesUp(p),
           job.status = "running" => ~ job.live \/ job.stale
    PROVE  Smooth /\ Sole(p) /\ job.status # "running"
<1>1. Smooth /\ \A q \in Actors : q # p => ~ InWindow(q)
  BY TakesUpEffect DEF Smooth
<1>2. job.status # "running"
  BY <1>1, HoldParts DEF RunningHeld
<1>3. \A q \in Actors : at[q] # "executing"
  BY <1>1, <1>2, HoldParts DEF SeesJob
<1> QED
  BY <1>1, <1>2, <1>3 DEF Sole, Busy, InWindow

\* No outcome yet while the job is open.
LEMMA OpenNoOutcome ==
    ASSUME BaseInv, FirstStands, job.status \notin Terminal
    PROVE  outcome = "none"
BY BaseParts DEF SharedTypes, FirstStands

LEMMA CreateHold ==
    ASSUME BaseInv, HoldInv, CreateJob
    PROVE  HoldInv'
<1> SUFFICES ASSUME Smooth' PROVE HoldInv'
  BY DEF HoldInv
<1>0. ActorTypes /\ Submitter \in Actors /\ Smooth /\ Submitter \notin Workers /\ Submitter # Canceller
  BY BaseParts, ActorFacts DEF CreateJob, Smooth
<1>1. external = "none" /\ outcome = "none" /\ \A p \in Actors : at[p] = "idle"
  BY DEF BaseInv, NothingBeforeJob, CreateJob
<1>2. /\ at'[Submitter] = "saved" /\ op'[Submitter] = "queued" /\ job'.status = "queued"
      /\ UNCHANGED <<external, outcome, dup>> /\ OthersStay(Submitter)
  BY <1>0 DEF ActorTypes, CreateJob, Goto, NewJob, OthersStay
<1>3. Sole(Submitter)
  BY <1>1 DEF Sole, Busy
<1>4. RunningHeld' /\ NotSubmitted' /\ FirstStands' /\ ~ dup'
  BY <1>0, <1>1, <1>2, HoldParts DEF RunningHeld, NotSubmitted, FirstStands, Terminal
<1>5. SeesJob(Submitter)'
  BY <1>0, <1>2 DEF SeesJob
<1> QED
  BY <1>0, <1>2, <1>3, <1>4, <1>5, SoleStep

LEMMA SelectHold ==
    ASSUME BaseInv, HoldInv, NEW w \in Workers, SelectJob(w)
    PROVE  HoldInv'
<1> SUFFICES ASSUME Smooth' PROVE HoldInv'
  BY DEF HoldInv
<1>0. ActorTypes /\ w \in Actors /\ w # Canceller
  BY BaseParts, ActorFacts
<1>1. Smooth /\ Sole(w) /\ job.status # "running"
  BY <1>0, TakesUpSole DEF SelectJob, Claimable
<1>2. job.status \in Resent \cup {"waiting_poll"}
  BY <1>1 DEF SelectJob, Claimable, Resent
<1>3. /\ at'[w] = "claiming" /\ op'[w] = job.status /\ OthersStay(w)
      /\ UNCHANGED <<job, invocation, external, outcome, dup>>
  BY <1>0 DEF ActorTypes, SelectJob, Goto, OthersStay
<1>4. NotSubmitted /\ FirstStands /\ ~ dup /\ outcome = "none"
  BY <1>1, <1>2, HoldParts, OpenNoOutcome DEF Resent, Terminal
<1>5. RunningHeld' /\ NotSubmitted' /\ FirstStands' /\ ~ dup'
  BY <1>1, <1>2, <1>3, <1>4 DEF RunningHeld, NotSubmitted, FirstStands, Resent, Terminal
<1>6. SeesJob(w)'
  BY <1>0, <1>2, <1>3 DEF SeesJob
<1> QED
  BY <1>0, <1>1, <1>3, <1>5, <1>6, SoleStep

LEMMA ClaimHold ==
    ASSUME BaseInv, HoldInv, NEW w \in Workers, ClaimJob(w)
    PROVE  HoldInv'
<1> SUFFICES ASSUME Smooth' PROVE HoldInv'
  BY DEF HoldInv
<1>0. SharedTypes /\ ActorTypes /\ w \in Actors /\ w # Canceller /\ Smooth
  BY BaseParts, ActorFacts DEF ClaimJob, Smooth
<1>1. Sole(w)
  BY <1>0, BusySole DEF ClaimJob, Busy
<1>2. SeesJob(w) /\ at[w] = "claiming"
  BY <1>0, HoldParts DEF ClaimJob
<1>3. op[w] = job.status /\ job.status \in Resent \cup {"waiting_poll"}
  BY <1>2 DEF SeesJob
<1>4. NotSubmitted /\ FirstStands /\ ~ dup /\ outcome = "none"
  BY <1>0, <1>3, HoldParts, OpenNoOutcome DEF Resent, Terminal
<1>5. op[w] # "running"
  BY <1>3 DEF Resent
<1>6. job'.status = "running" /\ job'.worker = w /\ job'.live /\ ~ job'.stale
  BY <1>0, <1>5 DEF SharedTypes, ClaimJob, Row
<1>7. at'[w] = "executing" /\ OthersStay(w) /\ UNCHANGED <<external, outcome>>
  BY <1>0 DEF ActorTypes, ClaimJob, Goto, OthersStay
<1>8. ~ dup'
  BY <1>3, <1>4 DEF ClaimJob, Polls, NotSubmitted
<1>9. RunningHeld' /\ NotSubmitted' /\ FirstStands'
  BY <1>4, <1>6, <1>7 DEF RunningHeld, NotSubmitted, FirstStands, Resent, Terminal
<1>10. SeesJob(w)'
  BY <1>0, <1>6, <1>7 DEF SeesJob
<1> QED
  BY <1>0, <1>1, <1>7, <1>8, <1>9, <1>10, SoleStep

\* The actor that has the job has decided on its next status.
LEMMA DecideHold ==
    ASSUME BaseInv, HoldInv, Smooth, NEW p \in Actors, p # Canceller, Busy(p),
           at'[p] = "decided", OthersStay(p), UNCHANGED <<job, outcome, dup>>,
           IF p \in Workers THEN at[p] = "executing" ELSE at[p] = "handling",
           op'[p] # "queued", op'[p] = "retry_scheduled" => external' \notin {"held", "done"}
    PROVE  HoldInv'
<1>1. Sole(p) /\ SeesJob(p) /\ RunningHeld /\ FirstStands /\ ~ dup
  BY BusySole, HoldParts
<1>2. IF p \in Workers THEN job.status = "running" /\ job.worker = p
                       ELSE job.status = "waiting_webhook"
  BY <1>1 DEF SeesJob
<1>3. outcome = "none"
  BY <1>1, <1>2, OpenNoOutcome DEF Terminal
<1>4. RunningHeld' /\ NotSubmitted' /\ FirstStands'
  BY <1>1, <1>2, <1>3 DEF RunningHeld, NotSubmitted, FirstStands, Resent, Terminal
<1>5. SeesJob(p)'
  BY <1>2 DEF SeesJob, Open, Terminal
<1> QED
  BY <1>1, <1>4, <1>5, SoleStep

LEMMA ExecutorHold ==
    ASSUME BaseInv, HoldInv, NEW w \in Workers,
           ExecutorRaises(w) \/ \E answer \in Transitions : ExecutorReturns(w, answer)
    PROVE  HoldInv'
<1> SUFFICES ASSUME Smooth' PROVE HoldInv'
  BY DEF HoldInv
<1>0. /\ ActorTypes /\ w \in Actors /\ w # Canceller /\ Smooth /\ at[w] = "executing"
      /\ UNCHANGED <<job, outcome, dup>>
  BY BaseParts, ActorFacts DEF ExecutorRaises, ExecutorReturns, Smooth
<1>1. CASE ExecutorRaises(w)
  <2>1. at'[w] = "decided" /\ OthersStay(w) /\ op'[w] = AfterError(w) /\ external' = "unsure"
    BY <1>0, <1>1 DEF ActorTypes, ExecutorRaises, Goto, OthersStay
  <2> QED
    BY <1>0, <2>1, DecideHold DEF AfterError, Busy
<1>2. CASE \E answer \in Transitions : ExecutorReturns(w, answer)
  <2>1. PICK answer \in Transitions : ExecutorReturns(w, answer)
    BY <1>2
  <2>2. at'[w] = "decided" /\ OthersStay(w) /\ op'[w] = answer /\ answer # "queued"
    BY <1>0, <2>1 DEF ActorTypes, ExecutorReturns, Goto, OthersStay, Transitions, Settling
  <2>3. answer = "retry_scheduled" => external' = "none"
    BY <2>1 DEF ExecutorReturns, Answers, Settling
  <2> QED
    BY <1>0, <2>2, <2>3, DecideHold DEF Busy
<1> QED
  BY <1>1, <1>2

LEMMA ApplyHold ==
    ASSUME BaseInv, HoldInv, NEW p \in Actors, Apply(p)
    PROVE  HoldInv'
<1> SUFFICES ASSUME Smooth' PROVE HoldInv'
  BY DEF HoldInv
<1>0. ActorTypes /\ Writes(p) /\ Smooth /\ UNCHANGED <<external, dup>> /\ Busy(p)
  BY BaseParts DEF Apply, LoadJob, SaveJob, SyncInvocation, Smooth, Busy
<1>1. /\ Sole(p) /\ SeesJob(p) /\ RunningHeld /\ NotSubmitted /\ FirstStands /\ ~ dup
      /\ ~ dup'
  BY <1>0, BusySole, HoldParts
<1>2. CASE LoadJob(p)
  <2>1. /\ at[p] = "decided" /\ at'[p] = "loaded" /\ op'[p] = op[p] /\ OthersStay(p)
        /\ UNCHANGED <<job, invocation, outcome>>
    BY <1>0, <1>2 DEF ActorTypes, LoadJob, Goto, OthersStay
  <2>2. Open(job) /\ outcome = "none"
    BY <1>1, <2>1, OpenNoOutcome DEF SeesJob, Open
  <2>3. RunningHeld'
    BY <1>1, <2>1, ActorFacts DEF RunningHeld, OthersStay
  <2>4. NotSubmitted' /\ FirstStands'
    BY <1>0, <1>1, <2>1, <2>2 DEF NotSubmitted, FirstStands, Open
  <2>5. SeesJob(p)'
    BY <1>0, <1>1, <2>1 DEF SeesJob, Open
  <2> QED
    BY <1>1, <2>1, <2>3, <2>4, <2>5, SoleStep
<1>3. CASE SaveJob(p)
  <2>1. /\ at[p] = "loaded" /\ at'[p] = "saved" /\ op'[p] = op[p] /\ OthersStay(p)
        /\ job' = Moved(op[p], mem[p]) /\ outcome' = Noted(op[p])
    BY <1>0, <1>3 DEF ActorTypes, SaveJob, Goto, OthersStay
  <2>2. Open(job) /\ outcome = "none"
    BY <1>1, <2>1, OpenNoOutcome DEF SeesJob, Open
  <2>3. job'.status = op[p] /\ op[p] # "running"
    BY <1>0, <2>1, MovedFacts DEF ActorTypes, Writes
  <2>4. RunningHeld'
    BY <2>3 DEF RunningHeld
  <2>5. NotSubmitted'
    BY <1>0, <1>1, <2>1, <2>3 DEF NotSubmitted, SeesJob, Resent
  <2>6. FirstStands'
    <3>1. InWindow(p)'
      BY <2>1 DEF InWindow
    <3>2. outcome' = IF job'.status \in Terminal THEN job'.status ELSE "none"
      BY <2>1, <2>2, <2>3 DEF Noted
    <3> QED
      BY <3>1, <3>2 DEF FirstStands, Terminal
  <2>7. SeesJob(p)'
    BY <1>1, <2>1, <2>3 DEF SeesJob
  <2> QED
    BY <1>1, <2>1, <2>4, <2>5, <2>6, <2>7, SoleStep
<1>4. CASE SyncInvocation(p)
  <2>1. /\ at[p] = "saved" /\ invocation' = op[p] /\ op[p] = job.status /\ op[p] # "running"
        /\ UNCHANGED <<job, outcome>>
    BY <1>0, <1>1, <1>4 DEF SyncInvocation, SeesJob, Writes
  <2>2. RunningHeld' /\ NotSubmitted' /\ FirstStands'
    BY <1>0, <1>1, <2>1 DEF RunningHeld, NotSubmitted, FirstStands
  <2>3. OthersStay(p) /\ SeesJob(p)'
    <3>1. CASE Leave(p)
      BY <3>1, LeaveEffect DEF SeesJob
    <3>2. CASE p = Canceller
      <4>1. OthersStay(p) /\ at'[p] = "again"
        BY <1>0, <1>4, <3>2 DEF ActorTypes, SyncInvocation, Resume, Goto, OthersStay
      <4>2. job'.status = "cancelled" /\ outcome' = "cancelled"
        BY <1>1, <2>1, <3>2 DEF SeesJob, FirstStands, Terminal
      <4> QED
        BY <4>1, <4>2 DEF SeesJob
    <3>3. CASE p \in Handlers
      <4>1. OthersStay(p) /\ at'[p] = "stamp" /\ op' = op /\ p # Canceller
        BY <1>0, <1>4, <3>3, ActorFacts DEF ActorTypes, SyncInvocation, Resume, Goto, OthersStay
      <4> QED
        BY <2>1, <4>1 DEF SeesJob
    <3> QED
      BY <1>4, <3>1, <3>2, <3>3 DEF SyncInvocation, Resume
  <2> QED
    BY <1>1, <2>2, <2>3, SoleStep
<1> QED
  BY <1>2, <1>3, <1>4 DEF Apply

LEMMA CallbackHold ==
    ASSUME BaseInv, HoldInv, NEW h \in Handlers,
           \/ AcceptCallback(h) \/ CallbackRaises(h) \/ RecordFingerprint(h)
           \/ \E answer \in Transitions : CallbackReturns(h, answer)
    PROVE  HoldInv'
<1> SUFFICES ASSUME Smooth' PROVE HoldInv'
  BY DEF HoldInv
<1>0. ActorTypes /\ h \in Actors /\ h # Canceller /\ h \notin Workers /\ faults' = faults
  BY BaseParts, ActorFacts
  DEF AcceptCallback, CallbackRaises, RecordFingerprint, CallbackReturns
<1>1. CASE AcceptCallback(h)
  <2>1. Smooth /\ Sole(h) /\ job.status = "waiting_webhook"
    BY <1>0, <1>1, TakesUpSole DEF AcceptCallback
  <2>2. /\ at'[h] = "handling" /\ OthersStay(h)
        /\ UNCHANGED <<job, invocation, external, dup, outcome>>
    BY <1>0, <1>1 DEF ActorTypes, AcceptCallback, Goto, OthersStay
  <2>3. FirstStands /\ ~ dup /\ outcome = "none"
    BY <2>1, HoldParts, OpenNoOutcome DEF Terminal
  <2>4. RunningHeld' /\ NotSubmitted' /\ FirstStands' /\ ~ dup'
    BY <2>1, <2>2, <2>3 DEF RunningHeld, NotSubmitted, FirstStands, Resent, Terminal
  <2>5. SeesJob(h)'
    BY <1>0, <2>1, <2>2 DEF SeesJob
  <2> QED
    BY <1>0, <2>1, <2>2, <2>4, <2>5, SoleStep
<1>2. CASE \E answer \in Transitions : CallbackReturns(h, answer)
  <2>1. PICK answer \in Transitions : CallbackReturns(h, answer)
    BY <1>2
  <2>2. /\ at[h] = "handling" /\ at'[h] = "decided" /\ OthersStay(h) /\ op'[h] = answer
        /\ answer # "queued" /\ Smooth /\ UNCHANGED <<job, outcome, dup>>
    BY <1>0, <2>1
    DEF ActorTypes, CallbackReturns, Goto, OthersStay, Transitions, Settling, Smooth
  <2>3. answer = "retry_scheduled" => external' = "none"
    BY <2>1 DEF CallbackReturns, Answers, Settling
  <2> QED
    BY <1>0, <2>2, <2>3, DecideHold DEF Busy
<1>3. CASE CallbackRaises(h)
  <2>1. /\ at[h] = "handling" /\ Leave(h) /\ Smooth
        /\ UNCHANGED <<job, invocation, external, dup, outcome>>
    BY <1>3 DEF CallbackRaises, Smooth
  <2>2. Sole(h) /\ SeesJob(h) /\ FirstStands /\ ~ dup
    BY <1>0, <2>1, BusySole, HoldParts DEF Busy
  <2>3. job.status = "waiting_webhook" /\ outcome = "none"
    BY <2>1, <2>2, OpenNoOutcome DEF SeesJob, Terminal
  <2>4. RunningHeld' /\ NotSubmitted' /\ FirstStands' /\ ~ dup'
    BY <2>1, <2>2, <2>3 DEF RunningHeld, NotSubmitted, FirstStands, Resent, Terminal
  <2>5. OthersStay(h) /\ SeesJob(h)'
    BY <1>0, <2>1, LeaveEffect DEF SeesJob
  <2> QED
    BY <1>0, <2>2, <2>4, <2>5, SoleStep
<1>4. CASE RecordFingerprint(h)
  <2>1. /\ at[h] = "stamp" /\ Leave(h) /\ Smooth /\ job' = Moved(op[h], mem[h])
        /\ UNCHANGED <<invocation, external, dup, outcome>>
    BY <1>4 DEF RecordFingerprint, Smooth
  <2>2. Sole(h) /\ SeesJob(h) /\ NotSubmitted /\ FirstStands /\ ~ dup /\ Writes(h)
    BY <1>0, <2>1, BusySole, HoldParts, BaseParts DEF Busy
  <2>3. /\ op[h] = job.status /\ op[h] # "running" /\ invocation = op[h]
        /\ job'.status = job.status
    BY <1>0, <2>1, <2>2, MovedFacts DEF SeesJob, Writes, ActorTypes
  <2>4. RunningHeld' /\ NotSubmitted' /\ FirstStands' /\ ~ dup'
    BY <2>1, <2>2, <2>3 DEF RunningHeld, NotSubmitted, FirstStands
  <2>5. OthersStay(h) /\ SeesJob(h)'
    BY <1>0, <2>1, LeaveEffect DEF SeesJob
  <2> QED
    BY <1>0, <2>2, <2>4, <2>5, SoleStep
<1> QED
  BY <1>1, <1>2, <1>3, <1>4

\* The sweep and a cancel take up a job that is open and not running.
LEMMA TakeAwayHold ==
    ASSUME BaseInv, HoldInv, Smooth, NEW p \in Actors, p \notin Workers, Sole(p), Open(job),
           job.status # "running", OthersStay(p),
           at'[p] \in {"decided", "loaded"}, op'[p] \in {"dead_lettered", "cancelled"},
           p = Canceller => op'[p] = "cancelled",
           UNCHANGED <<job, invocation, external, dup, outcome>>
    PROVE  HoldInv'
<1>1. NotSubmitted /\ FirstStands /\ ~ dup /\ outcome = "none"
  BY HoldParts, OpenNoOutcome DEF Open
<1>2. RunningHeld' /\ NotSubmitted' /\ FirstStands' /\ ~ dup'
  BY <1>1 DEF RunningHeld, NotSubmitted, FirstStands, Open
<1>3. SeesJob(p)'
  BY DEF SeesJob, Open
<1> QED
  BY <1>2, <1>3, SoleStep

LEMMA ListHold ==
    ASSUME BaseInv, HoldInv, ListStuck
    PROVE  HoldInv'
<1> SUFFICES ASSUME Smooth' PROVE HoldInv'
  BY DEF HoldInv
<1>0. ActorTypes /\ Sweeper \in Actors /\ Sweeper # Canceller /\ Sweeper \notin Workers
  BY BaseParts, ActorFacts
<1>1. Smooth /\ Sole(Sweeper) /\ job.status # "running" /\ Open(job)
  BY <1>0, TakesUpSole DEF ListStuck, Stuck
<1>2. /\ at'[Sweeper] = "decided" /\ op'[Sweeper] = "dead_lettered" /\ OthersStay(Sweeper)
      /\ UNCHANGED <<job, invocation, external, dup, outcome>>
  BY <1>0 DEF ActorTypes, ListStuck, Goto, OthersStay
<1> QED
  BY <1>0, <1>1, <1>2, TakeAwayHold

LEMMA CancelHold ==
    ASSUME BaseInv, HoldInv, LoadToCancel \/ CancelAgain
    PROVE  HoldInv'
<1> SUFFICES ASSUME Smooth' PROVE HoldInv'
  BY DEF HoldInv
<1>0. ActorTypes /\ Canceller \in Actors /\ Canceller \notin Workers /\ faults' = faults
  BY BaseParts, ActorFacts DEF LoadToCancel, CancelAgain
<1>1. CASE LoadToCancel
  <2>1. job.status # "running" /\ Open(job)
    BY <1>1 DEF LoadToCancel, Cancellable, Waiting, Open, Terminal
  <2>2. Smooth /\ Sole(Canceller)
    BY <1>0, <1>1, <2>1, TakesUpSole DEF LoadToCancel
  <2>3. /\ at'[Canceller] = "loaded" /\ op'[Canceller] = "cancelled" /\ OthersStay(Canceller)
        /\ UNCHANGED <<job, invocation, external, dup, outcome>>
    BY <1>0, <1>1 DEF ActorTypes, LoadToCancel, Goto, OthersStay
  <2> QED
    BY <1>0, <2>1, <2>2, <2>3, TakeAwayHold
<1>2. CASE CancelAgain
  <2>1. /\ at[Canceller] = "again" /\ Leave(Canceller) /\ Smooth /\ invocation' = "cancelled"
        /\ UNCHANGED <<job, external, dup, outcome>>
    BY <1>2 DEF CancelAgain, Smooth
  <2>2. Sole(Canceller) /\ SeesJob(Canceller) /\ NotSubmitted /\ FirstStands /\ ~ dup
    BY <1>0, <2>1, BusySole, HoldParts DEF Busy
  <2>3. job.status = "cancelled" /\ outcome = "cancelled"
    BY <2>1, <2>2 DEF SeesJob
  <2>4. RunningHeld' /\ NotSubmitted' /\ FirstStands' /\ ~ dup'
    BY <2>1, <2>2, <2>3 DEF RunningHeld, NotSubmitted, FirstStands
  <2>5. OthersStay(Canceller) /\ SeesJob(Canceller)'
    BY <1>0, <2>1, LeaveEffect DEF SeesJob
  <2> QED
    BY <1>0, <2>2, <2>4, <2>5, SoleStep
<1> QED
  BY <1>1, <1>2

\* A cancel that is asked for, or refused, touches nothing.
LEMMA AskHold ==
    ASSUME BaseInv, HoldInv, AskCancel \/ RefuseCancel
    PROVE  HoldInv'
<1> SUFFICES ASSUME Smooth' PROVE HoldInv'
  BY DEF HoldInv
<1>0. ActorTypes /\ Canceller \in Actors /\ Canceller \notin Workers /\ Smooth
      /\ UNCHANGED <<job, invocation, external, dup, outcome>>
  BY BaseParts, ActorFacts DEF AskCancel, RefuseCancel, Smooth
<1>1. /\ at[Canceller] \in {"idle", "asked"} /\ at'[Canceller] \in {"idle", "asked"}
      /\ OthersStay(Canceller)
  <2>1. CASE AskCancel
    BY <1>0, <2>1 DEF ActorTypes, AskCancel, Goto, OthersStay
  <2>2. CASE RefuseCancel
    BY <1>0, <2>2, LeaveEffect DEF RefuseCancel
  <2> QED
    BY <2>1, <2>2
<1>2. \A q \in Actors : Busy(q)' = Busy(q) /\ InWindow(q)' = InWindow(q)
  BY <1>1 DEF Busy, InWindow, OthersStay
<1>3. /\ Alone /\ RunningHeld /\ NotSubmitted /\ FirstStands /\ ~ dup
      /\ \A p \in Actors : SeesJob(p)
  BY <1>0, HoldParts
<1>4. Alone' /\ NotSubmitted' /\ FirstStands' /\ ~ dup'
  BY <1>0, <1>2, <1>3 DEF Alone, NotSubmitted, FirstStands
<1>5. RunningHeld'
  BY <1>0, <1>1, <1>3, ActorFacts DEF RunningHeld, OthersStay
<1>6. ASSUME NEW q \in Actors PROVE SeesJob(q)'
  BY <1>0, <1>1, <1>3 DEF SeesJob, Open, OthersStay
<1> QED
  BY <1>4, <1>5, <1>6 DEF HoldInv

LEMMA FaultHold ==
    ASSUME BaseInv, (\E p \in Actors : Crash(p)) \/ (\E w \in Workers : ApplyFails(w))
    PROVE  HoldInv'
<1>1. faults \in Nat
  BY BaseParts, IntegrationAssumption DEF SharedTypes
<1> QED
  BY <1>1 DEF Crash, ApplyFails, HoldInv, Smooth

\* In a smooth run neither a lease nor the sweep's patience ends under a worker.
LEMMA ClockHold ==
    ASSUME BaseInv, HoldInv,
           LeasePasses \/ ProgressStops \/ FallsDue \/ \E w \in Workers : Heartbeat(w)
    PROVE  HoldInv'
<1> SUFFICES ASSUME Smooth' PROVE HoldInv'
  BY DEF HoldInv
<1>0. faults \in Nat /\ SharedTypes
  BY BaseParts, IntegrationAssumption DEF SharedTypes
<1>1. /\ UNCHANGED <<invocation, at, op, external, dup, slips, outcome>>
      /\ job'.status = job.status /\ job'.worker = job.worker
  BY ClockBase
<1>2. /\ Smooth
      /\ LeasePasses \/ (ProgressStops /\ job.status = "running") => ~ Attended
  BY <1>0, <1>1 DEF LeasePasses, ProgressStops, FallsDue, Heartbeat, Smooth
<1>3. /\ Alone /\ RunningHeld /\ NotSubmitted /\ FirstStands /\ ~ dup
      /\ \A p \in Actors : SeesJob(p)
  BY <1>2, HoldParts
<1>4. job.status = "running" => Attended
  BY <1>3, ActorFacts DEF RunningHeld, Attended
<1>5. job.status = "running" => job'.live /\ ~ job'.stale
  <2>1. CASE \E w \in Workers : Heartbeat(w)
    BY <1>0, <2>1 DEF Heartbeat, SharedTypes, Row
  <2>2. CASE LeasePasses \/ ProgressStops
    BY <1>2, <1>4, <2>2 DEF LeasePasses
  <2>3. CASE FallsDue
    BY <2>3 DEF FallsDue
  <2> QED
    BY <2>1, <2>2, <2>3
<1>6. Alone' /\ RunningHeld' /\ NotSubmitted' /\ FirstStands' /\ ~ dup'
  BY <1>1, <1>3, <1>5
  DEF Alone, Busy, RunningHeld, NotSubmitted, FirstStands, InWindow
<1>7. ASSUME NEW q \in Actors PROVE SeesJob(q)'
  BY <1>1, <1>3 DEF SeesJob, Open
<1> QED
  BY <1>6, <1>7 DEF HoldInv

LEMMA StutterHold ==
    ASSUME HoldInv, UNCHANGED vars
    PROVE  HoldInv'
BY DEF vars, HoldInv, Smooth, Alone, Busy, RunningHeld, NotSubmitted, FirstStands, InWindow,
   SeesJob, Open

LEMMA HoldStep ==
    ASSUME BaseInv, HoldInv, [Next]_vars
    PROVE  HoldInv'
<1>0. Workers \subseteq Actors /\ Handlers \subseteq Actors
      /\ Submitter \in Actors /\ Sweeper \in Actors /\ Canceller \in Actors
  BY ActorFacts
<1>1. CASE CreateJob \/ \E p \in Actors : Apply(p)
  BY <1>1, CreateHold, ApplyHold
<1>2. CASE \E w \in Workers : SelectJob(w) \/ ClaimJob(w)
  BY <1>2, SelectHold, ClaimHold
<1>3. CASE \E w \in Workers :
              ExecutorRaises(w) \/ \E answer \in Transitions : ExecutorReturns(w, answer)
  BY <1>3, ExecutorHold
<1>4. CASE \E h \in Handlers :
              \/ AcceptCallback(h) \/ CallbackRaises(h) \/ RecordFingerprint(h)
              \/ \E answer \in Transitions : CallbackReturns(h, answer)
  BY <1>4, CallbackHold
<1>5. CASE ListStuck \/ AskCancel \/ LoadToCancel \/ RefuseCancel \/ CancelAgain
  BY <1>5, ListHold, AskHold, CancelHold
<1>6. CASE (\E p \in Actors : Crash(p)) \/ (\E w \in Workers : ApplyFails(w))
  BY <1>6, FaultHold
<1>7. CASE LeasePasses \/ ProgressStops \/ FallsDue \/ \E w \in Workers : Heartbeat(w)
  BY <1>7, ClockHold
<1>8. CASE UNCHANGED vars
  BY <1>8, StutterHold
<1> QED
  BY <1>0, <1>1, <1>2, <1>3, <1>4, <1>5, <1>6, <1>7, <1>8
  DEF Next, WorkerStep, CallbackStep, CancelStep, Apply

-----------------------------------------------------------------------------

\* Types, and one actor at a time while nobody slips or fails: the inductive
\* invariant of a deferred call.
THEOREM IntegrationInvariance == Spec => [](BaseInv /\ HoldInv)
<1>1. Init => HoldInv
  <2> SUFFICES ASSUME Init PROVE HoldInv
    OBVIOUS
  <2>1. job.status = "absent" /\ outcome = "none" /\ ~ dup /\ \A p \in Actors : at[p] = "idle"
    BY DEF Init, NewJob
  <2>2. Alone /\ RunningHeld /\ NotSubmitted /\ FirstStands
    BY <2>1 DEF Alone, Busy, RunningHeld, NotSubmitted, Resent, FirstStands, Terminal
  <2>3. \A p \in Actors : SeesJob(p)
    BY <2>1 DEF SeesJob
  <2> QED
    BY <2>1, <2>2, <2>3 DEF HoldInv
<1>2. Init => BaseInv
  BY InitBase
<1>3. BaseInv /\ HoldInv /\ [Next]_vars => BaseInv' /\ HoldInv'
  BY BaseStep, HoldStep
<1> QED
  BY <1>1, <1>2, <1>3, PTL DEF Spec

\* The row, the invocation and the actors' copies keep their types.
THEOREM IntegrationTypes == Spec => []TypeOK
<1>1. BaseInv => TypeOK
  BY DEF BaseInv
<1> QED
  BY <1>1, IntegrationInvariance, PTL

\* A worker that executes has the job to itself, for any number of workers and
\* handlers, as long as nobody slips or fails.
THEOREM HoldsExclusive == Spec => []HoldIsExclusive
<1>1. BaseInv /\ HoldInv => HoldIsExclusive
  <2> SUFFICES ASSUME BaseInv, HoldInv, Smooth, NEW w \in Workers, at[w] = "executing"
               PROVE  /\ job.status = "running" /\ job.worker = w /\ job.live /\ ~ job.stale
                      /\ \A p \in Actors \ {w} : ~ InWindow(p) /\ at[p] # "executing"
    BY DEF HoldIsExclusive
  <2>1. w \in Actors /\ Alone /\ RunningHeld /\ SeesJob(w)
    BY HoldParts, ActorFacts
  <2>2. job.status = "running" /\ job.worker = w /\ job.live /\ ~ job.stale
    BY <2>1 DEF SeesJob, RunningHeld
  <2> QED
    BY <2>1, <2>2 DEF Alone, Busy, InWindow
<1> QED
  BY <1>1, IntegrationInvariance, PTL

\* As long as nobody slips or fails, the first terminal status of the job is
\* the last and reaches the invocation, although no transition tests what it
\* overwrites.
THEOREM OutcomesStand == Spec => []OutcomeStands
<1>1. BaseInv /\ HoldInv => OutcomeStands
  BY HoldParts DEF OutcomeStands, FirstStands
<1> QED
  BY <1>1, IntegrationInvariance, PTL

\* As long as nobody slips or fails, what the provider has is polled and not
\* submitted again, unless the provider asked for that or a poll raised.
THEOREM SubmittedOnce == Spec => []NoResubmission
<1>1. BaseInv /\ HoldInv => NoResubmission
  BY HoldParts DEF NoResubmission
<1> QED
  BY <1>1, IntegrationInvariance, PTL

-----------------------------------------------------------------------------
(* The row is a table of leased work, of one item.                         *)

Life == [i \in {"job"} |-> LifeOf(job, Smooth)]

LEMMA OneLife == Life' = [Life EXCEPT !["job"] = LifeOf(job', Smooth')]
BY DEF Life

LEMMA SmoothLife ==
    ASSUME Smooth, Smooth'
    PROVE  /\ Life["job"] = LifeOf(job, TRUE)
           /\ Life' = [Life EXCEPT !["job"] = LifeOf(job', TRUE)]
<1>1. Smooth = TRUE /\ Smooth' = TRUE
  BY DEF Smooth
<1> QED
  BY <1>1, OneLife DEF Life

LEMMA LifePhase ==
    ASSUME NEW j, NEW calm
    PROVE  LifeOf(j, calm).phase = PhaseOf(j)
BY DEF LifeOf

LEMMA LifeFacts ==
    ASSUME NEW j \in Row, NEW calm \in BOOLEAN
    PROVE  /\ j.status = "absent" => LifeOf(j, calm) = Leases!Piece("absent", None, calm)
           /\ j.status \in Waiting => LifeOf(j, calm) = Leases!Piece("waiting", None, calm)
           /\ j.status = "running" => LifeOf(j, calm) = Leases!Piece("held", j.worker, calm)
           /\ j.status \in Terminal => LifeOf(j, calm) = Leases!Piece(j.status, None, calm)
           /\ j.status # "absent" =>
                 \E phase \in Leases!Phases \ {"absent"}, w \in Workers \cup {None} :
                    LifeOf(j, calm) = Leases!Piece(phase, w, calm)
<1> DEFINE holder == IF j.status = "running" THEN j.worker ELSE None
<1>1. /\ j.status = "absent" => PhaseOf(j) = "absent" /\ holder = None
      /\ j.status \in Waiting => PhaseOf(j) = "waiting" /\ holder = None
      /\ j.status = "running" => PhaseOf(j) = "held" /\ holder = j.worker
      /\ j.status \in Terminal => PhaseOf(j) = j.status /\ holder = None
      /\ j.status # "absent" => PhaseOf(j) \in Leases!Phases \ {"absent"}
      /\ holder \in Workers \cup {None}
  BY DEF PhaseOf, Row, Waiting, Terminal, Leases!Phases
<1>2. LifeOf(j, calm) = Leases!Piece(PhaseOf(j), holder, calm)
  BY DEF LifeOf, Leases!Piece
<1> HIDE DEF holder
<1> QED
  BY <1>1, <1>2

\* Whatever happens to an inserted job, it is not lost.
LEMMA InsertedStays ==
    ASSUME BaseInv, [Next]_vars, job.status # "absent"
    PROVE  job'.status # "absent"
<1>1. BaseInv' /\ ActorTypes
  BY BaseStep, BaseParts
<1>2. \A p \in Actors, n \in Nat : Moved(op[p], n).status # "absent"
  BY <1>1, MovedFacts DEF ActorTypes
<1>3. CASE \E w \in Workers : ClaimJob(w)
  BY <1>3, BaseParts DEF ClaimJob, SharedTypes, Row
<1>4. CASE (\E p \in Actors : SaveJob(p)) \/ (\E h \in Handlers : RecordFingerprint(h))
  BY <1>1, <1>2, <1>4, ActorFacts DEF SaveJob, RecordFingerprint, ActorTypes
<1>5. CASE LeasePasses \/ ProgressStops \/ FallsDue \/ \E w \in Workers : Heartbeat(w)
  BY <1>5, ClockBase
<1>6. CASE UNCHANGED job
  BY <1>6
<1>7. CASE CreateJob
  BY <1>7 DEF CreateJob
<1> QED
  BY <1>3, <1>4, <1>5, <1>6, <1>7, ActorFacts
  DEF Next, vars, WorkerStep, CallbackStep, CancelStep, Apply, SelectJob, ExecutorReturns,
      ExecutorRaises, LoadJob, SyncInvocation, AcceptCallback, CallbackReturns, CallbackRaises,
      ListStuck, AskCancel, LoadToCancel, RefuseCancel, CancelAgain, Crash, ApplyFails

\* Once an actor slipped or failed, the job goes anywhere but out of the table.
LEMMA UnsmoothDisturbs ==
    ASSUME BaseInv, [Next]_vars, ~ Smooth'
    PROVE  Leases!Next \/ Life' = Life
<1>1. job' \in Row /\ job \in Row
  BY BaseStep DEF BaseInv, TypeOK
<1>2. \E phase \in Leases!Phases, w \in Workers \cup {None} :
         /\ phase = "absent" => job.status = "absent"
         /\ LifeOf(job', FALSE) = Leases!Piece(phase, w, FALSE)
  <2>1. CASE job'.status = "absent"
    <3>1. LifeOf(job', FALSE) = Leases!Piece("absent", None, FALSE) /\ job.status = "absent"
      BY <1>1, <2>1, LifeFacts, InsertedStays
    <3> QED
      BY <3>1 DEF Leases!Phases
  <2>2. CASE job'.status # "absent"
    BY <1>1, <2>2, LifeFacts
  <2> QED
    BY <2>1, <2>2
<1>3. job.status = "absent" => Life["job"].phase = "absent"
  <2>1. Life["job"] = LifeOf(job, Smooth)
    BY DEF Life
  <2>2. LifeOf(job, Smooth).phase = PhaseOf(job)
    BY LifePhase
  <2>3. job.status = "absent" => PhaseOf(job) = "absent"
    BY DEF PhaseOf, Waiting
  <2> QED
    BY <2>1, <2>2, <2>3
<1>4. Life' = [Life EXCEPT !["job"] = LifeOf(job', FALSE)]
  <2>1. Smooth' = FALSE
    BY DEF Smooth
  <2> QED
    BY <2>1, OneLife
<1>5. Leases!Disturb("job")
  BY <1>2, <1>3, <1>4 DEF Leases!Disturb, Leases!Becomes, Life
<1> QED
  BY <1>5 DEF Leases!Next

\* A step of a smooth run that leaves the status, and the worker of a running job.
LEMMA SameLife ==
    ASSUME Smooth, Smooth', job'.status = job.status,
           job.status = "running" => job'.worker = job.worker
    PROVE  Life' = Life
<1>1. PhaseOf(job') = PhaseOf(job)
  BY DEF PhaseOf
<1>2. Smooth' = Smooth
  BY DEF Smooth
<1> QED
  BY <1>1, <1>2 DEF Life, LifeOf

\* In a smooth run the status that is saved is given by the holder, or to a
\* job that waits.
LEMMA SaveIsLeased ==
    ASSUME BaseInv, HoldInv, Smooth, Smooth', NEW p \in Actors, SaveJob(p)
    PROVE  Leases!Next \/ Life' = Life
<1>0. job \in Row /\ job' \in Row /\ ActorTypes /\ Writes(p) /\ RunningHeld
  <2>1. BaseInv'
    BY ApplyBase DEF Apply
  <2> QED
    BY <2>1, BaseParts, HoldParts DEF BaseInv, TypeOK
<1>1. Sole(p) /\ SeesJob(p) /\ at[p] = "loaded" /\ job'.status = op[p] /\ op[p] # "running"
      /\ op[p] \in Waiting \cup Terminal
  BY <1>0, BusySole, HoldParts, MovedFacts DEF SaveJob, Busy, ActorTypes, Writes, Ops
<1>2. Life' = [Life EXCEPT !["job"] = LifeOf(job', TRUE)]
  BY SmoothLife
<1>3. \E phase \in {"waiting"} \cup Terminal : LifeOf(job', TRUE) = Leases!Piece(phase, None, TRUE)
  BY <1>0, <1>1, LifeFacts
<1>4. CASE p \in Workers
  <2>1. job.status = "running" /\ job.worker = p
    BY <1>1, <1>4 DEF SeesJob
  <2>2. Life["job"] = Leases!Piece("held", p, TRUE)
    BY <1>0, <2>1, LifeFacts, SmoothLife
  <2>3. Leases!GiveBack("job", p)
    BY <1>2, <1>3, <2>2 DEF Leases!GiveBack, Leases!Becomes, Life
  <2> QED
    BY <1>4, <2>3 DEF Leases!Next
<1>5. CASE p \notin Workers
  <2>1. job.status # "running"
    BY <1>0, <1>1, <1>5, ActorFacts DEF RunningHeld, Sole, Busy
  <2>2. job.status \in Waiting
    BY <1>0, <1>1, <2>1 DEF SeesJob, Open, Row
  <2>3. Life["job"] = Leases!Piece("waiting", None, TRUE)
    BY <1>0, <2>2, LifeFacts, SmoothLife
  <2>4. CASE job'.status \in Waiting
    <3>1. LifeOf(job', TRUE) = Leases!Piece("waiting", None, TRUE)
      BY <1>0, <2>4, LifeFacts
    <3> QED
      BY <1>2, <2>3, <3>1 DEF Life
  <2>5. CASE job'.status \in Terminal
    <3>1. LifeOf(job', TRUE) = Leases!Piece(job'.status, None, TRUE)
      BY <1>0, <2>5, LifeFacts
    <3>2. Life["job"].calm /\ Life["job"].phase \in {"waiting"}
      BY <2>3 DEF Leases!Piece
    <3>3. Leases!Withdraw("job")
      BY <1>2, <2>5, <3>1, <3>2 DEF Leases!Withdraw, Leases!Becomes, Life
    <3> QED
      BY <3>3 DEF Leases!Next
  <2> QED
    BY <1>1, <2>4, <2>5
<1> QED
  BY <1>4, <1>5

LEMMA ClaimIsLeased ==
    ASSUME BaseInv, HoldInv, Smooth, Smooth', NEW w \in Workers, ClaimJob(w)
    PROVE  Leases!Next
<1>0. job \in Row /\ job' \in Row /\ w \in Actors
  BY ClaimBase, ActorFacts DEF BaseInv, TypeOK
<1>1. job.status \in Waiting /\ op[w] # "running"
  BY <1>0, HoldParts DEF SeesJob, ClaimJob, Resent, Waiting
<1>2. job'.status = "running" /\ job'.worker = w
  BY <1>0, <1>1 DEF ClaimJob, Row
<1>3. Life' = [Life EXCEPT !["job"] = LifeOf(job', TRUE)]
  BY SmoothLife
<1>4. LifeOf(job', TRUE) = Leases!Piece("held", w, TRUE)
  BY <1>0, <1>2, LifeFacts
<1>5. Life["job"] = Leases!Piece("waiting", None, TRUE)
  BY <1>0, <1>1, LifeFacts, SmoothLife
<1>6. Leases!Take("job", w)
  BY <1>3, <1>4, <1>5 DEF Leases!Take, Leases!Becomes, Life
<1> QED
  BY <1>6 DEF Leases!Next

LEMMA CreateIsLeased ==
    ASSUME BaseInv, Smooth, Smooth', CreateJob
    PROVE  Leases!Next
<1>0. job \in Row /\ job' \in Row /\ job.status = "absent" /\ job'.status \in Waiting
  BY CreateBase DEF BaseInv, TypeOK, CreateJob, NewJob, Waiting
<1>1. Life' = [Life EXCEPT !["job"] = LifeOf(job', TRUE)]
  BY SmoothLife
<1>2. /\ LifeOf(job', TRUE) = Leases!Piece("waiting", None, TRUE)
      /\ Life["job"] = Leases!Piece("absent", None, TRUE)
  BY <1>0, LifeFacts, SmoothLife
<1>3. Leases!Submit("job")
  BY <1>1, <1>2 DEF Leases!Submit, Leases!Becomes, Life
<1> QED
  BY <1>3 DEF Leases!Next

\* The deferred job, however many workers, webhooks, sweeps and cancels act on
\* it, is leased work: a worker that holds it is alone to move it, others only
\* end it while it waits, and it can come to harm only by a fault or by two
\* actors inside one load-to-save window.
THEOREM JobIsLeasedWork == Spec => LeasedWorkHolds
<1>1. Init => Leases!Init
  <2> SUFFICES ASSUME Init PROVE Life = [i \in {"job"} |-> Leases!Piece("absent", None, TRUE)]
    BY DEF Leases!Init, Life, LifeOf
  <2>1. job \in Row /\ job.status = "absent" /\ Smooth
    BY InitBase, BaseParts DEF SharedTypes, Init, NewJob, Smooth
  <2>2. LifeOf(job, TRUE) = Leases!Piece("absent", None, TRUE)
    BY <2>1, LifeFacts
  <2> QED
    BY <2>1, <2>2 DEF Life, LifeOf
<1>2. ASSUME BaseInv, HoldInv, [Next]_vars, Smooth, Smooth'
      PROVE  Leases!Next \/ Life' = Life
  <2>1. CASE CreateJob
    BY <1>2, <2>1, CreateIsLeased
  <2>2. CASE \E w \in Workers : ClaimJob(w)
    BY <1>2, <2>2, ClaimIsLeased
  <2>3. CASE \E p \in Actors : SaveJob(p)
    BY <1>2, <2>3, SaveIsLeased
  <2>4. CASE \E h \in Handlers : RecordFingerprint(h)
    <3>1. PICK h \in Handlers : RecordFingerprint(h)
      BY <2>4
    <3>2. h \in Actors /\ ActorTypes /\ SeesJob(h) /\ Writes(h)
      BY <1>2, ActorFacts, BaseParts, HoldParts
    <3>3. job'.status = job.status /\ job.status # "running"
      BY <3>1, <3>2, MovedFacts DEF RecordFingerprint, SeesJob, Writes, ActorTypes
    <3> QED
      BY <1>2, <3>3, SameLife
  <2>5. CASE LeasePasses \/ ProgressStops \/ FallsDue \/ \E w \in Workers : Heartbeat(w)
    BY <1>2, <2>5, ClockBase, SameLife
  <2>6. CASE UNCHANGED job
    BY <1>2, <2>6, SameLife
  <2> QED
    BY <1>2, <2>1, <2>2, <2>3, <2>4, <2>5, <2>6, ActorFacts
    DEF Next, vars, WorkerStep, CallbackStep, CancelStep, Apply, SelectJob, ExecutorReturns,
        ExecutorRaises, LoadJob, SyncInvocation, AcceptCallback, CallbackReturns, CallbackRaises,
        ListStuck, AskCancel, LoadToCancel, RefuseCancel, CancelAgain, Crash, ApplyFails
<1>3. ASSUME BaseInv, [Next]_vars, Smooth' PROVE Smooth
  <2>1. faults \in Nat /\ slips \in Nat
    BY <1>3, BaseParts, IntegrationAssumption DEF SharedTypes
  <2>2. faults' \in {faults, faults + 1} /\ slips' \in {slips, slips + 1}
    BY <1>3, <2>1
    DEF Next, vars, WorkerStep, CallbackStep, CancelStep, Apply, CreateJob, SelectJob, ClaimJob,
        ExecutorReturns, ExecutorRaises, LoadJob, SaveJob, SyncInvocation, AcceptCallback,
        CallbackReturns, CallbackRaises, RecordFingerprint, ListStuck, AskCancel, LoadToCancel,
        RefuseCancel, CancelAgain, Crash, ApplyFails, Heartbeat, LeasePasses, ProgressStops,
        FallsDue, TakesUp
  <2> QED
    BY <1>3, <2>1, <2>2 DEF Smooth
<1>4. BaseInv /\ HoldInv /\ [Next]_vars => Leases!Next \/ Life' = Life
  BY <1>2, <1>3, UnsmoothDisturbs
<1>5. BaseInv /\ HoldInv /\ [Next]_vars => [Leases!Next]_[i \in {"job"} |-> LifeOf(job, Smooth)]
  BY <1>4 DEF Life
<1> QED
  BY <1>1, <1>5, IntegrationInvariance, PTL DEF Spec, LeasedWorkHolds, Leases!Spec

=============================================================================
