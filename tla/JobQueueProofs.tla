--------------------------- MODULE JobQueueProofs ---------------------------
(***************************************************************************)
(* Proofs about JobQueue, for any number of jobs, workers, keys, attempts  *)
(* and any lease, delay and batch size.                                    *)
(***************************************************************************)
EXTENDS JobQueue, FiniteSetTheorems, TLAPS

\* A worker handles a job that is in the table, and owns its row unless a
\* lease on it ran out.
OwnsOrReclaimed ==
    \A w \in Workers : worker[w].pc \in {"run", "complete", "fail"} =>
        /\ worker[w].job \in Jobs
        /\ ~Absent(worker[w].job)
        /\ Owns(w, worker[w].job) \/ reclaims[worker[w].job] > 0

\* What the read of complete or fail left behind stays true of the row until
\* the write, whatever other workers did to it in between.
ReadStillTrue ==
    \A w \in Workers :
        /\ worker[w].pc = "complete" => worker[w].job \in returned
        /\ worker[w].pc = "fail" =>
              /\ worker[w].seen <= jobs[worker[w].job].attempt_count
              /\ ~worker[w].retryable => worker[w].job \in fatal

\* run_once claims only while its batch lasts.
BatchLasts == \A w \in Workers : worker[w].pc = "claim" => worker[w].left > 0

\* The inductive invariant.
IInv == /\ TypeOK
        /\ RunningIsLeased
        /\ OwnsOrReclaimed
        /\ ReadStillTrue
        /\ BatchLasts
        /\ DeadIsJustified
        /\ SuccessIsEarned

-----------------------------------------------------------------------------
(* What the operators on rows and processes return *)

\* next_retry_at gives an instant.
LEMMA BackoffType == ASSUME NEW n \in Nat PROVE Backoff(n) \in Int
<1> DEFINE e == IF n > 1 THEN n - 1 ELSE 0
<1>1. e \in Nat
  OBVIOUS
<1>2. 2 ^ e \in Int
  BY <1>1, SMT
<1> QED
  BY <1>2, BoundsAssumption DEF Backoff

\* A freshly enqueued job is a row.
LEMMA NewRowType ==
  ASSUME NEW t \in {"task", "tick"}, NEW k \in Keys \cup Slots \cup {None},
         NEW p \in Int, NEW n \in Nat \ {0}, NEW at \in Int
  PROVE  NewRow(t, k, p, n, at) \in Row
BY DEF NewRow, Row, Active, Finished

\* claim_next, complete and fail turn rows into rows.
LEMMA WrittenRowType ==
  ASSUME NEW r \in Row, NEW w \in Workers, NEW seen \in Nat, NEW retryable \in BOOLEAN
  PROVE  /\ ClaimedRow(r, w) \in Row
         /\ CompletedRow(r) \in Row
         /\ FailedRow(r, seen, retryable) \in Row
<1>1. ClaimedRow(r, w) \in Row
  <2>1. Now + LeaseSeconds \in Int /\ r.attempt_count + 1 \in Nat
    BY BoundsAssumption DEF Row, Now
  <2>2. \A l \in Int, n \in Nat :
           [r EXCEPT !.status = "running", !.worker_id = w,
                     !.lease_expires_at = l, !.attempt_count = n] \in Row
    BY DEF Row, Active, Finished
  <2> QED
    BY <2>1, <2>2 DEF ClaimedRow
<1>2. CompletedRow(r) \in Row
  BY DEF CompletedRow, Row, Active, Finished
<1>3. FailedRow(r, seen, retryable) \in Row
  <2>1. Now + Backoff(seen) \in Int
    BY BackoffType DEF Now
  <2>2. \A t \in Int : [r EXCEPT !.status = "queued", !.worker_id = None,
                          !.lease_expires_at = None, !.run_at = t] \in Row
    BY DEF Row, Active, Finished
  <2>3. [r EXCEPT !.status = "dead", !.worker_id = None, !.lease_expires_at = None] \in Row
    BY DEF Row, Active, Finished
  <2> QED
    BY <2>1, <2>2, <2>3 DEF FailedRow
<1> QED
  BY <1>1, <1>2, <1>3

\* Time passing turns instants into instants and changes nothing else of a row.
AgedRow(r) == [r EXCEPT !.run_at = Age(@),
                        !.lease_expires_at = IF @ = None THEN None ELSE Age(@)]

\* An aged row is a row with the same status, owner and attempts.
LEMMA AgedRowFacts ==
  ASSUME NEW r \in Row
  PROVE  /\ AgedRow(r) \in Row
         /\ AgedRow(r).status = r.status
         /\ AgedRow(r).worker_id = r.worker_id
         /\ AgedRow(r).attempt_count = r.attempt_count
         /\ AgedRow(r).max_attempts = r.max_attempts
         /\ r.lease_expires_at # None => AgedRow(r).lease_expires_at # None
<1>1. \A t \in Int : Age(t) \in Int
  BY BoundsAssumption DEF Age
<1>2. r.run_at \in Int /\ r.lease_expires_at \in Int \cup {None}
  BY DEF Row
<1>3. (IF r.lease_expires_at = None THEN None ELSE Age(r.lease_expires_at)) \in Int \cup {None}
  BY <1>1, <1>2
<1>4. AgedRow(r) \in Row
  BY <1>1, <1>2, <1>3 DEF AgedRow, Row
<1>5. r.lease_expires_at # None => AgedRow(r).lease_expires_at # None
  BY <1>1, <1>2, NamesAssumption DEF AgedRow, Row
<1> QED
  BY <1>4, <1>5 DEF AgedRow, Row

-----------------------------------------------------------------------------
(* Steps after which a worker handles no job *)

Released(w) == /\ worker' \in [Workers -> Process]
               /\ worker'[w].pc \notin {"run", "complete", "fail"}
               /\ worker'[w].pc = "claim" => worker'[w].left > 0
               /\ \A v \in Workers \ {w} : worker'[v] = worker[v]

\* A process outside a job.
LEMMA IdleType == Idle \in Process
<1>1. 0 \in Slots /\ 0 \in 0 .. BatchSize /\ 0 \in Nat
  BY BoundsAssumption DEF Slots
<1> QED
  BY <1>1 DEF Idle, Process

\* The three ways back to the loop of run_once and run_forever release the job.
LEMMA GotoReleases ==
  ASSUME TypeOK, NEW w \in Workers, NEW pc \in {"poll", "down"}, Goto(w, pc)
  PROVE  Released(w)
<1> DEFINE p == [Idle EXCEPT !.pc = pc]
<1>1. p \in Process /\ p.pc = pc
  BY IdleType DEF Process
<1> QED
  BY <1>1 DEF TypeOK, Goto, Released

\* Going on to the next job of the batch releases the job at hand.
LEMMA NextInBatchReleases ==
  ASSUME TypeOK, NEW w \in Workers, NextInBatch(w)
  PROVE  Released(w)
<1> DEFINE pc == IF worker[w].left = 0 THEN "poll" ELSE "claim"
           p == [Idle EXCEPT !.pc = pc, !.left = worker[w].left]
<1>1. worker[w].left \in 0 .. BatchSize
  BY DEF TypeOK, Process
<1>2. p \in Process /\ p.pc = pc /\ p.left = worker[w].left
  BY <1>1, IdleType DEF Process
<1>3. worker' = [worker EXCEPT ![w] = p]
  BY DEF NextInBatch
<1>4. p.pc = "claim" => p.left > 0
  BY <1>1, <1>2, BoundsAssumption
<1> QED
  BY <1>2, <1>3, <1>4 DEF TypeOK, Released

\* So does going back to the poll of run_forever.
LEMMA PollReleases ==
  ASSUME TypeOK, NEW w \in Workers, Poll(w)
  PROVE  Released(w)
<1> DEFINE pc == IF HasJob("tick", slot) THEN "claim" ELSE "insert"
           s == IF HasJob("tick", slot) THEN 0 ELSE slot
           p == [Idle EXCEPT !.pc = pc, !.slot = s, !.left = BatchSize]
<1>1. s \in Slots /\ BatchSize \in 0 .. BatchSize
  BY BoundsAssumption DEF TypeOK, Slots
<1>2. p \in Process /\ p.pc = pc /\ p.left = BatchSize
  BY <1>1, IdleType DEF Process
<1>3. worker' = [worker EXCEPT ![w] = p]
  BY DEF Poll
<1> QED
  BY <1>2, BoundsAssumption, <1>3 DEF TypeOK, Released

\* Releasing a job while the table and the histories stay as they are keeps the
\* invariant.
LEMMA ReleaseKeepsIInv ==
  ASSUME IInv, NEW w \in Workers, Released(w),
         UNCHANGED <<jobs, reclaims, returned, fatal, slot, slot_at>>,
         draining' \subseteq draining, faults' \in Nat
  PROVE  IInv'
<1> USE DEF IInv
<1>1. TypeOK'
  BY DEF TypeOK, Released
<1>2. RunningIsLeased' /\ DeadIsJustified' /\ SuccessIsEarned'
  BY DEF RunningIsLeased, DeadIsJustified, SuccessIsEarned
<1>3. OwnsOrReclaimed'
  BY DEF OwnsOrReclaimed, Released, Owns, Absent
<1>4. ReadStillTrue'
  BY DEF ReadStillTrue, Released
<1>5. BatchLasts'
  BY DEF BatchLasts, Released
<1> QED
  BY <1>1, <1>2, <1>3, <1>4, <1>5

-----------------------------------------------------------------------------
(* Steps that write a row *)

\* A new row at an absent id: no worker handles that id.
LEMMA InsertKeepsTable ==
  ASSUME IInv, NEW j \in Jobs, Absent(j), NEW row \in Row,
         row.status = "queued",
         jobs' = [jobs EXCEPT ![j] = row],
         UNCHANGED <<reclaims, returned, fatal>>
  PROVE  /\ jobs' \in [Jobs -> Row]
         /\ RunningIsLeased' /\ DeadIsJustified' /\ SuccessIsEarned'
         /\ \A i \in Jobs : ~Absent(i) => jobs'[i] = jobs[i]
<1>1. jobs' \in [Jobs -> Row]
  BY DEF IInv, TypeOK
<1>2. \A i \in Jobs : jobs'[i] = IF i = j THEN row ELSE jobs[i]
  BY DEF IInv, TypeOK
<1>3. RunningIsLeased' /\ DeadIsJustified' /\ SuccessIsEarned'
  BY <1>2 DEF IInv, RunningIsLeased, DeadIsJustified, SuccessIsEarned
<1> QED
  BY <1>1, <1>2, <1>3

\* A producer's enqueue keeps the invariant.
LEMMA EnqueueKeepsIInv ==
  ASSUME IInv, NEW j \in Jobs, NEW key \in Keys \cup {None}, NEW p \in Priorities,
         Enqueue(j, key, p)
  PROVE  IInv'
<1> DEFINE row == NewRow("task", key, p, TaskAttempts, Now)
<1>1. row \in Row /\ row.status = "queued"
  BY NewRowType, BoundsAssumption, NamesAssumption DEF NewRow, Now
<1>2. /\ Absent(j)
      /\ jobs' = [jobs EXCEPT ![j] = row]
      /\ UNCHANGED <<worker, draining, slot, slot_at, faults, reclaims, returned, fatal>>
  BY DEF Enqueue, clockVars, historyVars
<1> HIDE DEF row
<1>3. /\ jobs' \in [Jobs -> Row]
      /\ RunningIsLeased' /\ DeadIsJustified' /\ SuccessIsEarned'
      /\ \A i \in Jobs : ~Absent(i) => jobs'[i] = jobs[i]
  BY <1>1, <1>2, InsertKeepsTable
<1>4. TypeOK'
  BY <1>2, <1>3 DEF IInv, TypeOK
<1>5. OwnsOrReclaimed'
  BY <1>2, <1>3 DEF IInv, OwnsOrReclaimed, Owns, Absent
<1>6. ReadStillTrue'
  BY <1>2, <1>3 DEF IInv, OwnsOrReclaimed, ReadStillTrue
<1>7. BatchLasts'
  BY <1>2 DEF IInv, BatchLasts
<1> QED
  BY <1>3, <1>4, <1>5, <1>6, <1>7 DEF IInv

\* So does the insert of a recurring tick.
LEMMA InsertTickKeepsIInv ==
  ASSUME IInv, NEW w \in Workers, NEW j \in Jobs, InsertTick(w, j)
  PROVE  IInv'
<1> DEFINE key == worker[w].slot
           row == NewRow("tick", key, 0, 1, slot_at[key])
<1>1. key \in Slots /\ slot_at[key] \in Int
  BY DEF IInv, TypeOK, Process
<1>2. row \in Row /\ row.status = "queued"
  BY <1>1, NewRowType DEF NewRow
<1>3. /\ Absent(j)
      /\ jobs' = [jobs EXCEPT ![j] = row]
      /\ NextInBatch(w)
      /\ UNCHANGED <<draining, slot, slot_at, faults, reclaims, returned, fatal>>
  BY DEF InsertTick, clockVars, historyVars
<1> HIDE DEF row
<1>4. /\ jobs' \in [Jobs -> Row]
      /\ RunningIsLeased' /\ DeadIsJustified' /\ SuccessIsEarned'
      /\ \A i \in Jobs : ~Absent(i) => jobs'[i] = jobs[i]
  BY <1>2, <1>3, InsertKeepsTable
<1>5. Released(w)
  BY <1>3, NextInBatchReleases DEF IInv
<1>6. TypeOK'
  BY <1>3, <1>4, <1>5 DEF IInv, TypeOK, Released
<1>7. OwnsOrReclaimed'
  BY <1>3, <1>4, <1>5 DEF IInv, OwnsOrReclaimed, Owns, Absent, Released
<1>8. ReadStillTrue'
  BY <1>3, <1>4, <1>5 DEF IInv, OwnsOrReclaimed, ReadStillTrue, Released
<1>9. BatchLasts'
  BY <1>5 DEF IInv, BatchLasts, Released
<1> QED
  BY <1>4, <1>6, <1>7, <1>8, <1>9 DEF IInv

\* A claim takes a row from its owner only when the owner's lease ran out.
LEMMA ClaimKeepsIInv ==
  ASSUME IInv, NEW w \in Workers, NEW j \in Jobs, Claim(w, j)
  PROVE  IInv'
<1> DEFINE row == ClaimedRow(jobs[j], w)
<1>1. /\ Claimable(j)
      /\ jobs' = [jobs EXCEPT ![j] = row]
      /\ reclaims' = [reclaims EXCEPT ![j] = IF Expired(j) THEN reclaims[j] + 1 ELSE reclaims[j]]
      /\ worker[w].pc = "claim"
      /\ worker' = [worker EXCEPT ![w].pc = "run", ![w].job = j, ![w].left = worker[w].left - 1]
      /\ UNCHANGED <<draining, slot, slot_at, faults, returned, fatal>>
  BY DEF Claim, clockVars, historyVars
<1>2. row \in Row
  BY WrittenRowType DEF IInv, TypeOK
<1>3. /\ row.status = "running" /\ row.worker_id = w /\ row.lease_expires_at \in Int
      /\ row.attempt_count = jobs[j].attempt_count + 1
  BY BoundsAssumption DEF IInv, TypeOK, Row, ClaimedRow, Now
<1>4. ~Absent(j)
  BY <1>1 DEF Claimable, Due, Expired, Absent
<1> HIDE DEF row
<1>5. \A i \in Jobs : jobs'[i] = IF i = j THEN row ELSE jobs[i]
  BY <1>1 DEF IInv, TypeOK
<1>6. \A i \in Jobs : reclaims'[i] \in Nat /\ reclaims'[i] >= reclaims[i]
  BY <1>1 DEF IInv, TypeOK
<1>7. /\ worker'[w].pc = "run" /\ worker'[w].job = j
      /\ \A v \in Workers \ {w} : worker'[v] = worker[v]
  BY <1>1 DEF IInv, TypeOK, Process
<1>8. TypeOK'
  <2>1. worker[w].left - 1 \in 0 .. BatchSize
    BY <1>1, BoundsAssumption DEF IInv, TypeOK, Process, BatchLasts
  <2>2. worker' \in [Workers -> Process]
    BY <1>1, <2>1 DEF IInv, TypeOK, Process
  <2>3. reclaims' \in [Jobs -> Nat]
    BY <1>1 DEF IInv, TypeOK
  <2>4. jobs' \in [Jobs -> Row]
    BY <1>1, <1>2 DEF IInv, TypeOK
  <2> QED
    BY <1>1, <2>2, <2>3, <2>4 DEF IInv, TypeOK
<1>9. RunningIsLeased' /\ DeadIsJustified' /\ SuccessIsEarned'
  BY <1>1, <1>3, <1>5, NamesAssumption
     DEF IInv, RunningIsLeased, DeadIsJustified, SuccessIsEarned
<1>10. OwnsOrReclaimed'
  <2> SUFFICES ASSUME NEW v \in Workers, worker'[v].pc \in {"run", "complete", "fail"}
               PROVE  /\ worker'[v].job \in Jobs
                      /\ ~Absent(worker[v].job)'
                      /\ Owns(v, worker[v].job)' \/ reclaims'[worker'[v].job] > 0
    BY DEF OwnsOrReclaimed
  <2>1. CASE v = w
    BY <2>1, <1>3, <1>5, <1>7 DEF Owns, Absent
  <2>2. CASE v # w /\ worker[v].job # j
    BY <2>2, <1>5, <1>6, <1>7 DEF IInv, TypeOK, OwnsOrReclaimed, Owns, Absent
  <2>3. CASE v # w /\ worker[v].job = j
    <3>1. Owns(v, j) \/ reclaims[j] > 0
      BY <2>3, <1>7 DEF IInv, OwnsOrReclaimed
    <3>2. Owns(v, j) => Expired(j)
      BY <1>1 DEF Claimable, Due, Owns
    <3>3. reclaims'[j] > 0
      BY <3>1, <3>2, <1>1 DEF IInv, TypeOK
    <3> QED
      BY <2>3, <3>3, <1>3, <1>5, <1>7 DEF Absent
  <2> QED
    BY <2>1, <2>2, <2>3
<1>11. ReadStillTrue'
  <2>1. \A i \in Jobs : jobs'[i].attempt_count >= jobs[i].attempt_count
    BY <1>3, <1>5 DEF IInv, TypeOK, Row
  <2>2. \A i \in Jobs : jobs'[i].attempt_count \in Nat /\ jobs[i].attempt_count \in Nat
    BY <1>8 DEF IInv, TypeOK, Row
  <2> SUFFICES ASSUME NEW v \in Workers
               PROVE  /\ worker'[v].pc = "complete" => worker'[v].job \in returned
                      /\ worker'[v].pc = "fail" =>
                            /\ worker'[v].seen <= jobs'[worker'[v].job].attempt_count
                            /\ ~worker'[v].retryable => worker'[v].job \in fatal
    BY <1>1 DEF ReadStillTrue
  <2>3. CASE v = w
    BY <2>3, <1>7
  <2>4. CASE v # w
    <3>1. worker[v].seen \in Nat
      BY DEF IInv, TypeOK, Process
    <3> QED
      BY <2>1, <2>2, <2>4, <3>1, <1>7 DEF IInv, OwnsOrReclaimed, ReadStillTrue
  <2> QED
    BY <2>3, <2>4
<1>12. BatchLasts'
  BY <1>7 DEF IInv, BatchLasts
<1> QED
  BY <1>8, <1>9, <1>10, <1>11, <1>12 DEF IInv

\* The read of complete or fail: an owner remembers what it saw, anyone else
\* gives the job up.
LEMMA ReadRowKeepsIInv ==
  ASSUME IInv, NEW w \in Workers, NEW pc \in {"complete", "fail"}, NEW retryable \in BOOLEAN,
         worker[w].pc = "run",
         ReadRow(w, pc, retryable),
         returned \subseteq returned', returned' \subseteq Jobs,
         fatal \subseteq fatal', fatal' \subseteq Jobs,
         pc = "complete" => worker[w].job \in returned',
         ~retryable => worker[w].job \in fatal',
         UNCHANGED <<jobs, reclaims, draining, slot, slot_at, faults>>
  PROVE  IInv'
<1> DEFINE j == worker[w].job
<1>1. j \in Jobs /\ ~Absent(j)
  BY DEF IInv, OwnsOrReclaimed
<1>2. RunningIsLeased' /\ DeadIsJustified' /\ SuccessIsEarned'
  BY DEF IInv, RunningIsLeased, DeadIsJustified, SuccessIsEarned
<1>3. CASE Owns(w, j)
  <2>1. worker' = [worker EXCEPT ![w].pc = pc, ![w].retryable = retryable,
                                 ![w].seen = jobs[j].attempt_count]
    BY <1>3 DEF ReadRow
  <2>2. jobs[j].attempt_count \in Nat
    BY <1>1 DEF IInv, TypeOK, Row
  <2>3. worker' \in [Workers -> Process]
    <3> DEFINE p == [worker[w] EXCEPT !.pc = pc, !.retryable = retryable,
                                      !.seen = jobs[j].attempt_count]
    <3>1. worker[w] \in Process
      BY DEF IInv, TypeOK
    <3>2. p \in Process
      BY <2>2, <3>1 DEF Process
    <3>3. worker' = [worker EXCEPT ![w] = p]
      BY <2>1 DEF IInv, TypeOK
    <3> QED
      BY <3>2, <3>3 DEF IInv, TypeOK
  <2>4. /\ worker'[w].pc = pc /\ worker'[w].job = j /\ worker'[w].retryable = retryable
        /\ worker'[w].seen = jobs[j].attempt_count
        /\ \A v \in Workers \ {w} : worker'[v] = worker[v]
    BY <2>1 DEF IInv, TypeOK, Process
  <2>5. TypeOK'
    BY <2>3 DEF IInv, TypeOK
  <2>6. OwnsOrReclaimed'
    BY <1>1, <1>3, <2>4 DEF IInv, OwnsOrReclaimed, Owns, Absent
  <2>7. ReadStillTrue'
    <3> SUFFICES ASSUME NEW v \in Workers
                 PROVE  /\ worker'[v].pc = "complete" => worker'[v].job \in returned'
                        /\ worker'[v].pc = "fail" =>
                              /\ worker'[v].seen <= jobs'[worker'[v].job].attempt_count
                              /\ ~worker'[v].retryable => worker'[v].job \in fatal'
      BY DEF ReadStillTrue
    <3>1. CASE v = w
      <4>1. worker'[w].seen <= jobs'[worker'[w].job].attempt_count
        BY <2>2, <2>4
      <4>2. ~worker'[w].retryable => worker'[w].job \in fatal'
        BY <2>4, Zenon
      <4>3. worker'[w].pc = "complete" => worker'[w].job \in returned'
        BY <2>4, Zenon
      <4> QED
        BY <3>1, <4>1, <4>2, <4>3, Zenon
    <3>2. CASE v # w
      BY <3>2, <2>4 DEF IInv, ReadStillTrue
    <3> QED
      BY <3>1, <3>2
  <2>8. BatchLasts'
    BY <2>4 DEF IInv, BatchLasts
  <2> QED
    BY <1>2, <2>5, <2>6, <2>7, <2>8 DEF IInv
<1>4. CASE ~Owns(w, j)
  <2>1. Released(w)
    BY <1>4, NextInBatchReleases DEF ReadRow, IInv
  <2>2. TypeOK'
    BY <2>1 DEF IInv, TypeOK, Released
  <2>3. OwnsOrReclaimed'
    BY <2>1 DEF IInv, OwnsOrReclaimed, Owns, Absent, Released
  <2>4. ReadStillTrue'
    BY <2>1 DEF IInv, ReadStillTrue, Released
  <2>5. BatchLasts'
    BY <2>1 DEF IInv, BatchLasts, Released
  <2> QED
    BY <1>2, <2>2, <2>3, <2>4, <2>5 DEF IInv
<1> QED
  BY <1>3, <1>4

\* The write of complete or fail, possibly on a row another worker has claimed
\* since the read: the columns it writes are consistent whoever owns the row.
LEMMA WriteKeepsIInv ==
  ASSUME IInv, NEW w \in Workers, worker[w].pc \in {"complete", "fail"},
         NEW row \in Row,
         row.status \in {"queued", "succeeded", "dead"},
         row.attempt_count = jobs[worker[w].job].attempt_count,
         row.status = "dead" => row.attempt_count >= row.max_attempts
                                \/ worker[w].job \in fatal,
         row.status = "succeeded" => worker[w].job \in returned,
         jobs' = [jobs EXCEPT ![worker[w].job] = row],
         NextInBatch(w),
         UNCHANGED <<reclaims, returned, fatal, draining, slot, slot_at, faults>>
  PROVE  IInv'
<1> DEFINE j == worker[w].job
<1>1. j \in Jobs
  BY DEF IInv, OwnsOrReclaimed
<1>2. \A i \in Jobs : jobs'[i] = IF i = j THEN row ELSE jobs[i]
  BY <1>1 DEF IInv, TypeOK
<1>3. jobs' \in [Jobs -> Row]
  BY <1>1 DEF IInv, TypeOK
<1>4. Released(w)
  BY NextInBatchReleases DEF IInv
<1>5. TypeOK'
  BY <1>3, <1>4 DEF IInv, TypeOK, Released
<1>6. RunningIsLeased' /\ DeadIsJustified' /\ SuccessIsEarned'
  BY <1>1, <1>2 DEF IInv, RunningIsLeased, DeadIsJustified, SuccessIsEarned
<1>7. OwnsOrReclaimed'
  <2> SUFFICES ASSUME NEW v \in Workers, worker'[v].pc \in {"run", "complete", "fail"}
               PROVE  /\ worker'[v].job \in Jobs
                      /\ ~Absent(worker[v].job)'
                      /\ Owns(v, worker[v].job)' \/ reclaims'[worker'[v].job] > 0
    BY DEF OwnsOrReclaimed
  <2>1. v # w /\ worker'[v] = worker[v]
    BY <1>4 DEF Released
  <2>2. CASE worker[v].job # j
    BY <2>1, <2>2, <1>2 DEF IInv, OwnsOrReclaimed, Owns, Absent
  <2>3. CASE worker[v].job = j
    <3>1. reclaims[j] > 0
      BY <2>1, <2>3 DEF IInv, OwnsOrReclaimed, Owns
    <3> QED
      BY <2>1, <2>3, <3>1, <1>1, <1>2 DEF Absent
  <2> QED
    BY <2>2, <2>3
<1>8. ReadStillTrue'
  BY <1>1, <1>2, <1>4 DEF IInv, OwnsOrReclaimed, ReadStillTrue, Released
<1>9. BatchLasts'
  BY <1>4 DEF IInv, BatchLasts, Released
<1> QED
  BY <1>5, <1>6, <1>7, <1>8, <1>9 DEF IInv

\* complete writes a success that a handler earned.
LEMMA CommitCompleteKeepsIInv ==
  ASSUME IInv, NEW w \in Workers, CommitComplete(w)
  PROVE  IInv'
<1> DEFINE j == worker[w].job
           row == CompletedRow(jobs[j])
<1>1. j \in Jobs /\ j \in returned /\ jobs[j] \in Row
  BY DEF CommitComplete, IInv, TypeOK, OwnsOrReclaimed, ReadStillTrue
<1>2. /\ row \in Row
      /\ row.status = "succeeded"
      /\ row.attempt_count = jobs[j].attempt_count
  BY <1>1, WrittenRowType DEF CompletedRow, Row
<1>3. /\ worker[w].pc = "complete"
      /\ jobs' = [jobs EXCEPT ![j] = row]
      /\ NextInBatch(w)
      /\ UNCHANGED <<reclaims, returned, fatal, draining, slot, slot_at, faults>>
  BY DEF CommitComplete, clockVars, historyVars
<1> HIDE DEF row
<1> QED
  BY <1>1, <1>2, <1>3, WriteKeepsIInv

\* fail writes a retry or a dead letter that its read justifies.
LEMMA CommitFailKeepsIInv ==
  ASSUME IInv, NEW w \in Workers, CommitFail(w)
  PROVE  IInv'
<1> DEFINE j == worker[w].job
           row == FailedRow(jobs[j], worker[w].seen, worker[w].retryable)
<1>1. /\ worker[w].pc = "fail"
      /\ jobs' = [jobs EXCEPT ![j] = row]
      /\ NextInBatch(w)
      /\ UNCHANGED <<reclaims, returned, fatal, draining, slot, slot_at, faults>>
  BY DEF CommitFail, clockVars, historyVars
<1>2. j \in Jobs /\ jobs[j] \in Row
  BY <1>1 DEF IInv, TypeOK, OwnsOrReclaimed
<1>3. worker[w].seen \in Nat /\ worker[w].retryable \in BOOLEAN
  BY DEF IInv, TypeOK, Process
<1>4. row \in Row
  BY <1>2, <1>3, WrittenRowType
<1>5. /\ row.status \in {"queued", "dead"}
      /\ row.status = "dead" => GivesUp(worker[w].seen, jobs[j].max_attempts, worker[w].retryable)
      /\ row.attempt_count = jobs[j].attempt_count
      /\ row.max_attempts = jobs[j].max_attempts
  BY <1>2 DEF FailedRow, Row
<1>6. worker[w].seen <= jobs[j].attempt_count /\ (~worker[w].retryable => j \in fatal)
  BY <1>1 DEF IInv, ReadStillTrue
<1>7. row.status = "dead" => row.attempt_count >= row.max_attempts \/ j \in fatal
  <2>1. jobs[j].attempt_count \in Nat /\ jobs[j].max_attempts \in Nat
    BY <1>2 DEF Row
  <2> QED
    BY <1>3, <1>5, <1>6, <2>1 DEF GivesUp
<1> HIDE DEF row
<1> QED
  BY <1>1, <1>4, <1>5, <1>7, WriteKeepsIInv

-----------------------------------------------------------------------------
(* Time *)

\* Passing time ages instants and changes nothing the invariant speaks of.
LEMMA ElapseKeepsIInv ==
  ASSUME IInv, Elapse
  PROVE  IInv'
<1>1. /\ faults' = faults + Cardinality(Overrunning)
      /\ jobs' = [j \in Jobs |-> AgedRow(jobs[j])]
      /\ slot' \in Slots
      /\ slot_at' = [s \in Slots |-> IF s <= slot THEN Age(slot_at[s]) ELSE Now]
      /\ UNCHANGED <<reclaims, worker, draining, returned, fatal>>
  BY DEF Elapse, AgedRow, historyVars
<1>2. faults' \in Nat
  <2>1. IsFiniteSet(Overrunning)
    BY NamesAssumption, FS_Subset DEF Overrunning
  <2>2. Cardinality(Overrunning) \in Nat
    BY <2>1, FS_CardinalityType
  <2> QED
    BY <1>1, <2>2 DEF IInv, TypeOK
<1>3. \A j \in Jobs : jobs[j] \in Row /\ jobs'[j] = AgedRow(jobs[j])
  BY <1>1 DEF IInv, TypeOK
<1>4. \A j \in Jobs : /\ jobs'[j] \in Row
                      /\ jobs'[j].status = jobs[j].status
                      /\ jobs'[j].worker_id = jobs[j].worker_id
                      /\ jobs'[j].attempt_count = jobs[j].attempt_count
                      /\ jobs'[j].max_attempts = jobs[j].max_attempts
                      /\ jobs[j].lease_expires_at # None => jobs'[j].lease_expires_at # None
  BY <1>3, AgedRowFacts
<1>5. slot_at' \in [Slots -> Int]
  BY <1>1, BoundsAssumption DEF IInv, TypeOK, Age, Now
<1>6. TypeOK'
  <2>1. jobs' \in [Jobs -> Row]
    BY <1>1, <1>4
  <2> QED
    BY <1>1, <1>2, <1>5, <2>1 DEF IInv, TypeOK
<1>7. RunningIsLeased' /\ DeadIsJustified' /\ SuccessIsEarned'
  BY <1>1, <1>4 DEF IInv, RunningIsLeased, DeadIsJustified, SuccessIsEarned
<1>8. OwnsOrReclaimed'
  BY <1>1, <1>4 DEF IInv, OwnsOrReclaimed, Owns, Absent
<1>9. ReadStillTrue' /\ BatchLasts'
  BY <1>1, <1>4 DEF IInv, OwnsOrReclaimed, ReadStillTrue, BatchLasts
<1> QED
  BY <1>6, <1>7, <1>8, <1>9 DEF IInv

-----------------------------------------------------------------------------
(* The inductive invariant *)

\* An empty table and processes that have not started.
LEMMA InitIInv == Init => IInv
<1> SUFFICES ASSUME Init PROVE IInv
  OBVIOUS
<1>1. NoRow \in Row /\ NoRow.status = "none"
  <2>1. NewRow("task", None, 0, 1, Now) \in Row
    BY NewRowType DEF Now
  <2> QED
    BY <2>1 DEF NoRow, Row
<1>2. TypeOK
  BY <1>1, IdleType, BoundsAssumption DEF Init, TypeOK, Slots, Now
<1>3. \A w \in Workers : worker[w].pc = "new"
  BY DEF Init, Idle
<1>4. RunningIsLeased /\ DeadIsJustified /\ SuccessIsEarned
  BY <1>1 DEF Init, RunningIsLeased, DeadIsJustified, SuccessIsEarned
<1>5. OwnsOrReclaimed /\ ReadStillTrue /\ BatchLasts
  BY <1>3 DEF OwnsOrReclaimed, ReadStillTrue, BatchLasts
<1> QED
  BY <1>2, <1>4, <1>5 DEF IInv

\* Every transaction and process event keeps the invariant.
LEMMA NextIInv == IInv /\ [Next]_vars => IInv'
<1> SUFFICES ASSUME IInv, [Next]_vars PROVE IInv'
  OBVIOUS
<1> USE DEF tableVars, clockVars, historyVars
<1>0. faults \in Nat
  BY DEF IInv, TypeOK
<1>1. ASSUME NEW j \in Jobs, NEW key \in Keys \cup {None}, NEW p \in Priorities,
             Enqueue(j, key, p)
      PROVE  IInv'
  BY <1>1, EnqueueKeepsIInv
<1>2. ASSUME NEW w \in Workers, Start(w) PROVE IInv'
  BY <1>0, <1>2, GotoReleases, ReleaseKeepsIInv DEF Start, IInv
<1>3. ASSUME NEW w \in Workers, Poll(w) PROVE IInv'
  BY <1>0, <1>3, PollReleases, ReleaseKeepsIInv DEF Poll, IInv
<1>4. ASSUME NEW w \in Workers, SkipTick(w) PROVE IInv'
  BY <1>0, <1>4, NextInBatchReleases, ReleaseKeepsIInv DEF SkipTick, IInv
<1>5. ASSUME NEW w \in Workers, NEW j \in Jobs, InsertTick(w, j) PROVE IInv'
  BY <1>5, InsertTickKeepsIInv
<1>6. ASSUME NEW w \in Workers, NEW j \in Jobs, Claim(w, j) PROVE IInv'
  BY <1>6, ClaimKeepsIInv
<1>7. ASSUME NEW w \in Workers, ClaimNothing(w) PROVE IInv'
  BY <1>0, <1>7, GotoReleases, ReleaseKeepsIInv DEF ClaimNothing, IInv
<1>8. ASSUME NEW w \in Workers, HandlerReturns(w) PROVE IInv'
  <2>1. worker[w].job \in Jobs
    BY <1>8 DEF HandlerReturns, IInv, OwnsOrReclaimed
  <2> QED
    BY <1>8, <2>1, ReadRowKeepsIInv DEF HandlerReturns, IInv, TypeOK
<1>9. ASSUME NEW w \in Workers, NEW retryable \in BOOLEAN, HandlerRaises(w, retryable)
      PROVE  IInv'
  <2>1. worker[w].job \in Jobs
    BY <1>9 DEF HandlerRaises, IInv, OwnsOrReclaimed
  <2> QED
    BY <1>9, <2>1, ReadRowKeepsIInv DEF HandlerRaises, IInv, TypeOK
<1>10. ASSUME NEW w \in Workers, CommitComplete(w) PROVE IInv'
  BY <1>10, CommitCompleteKeepsIInv
<1>11. ASSUME NEW w \in Workers, CommitFail(w) PROVE IInv'
  BY <1>11, CommitFailKeepsIInv
<1>12. ASSUME NEW w \in Workers, CommitConflicts(w) PROVE IInv'
  BY <1>0, <1>12, GotoReleases, ReleaseKeepsIInv DEF CommitConflicts, IInv
<1>13. ASSUME NEW w \in Workers, CommitErrs(w) PROVE IInv'
  BY <1>0, <1>13, GotoReleases, ReleaseKeepsIInv DEF CommitErrs, IInv
<1>14. ASSUME NEW w \in Workers, Exit(w) PROVE IInv'
  BY <1>0, <1>14, GotoReleases, ReleaseKeepsIInv DEF Exit, IInv
<1>15. ASSUME NEW w \in Workers, Crash(w) PROVE IInv'
  BY <1>0, <1>15, GotoReleases, ReleaseKeepsIInv DEF Crash, IInv
<1>16. ASSUME NEW w \in Workers, Drain(w) PROVE IInv'
  BY <1>16 DEF Drain, IInv, TypeOK, RunningIsLeased, OwnsOrReclaimed, ReadStillTrue,
               BatchLasts, DeadIsJustified, SuccessIsEarned, Owns, Absent
<1>17. CASE Elapse
  BY <1>17, ElapseKeepsIInv
<1>18. CASE UNCHANGED vars
  BY <1>18 DEF vars, IInv, TypeOK, RunningIsLeased, OwnsOrReclaimed, ReadStillTrue,
               BatchLasts, DeadIsJustified, SuccessIsEarned, Owns, Absent
<1> QED
  BY <1>1, <1>2, <1>3, <1>4, <1>5, <1>6, <1>7, <1>8, <1>9, <1>10, <1>11, <1>12,
     <1>13, <1>14, <1>15, <1>16, <1>17, <1>18 DEF Next, WorkerStep

\* Every reachable state satisfies the inductive invariant.
THEOREM Invariance == Spec => []IInv
BY InitIInv, NextIInv, PTL DEF Spec

-----------------------------------------------------------------------------
(* Results *)

\* Rows and processes keep their shape in every run of the worker fleet.
THEOREM TypeCorrect == Spec => []TypeOK
BY Invariance, PTL DEF IInv

\* A running row always carries the lease claim_next needs to recover it.
THEOREM LeasesRecoverable == Spec => []RunningIsLeased
BY Invariance, PTL DEF IInv

\* A job none of whose leases ran out is handled by one worker, its owner.
THEOREM Exclusion == Spec => []ExclusiveUnlessReclaimed
<1>1. IInv => ExclusiveUnlessReclaimed
  <2> SUFFICES ASSUME IInv, NEW j \in Jobs, reclaims[j] = 0,
                      NEW w \in Workers, Handling(w, j)
               PROVE  Owns(w, j) /\ \A v \in Workers : Handling(v, j) => v = w
    BY DEF ExclusiveUnlessReclaimed
  <2>1. \A v \in Workers : Handling(v, j) => Owns(v, j)
    BY DEF IInv, OwnsOrReclaimed, Handling
  <2> QED
    BY <2>1 DEF Owns
<1> QED
  BY <1>1, Invariance, PTL

\* fail dead-letters a job only when its attempts are used up or its handler
\* declared the error final, whatever it read and whoever claimed meanwhile, and
\* a job reads as succeeded only if some handler of it returned.
THEOREM FinalStatusJustified == Spec => []FinishedIsJustified
BY Invariance, PTL DEF IInv, FinishedIsJustified

\* A finished job none of whose leases ran out is never reopened.
THEOREM Finality == Spec => FinishedIsFinal
<1> DEFINE Step == \A j \in Jobs : jobs[j].status \in Finished /\ reclaims[j] = 0
                                   => jobs'[j].status = jobs[j].status
<1>1. IInv /\ [Next]_vars => [Step]_vars
  <2> SUFFICES ASSUME IInv, Next, NEW j \in Jobs,
                      jobs[j].status \in Finished, reclaims[j] = 0
               PROVE  jobs'[j].status = jobs[j].status
    BY DEF vars
  <2>1. jobs \in [Jobs -> Row]
    BY DEF IInv, TypeOK
  <2>2. \A w \in Workers : worker[w].pc \in {"run", "complete", "fail"} => worker[w].job # j
    BY DEF IInv, OwnsOrReclaimed, Owns, Finished
  <2>3. ASSUME NEW i \in Jobs, NEW key \in Keys \cup {None}, NEW p \in Priorities,
               Enqueue(i, key, p)
        PROVE  jobs'[j] = jobs[j]
    BY <2>1, <2>3 DEF Enqueue, Absent, Finished
  <2>4. ASSUME NEW w \in Workers, NEW i \in Jobs, InsertTick(w, i)
        PROVE  jobs'[j] = jobs[j]
    BY <2>1, <2>4 DEF InsertTick, Absent, Finished
  <2>5. ASSUME NEW w \in Workers, NEW i \in Jobs, Claim(w, i)
        PROVE  jobs'[j] = jobs[j]
    BY <2>1, <2>5 DEF Claim, Claimable, Due, Expired, Finished
  <2>6. ASSUME NEW w \in Workers, CommitComplete(w) \/ CommitFail(w)
        PROVE  jobs'[j] = jobs[j]
    BY <2>1, <2>2, <2>6 DEF CommitComplete, CommitFail
  <2>7. CASE Elapse
    <3>1. jobs'[j] = AgedRow(jobs[j]) /\ jobs[j] \in Row
      BY <2>1, <2>7 DEF Elapse, AgedRow
    <3> QED
      BY <3>1, AgedRowFacts
  <2>8. ASSUME UNCHANGED jobs PROVE jobs'[j] = jobs[j]
    BY <2>8
  <2>9. \A w \in Workers :
           Start(w) \/ Poll(w) \/ SkipTick(w) \/ ClaimNothing(w) \/ HandlerReturns(w)
           \/ (\E r \in BOOLEAN : HandlerRaises(w, r)) \/ CommitConflicts(w)
           \/ CommitErrs(w) \/ Exit(w) \/ Drain(w) \/ Crash(w) => UNCHANGED jobs
    BY DEF Start, Poll, SkipTick, ClaimNothing, HandlerReturns, HandlerRaises,
           CommitConflicts, CommitErrs, Exit, Drain, Crash, tableVars
  <2> QED
    BY <2>3, <2>4, <2>5, <2>6, <2>7, <2>8, <2>9 DEF Next, WorkerStep
<1> QED
  BY <1>1, Invariance, PTL DEF Spec, FinishedIsFinal

-----------------------------------------------------------------------------
(* How often a job is attempted *)

Writing(w) == worker[w].pc \in {"complete", "fail"}

\* complete and fail read a count the row had; while they own the row it is the
\* one in the row.
ReadsAreCurrent ==
    \A w \in Workers : Writing(w) =>
        /\ worker[w].seen <= jobs[worker[w].job].attempt_count
        /\ Owns(w, worker[w].job) => worker[w].seen = jobs[worker[w].job].attempt_count

\* Workers that read j as its owner, lost it since, and are about to write it: a
\* fail of theirs still requeues.
LateWriters(j) ==
    {w \in Workers : /\ Writing(w) /\ worker[w].job = j
                     /\ ~Owns(w, j)
                     /\ worker[w].seen < jobs[j].max_attempts}

\* Attempts j had, or is queued for, beyond its max_attempts.
Excess(j) ==
    IF jobs[j].attempt_count < jobs[j].max_attempts THEN 0
    ELSE jobs[j].attempt_count - jobs[j].max_attempts
            + (IF jobs[j].status = "queued" THEN 1 ELSE 0)

\* Each reclaim of an expired lease pays for one late writer or for one attempt
\* too many.
Accounted(j) == Cardinality(LateWriters(j)) + Excess(j) <= reclaims[j]

AccountInv == ReadsAreCurrent /\ \A j \in Jobs : Accounted(j)

\* The numbers in a row are numbers.
LEMMA CountTypes ==
  ASSUME TypeOK, NEW j \in Jobs
  PROVE  /\ jobs[j] \in Row
         /\ jobs[j].attempt_count \in Nat /\ jobs[j].max_attempts \in Nat \ {0}
         /\ reclaims[j] \in Nat /\ Excess(j) \in Nat
BY DEF TypeOK, Row, Excess

\* Finitely many workers are late.
LEMMA LateFinite ==
  ASSUME NEW S \in SUBSET Workers
  PROVE  IsFiniteSet(S) /\ Cardinality(S) \in Nat
BY NamesAssumption, FS_Subset, FS_CardinalityType

\* Counting: a set within S, S with an element more, S without one of its own.
LEMMA Counting ==
  ASSUME NEW S, IsFiniteSet(S), NEW T, NEW x
  PROVE  /\ Cardinality(S) \in Nat
         /\ T \subseteq S => Cardinality(T) \in Nat /\ Cardinality(T) <= Cardinality(S)
         /\ T \subseteq S \cup {x} =>
               Cardinality(T) \in Nat /\ Cardinality(T) <= Cardinality(S) + 1
         /\ x \in S /\ T \subseteq S \ {x} =>
               Cardinality(T) \in Nat /\ Cardinality(T) <= Cardinality(S) - 1
<1>1. Cardinality(S) \in Nat
  BY FS_CardinalityType
<1>2. ASSUME NEW U, IsFiniteSet(U), T \subseteq U
      PROVE  Cardinality(T) \in Nat /\ Cardinality(T) <= Cardinality(U)
  <2>1. IsFiniteSet(T) /\ Cardinality(T) <= Cardinality(U)
    BY <1>2, FS_Subset
  <2> QED
    BY <2>1, FS_CardinalityType
<1>3. IsFiniteSet(S \cup {x})
      /\ Cardinality(S \cup {x}) = IF x \in S THEN Cardinality(S) ELSE Cardinality(S) + 1
  BY FS_AddElement
<1>4. IsFiniteSet(S \ {x})
      /\ Cardinality(S \ {x}) = IF x \in S THEN Cardinality(S) - 1 ELSE Cardinality(S)
  BY FS_RemoveElement
<1>5. T \subseteq S \cup {x} => Cardinality(T) \in Nat /\ Cardinality(T) <= Cardinality(S) + 1
  <2> SUFFICES ASSUME T \subseteq S \cup {x}
               PROVE  Cardinality(T) \in Nat /\ Cardinality(T) <= Cardinality(S) + 1
    OBVIOUS
  <2>1. Cardinality(T) \in Nat /\ Cardinality(T) <= Cardinality(S \cup {x})
    BY <1>2, <1>3
  <2> QED
    BY <1>1, <1>3, <2>1
<1>6. x \in S /\ T \subseteq S \ {x} => Cardinality(T) \in Nat /\ Cardinality(T) <= Cardinality(S) - 1
  <2> SUFFICES ASSUME x \in S, T \subseteq S \ {x}
               PROVE  Cardinality(T) \in Nat /\ Cardinality(T) <= Cardinality(S) - 1
    OBVIOUS
  <2>1. Cardinality(T) \in Nat /\ Cardinality(T) <= Cardinality(S \ {x})
    BY <1>2, <1>4
  <2> QED
    BY <1>1, <1>4, <2>1
<1> QED
  BY <1>1, <1>2, <1>5, <1>6

\* A job stays accounted for when no worker becomes late and no attempt is owed.
LEMMA AccountKept ==
  ASSUME TypeOK, TypeOK', NEW j \in Jobs, Accounted(j),
         LateWriters(j)' \subseteq LateWriters(j), Excess(j)' <= Excess(j),
         reclaims'[j] >= reclaims[j]
  PROVE  Accounted(j)'
<1> DEFINE n == Cardinality(LateWriters(j))
           m == Cardinality(LateWriters(j)')
<1>1. IsFiniteSet(LateWriters(j)) /\ n \in Nat
  BY LateFinite DEF LateWriters
<1>2. m \in Nat /\ m <= n
  BY <1>1, Counting
<1>3. Excess(j) \in Nat /\ reclaims[j] \in Nat
  BY CountTypes
<1>4. Excess(j)' \in Nat /\ reclaims'[j] \in Nat
  BY CountTypes DEF TypeOK, Row, Excess
<1>5. n + Excess(j) <= reclaims[j]
  BY DEF Accounted
<1> HIDE DEF n, m
<1>6. m + Excess(j)' <= reclaims'[j]
  BY <1>1, <1>2, <1>3, <1>4, <1>5
<1> QED
  BY <1>6 DEF Accounted, m

\* A step in which no worker comes to write a row and the rows keep their state,
\* owner and attempts.
LEMMA DetachKeepsAccount ==
  ASSUME TypeOK, TypeOK', AccountInv,
         \A w \in Workers : worker'[w] = worker[w] \/ ~Writing(w)',
         \A j \in Jobs : /\ jobs'[j].status = jobs[j].status
                         /\ jobs'[j].worker_id = jobs[j].worker_id
                         /\ jobs'[j].attempt_count = jobs[j].attempt_count
                         /\ jobs'[j].max_attempts = jobs[j].max_attempts,
         \A w \in Workers : Writing(w) => worker[w].job \in Jobs,
         reclaims' = reclaims
  PROVE  AccountInv'
<1>1. ReadsAreCurrent'
  BY DEF AccountInv, ReadsAreCurrent, Writing, Owns
<1>2. ASSUME NEW j \in Jobs PROVE Accounted(j)'
  <2>1. LateWriters(j)' \subseteq LateWriters(j)
    BY DEF LateWriters, Writing, Owns
  <2>2. Excess(j)' = Excess(j) /\ Excess(j) \in Nat /\ reclaims[j] \in Nat
    BY CountTypes DEF Excess
  <2> QED
    BY <2>1, <2>2, AccountKept DEF AccountInv
<1> QED
  BY <1>1, <1>2 DEF AccountInv

\* An owner that reads its row sees the count the row has, and is not late.
LEMMA OwnerReadKeepsAccount ==
  ASSUME TypeOK, TypeOK', OwnsOrReclaimed, AccountInv, NEW w \in Workers,
         worker[w].pc = "run", Owns(w, worker[w].job),
         worker'[w].job = worker[w].job,
         worker'[w].seen = jobs[worker[w].job].attempt_count,
         \A v \in Workers \ {w} : worker'[v] = worker[v],
         UNCHANGED <<jobs, reclaims>>
  PROVE  AccountInv'
<1>1. worker[w].job \in Jobs
  BY DEF OwnsOrReclaimed
<1>2. jobs[worker[w].job].attempt_count \in Nat
  BY <1>1, CountTypes
<1>3. ReadsAreCurrent'
  <2> SUFFICES ASSUME NEW v \in Workers, Writing(v)'
               PROVE  /\ worker'[v].seen <= jobs'[worker'[v].job].attempt_count
                      /\ Owns(v, worker[v].job)' =>
                            worker'[v].seen = jobs'[worker'[v].job].attempt_count
    BY DEF ReadsAreCurrent
  <2>1. CASE v = w
    BY <1>2, <2>1
  <2>2. CASE v # w
    BY <2>2 DEF AccountInv, ReadsAreCurrent, Writing, Owns
  <2> QED
    BY <2>1, <2>2
<1>4. ASSUME NEW j \in Jobs PROVE Accounted(j)'
  <2>1. LateWriters(j)' \subseteq LateWriters(j)
    BY DEF LateWriters, Writing, Owns
  <2>2. Excess(j)' = Excess(j) /\ Excess(j) \in Nat /\ reclaims[j] \in Nat
    BY CountTypes DEF Excess
  <2> QED
    BY <2>1, <2>2, AccountKept DEF AccountInv
<1> QED
  BY <1>3, <1>4 DEF AccountInv

\* A new row owes no attempt, and nobody is late with it.
LEMMA InsertKeepsAccount ==
  ASSUME TypeOK, TypeOK', OwnsOrReclaimed, AccountInv,
         NEW j \in Jobs, Absent(j), jobs'[j].attempt_count = 0,
         \A i \in Jobs \ {j} : jobs'[i] = jobs[i],
         \A w \in Workers : worker'[w] = worker[w] \/ ~Writing(w)',
         reclaims' = reclaims
  PROVE  AccountInv'
<1>1. \A w \in Workers : Writing(w) => worker[w].job \in Jobs \ {j}
  BY DEF OwnsOrReclaimed, Writing
<1>2. ReadsAreCurrent'
  BY <1>1 DEF AccountInv, ReadsAreCurrent, Writing, Owns
<1>3. ASSUME NEW i \in Jobs PROVE Accounted(i)'
  <2>1. LateWriters(i)' \subseteq LateWriters(i)
    BY <1>1 DEF LateWriters, Writing, Owns
  <2>2. Excess(i) \in Nat /\ reclaims[i] \in Nat
    BY CountTypes
  <2>3. Excess(i)' <= Excess(i)
    <3>1. CASE i # j
      BY <2>2, <3>1 DEF Excess
    <3>2. CASE i = j
      <4>1. jobs'[j].max_attempts \in Nat \ {0}
        BY DEF TypeOK, Row
      <4> QED
        BY <2>2, <3>2, <4>1 DEF Excess
    <3> QED
      BY <3>1, <3>2
  <2> QED
    BY <2>1, <2>2, <2>3, AccountKept DEF AccountInv
<1> QED
  BY <1>2, <1>3 DEF AccountInv

\* What a claim does to the columns the account speaks of.
LEMMA ClaimEffect ==
  ASSUME TypeOK, NEW w \in Workers, NEW j \in Jobs, Claim(w, j)
  PROVE  /\ jobs'[j].status = "running" /\ jobs'[j].worker_id = w
         /\ jobs'[j].attempt_count = jobs[j].attempt_count + 1
         /\ jobs'[j].max_attempts = jobs[j].max_attempts
         /\ \A i \in Jobs \ {j} : jobs'[i] = jobs[i] /\ reclaims'[i] = reclaims[i]
         /\ reclaims'[j] = IF Expired(j) THEN reclaims[j] + 1 ELSE reclaims[j]
         /\ jobs[j].status = IF Expired(j) THEN "running" ELSE "queued"
         /\ ~Writing(w) /\ ~Writing(w)'
         /\ \A v \in Workers \ {w} : worker'[v] = worker[v]
<1>1. jobs[j] \in Row
  BY DEF TypeOK
<1>2. jobs' = [jobs EXCEPT ![j] = ClaimedRow(jobs[j], w)]
  BY DEF Claim
<1>3. /\ jobs'[j].status = "running" /\ jobs'[j].worker_id = w
      /\ jobs'[j].attempt_count = jobs[j].attempt_count + 1
      /\ jobs'[j].max_attempts = jobs[j].max_attempts
      /\ \A i \in Jobs \ {j} : jobs'[i] = jobs[i]
  BY <1>1, <1>2 DEF TypeOK, ClaimedRow, Row
<1>4. /\ \A i \in Jobs \ {j} : reclaims'[i] = reclaims[i]
      /\ reclaims'[j] = IF Expired(j) THEN reclaims[j] + 1 ELSE reclaims[j]
  BY DEF Claim, TypeOK
<1>5. jobs[j].status = IF Expired(j) THEN "running" ELSE "queued"
  BY DEF Claim, Claimable, Due, Expired
<1>6. /\ ~Writing(w) /\ ~Writing(w)'
      /\ \A v \in Workers \ {w} : worker'[v] = worker[v]
  BY DEF Claim, TypeOK, Process, Writing
<1> QED
  BY <1>3, <1>4, <1>5, <1>6

\* A claim of an expired lease makes its owner late, or is an attempt too many:
\* never both, since the owner of a row without attempts left does not requeue.
LEMMA ClaimKeepsAccount ==
  ASSUME TypeOK, TypeOK', AccountInv, OwnsOrReclaimed, NEW w \in Workers, NEW j \in Jobs,
         Claim(w, j)
  PROVE  AccountInv'
<1>0. /\ jobs'[j].status = "running" /\ jobs'[j].worker_id = w
      /\ jobs'[j].attempt_count = jobs[j].attempt_count + 1
      /\ jobs'[j].max_attempts = jobs[j].max_attempts
      /\ \A i \in Jobs \ {j} : jobs'[i] = jobs[i] /\ reclaims'[i] = reclaims[i]
      /\ reclaims'[j] = IF Expired(j) THEN reclaims[j] + 1 ELSE reclaims[j]
      /\ jobs[j].status = IF Expired(j) THEN "running" ELSE "queued"
      /\ ~Writing(w) /\ ~Writing(w)'
      /\ \A v \in Workers \ {w} : worker'[v] = worker[v]
  BY ClaimEffect
<1> USE <1>0
<1>1. /\ jobs[j].attempt_count \in Nat /\ jobs[j].max_attempts \in Nat
      /\ reclaims[j] \in Nat /\ Excess(j) \in Nat
  BY CountTypes
<1>2. ReadsAreCurrent'
  <2> SUFFICES ASSUME NEW v \in Workers, Writing(v)'
               PROVE  /\ worker'[v].seen <= jobs'[worker'[v].job].attempt_count
                      /\ Owns(v, worker[v].job)' =>
                            worker'[v].seen = jobs'[worker'[v].job].attempt_count
    BY DEF ReadsAreCurrent
  <2>1. /\ v # w /\ worker'[v] = worker[v] /\ Writing(v)
        /\ worker[v].job \in Jobs /\ worker[v].seen \in Nat
    BY DEF Writing, OwnsOrReclaimed, TypeOK, Process
  <2>2. /\ worker[v].seen <= jobs[worker[v].job].attempt_count
        /\ Owns(v, worker[v].job) => worker[v].seen = jobs[worker[v].job].attempt_count
    BY <2>1 DEF AccountInv, ReadsAreCurrent
  <2>3. CASE worker[v].job = j
    BY <1>1, <2>1, <2>2, <2>3 DEF Owns
  <2>4. CASE worker[v].job # j
    BY <2>1, <2>2, <2>4 DEF Owns
  <2> QED
    BY <2>3, <2>4
<1>3. ASSUME NEW i \in Jobs \ {j} PROVE Accounted(i)'
  <2>1. LateWriters(i)' \subseteq LateWriters(i)
    BY DEF LateWriters, Writing, Owns
  <2>2. Excess(i)' = Excess(i) /\ Excess(i) \in Nat /\ reclaims'[i] = reclaims[i] /\ reclaims[i] \in Nat
    BY CountTypes DEF Excess
  <2> QED
    BY <2>1, <2>2, AccountKept DEF AccountInv
<1>4. CASE ~Expired(j)
  <2>1. LateWriters(j)' \subseteq LateWriters(j)
    BY <1>4 DEF LateWriters, Writing, Owns
  <2>2. Excess(j)' = Excess(j)
    BY <1>1, <1>4 DEF Excess
  <2>3. Accounted(j) /\ reclaims'[j] >= reclaims[j] /\ Excess(j)' <= Excess(j)
    BY <1>1, <1>4, <2>2 DEF AccountInv
  <2>4. Accounted(j)'
    BY <2>1, <2>3, AccountKept
  <2> QED
    BY <1>2, <1>3, <2>4 DEF AccountInv
<1>5. CASE Expired(j) /\ jobs[j].attempt_count < jobs[j].max_attempts
  <2> DEFINE owner == jobs[j].worker_id
  <2>1. LateWriters(j)' \subseteq LateWriters(j) \cup {owner}
    BY DEF LateWriters, Writing, Owns
  <2>2. Excess(j)' = 0 /\ Excess(j) = 0
    BY <1>1, <1>5 DEF Excess
  <2>3. IsFiniteSet(LateWriters(j)) /\ Cardinality(LateWriters(j)) \in Nat
    BY LateFinite DEF LateWriters
  <2>4. /\ Cardinality(LateWriters(j)') \in Nat
        /\ Cardinality(LateWriters(j)') <= Cardinality(LateWriters(j)) + 1
    BY <2>1, <2>3, Counting
  <2>5. Cardinality(LateWriters(j)) <= reclaims[j]
    BY <2>2, <2>3 DEF AccountInv, Accounted
  <2>6. Accounted(j)'
    BY <1>1, <1>5, <2>2, <2>3, <2>4, <2>5 DEF Accounted
  <2> QED
    BY <1>2, <1>3, <2>6 DEF AccountInv
<1>6. CASE Expired(j) /\ ~(jobs[j].attempt_count < jobs[j].max_attempts)
  <2>1. LateWriters(j)' \subseteq LateWriters(j)
    <3> SUFFICES ASSUME NEW v \in LateWriters(j)' PROVE v \in LateWriters(j)
      OBVIOUS
    <3>1. /\ v \in Workers /\ v # w /\ worker'[v] = worker[v] /\ Writing(v)
          /\ worker[v].job = j /\ worker[v].seen < jobs[j].max_attempts
          /\ worker[v].seen \in Nat
      BY DEF LateWriters, Writing, TypeOK, Process
    <3>2. ~Owns(v, j)
      BY <1>1, <1>6, <3>1 DEF AccountInv, ReadsAreCurrent
    <3> QED
      BY <3>1, <3>2 DEF LateWriters
  <2>2. Excess(j)' = Excess(j) + 1
    BY <1>1, <1>6 DEF Excess
  <2>3. IsFiniteSet(LateWriters(j)) /\ Cardinality(LateWriters(j)) \in Nat
    BY LateFinite DEF LateWriters
  <2>4. /\ Cardinality(LateWriters(j)') \in Nat
        /\ Cardinality(LateWriters(j)') <= Cardinality(LateWriters(j))
    BY <2>1, <2>3, Counting
  <2>5. Cardinality(LateWriters(j)) + Excess(j) <= reclaims[j]
    BY DEF AccountInv, Accounted
  <2>6. Accounted(j)'
    BY <1>1, <1>6, <2>2, <2>3, <2>4, <2>5 DEF Accounted
  <2> QED
    BY <1>2, <1>3, <2>6 DEF AccountInv
<1> QED
  BY <1>4, <1>5, <1>6

\* The write of complete or fail.  A late writer that requeues uses up what the
\* reclaim paid for; one that takes the row from an owner about to write passes
\* it on.
LEMMA WriteKeepsAccount ==
  ASSUME TypeOK, TypeOK', AccountInv, OwnsOrReclaimed, NEW w \in Workers, NEW j \in Jobs,
         Writing(w), worker[w].job = j, ~Writing(w)',
         \A v \in Workers \ {w} : worker'[v] = worker[v],
         jobs'[j].status # "running",
         jobs'[j].status = "queued" => worker[w].seen < jobs[j].max_attempts,
         jobs'[j].attempt_count = jobs[j].attempt_count,
         jobs'[j].max_attempts = jobs[j].max_attempts,
         \A i \in Jobs \ {j} : jobs'[i] = jobs[i],
         reclaims' = reclaims
  PROVE  AccountInv'
<1>1. /\ jobs[j].attempt_count \in Nat /\ jobs[j].max_attempts \in Nat
      /\ reclaims[j] \in Nat /\ Excess(j) \in Nat /\ worker[w].seen \in Nat
  BY CountTypes DEF TypeOK, Process
<1>2. /\ worker[w].seen <= jobs[j].attempt_count
      /\ Owns(w, j) => worker[w].seen = jobs[j].attempt_count
  BY DEF AccountInv, ReadsAreCurrent
<1>3. ReadsAreCurrent'
  <2> SUFFICES ASSUME NEW v \in Workers, Writing(v)'
               PROVE  /\ worker'[v].seen <= jobs'[worker'[v].job].attempt_count
                      /\ Owns(v, worker[v].job)' =>
                            worker'[v].seen = jobs'[worker'[v].job].attempt_count
    BY DEF ReadsAreCurrent
  <2>1. v # w /\ worker'[v] = worker[v] /\ Writing(v) /\ worker[v].job \in Jobs
    BY DEF Writing, OwnsOrReclaimed
  <2>2. /\ worker[v].seen <= jobs[worker[v].job].attempt_count
        /\ Owns(v, worker[v].job) => worker[v].seen = jobs[worker[v].job].attempt_count
    BY <2>1 DEF AccountInv, ReadsAreCurrent
  <2>3. CASE worker[v].job = j
    BY <2>1, <2>2, <2>3 DEF Owns
  <2>4. CASE worker[v].job # j
    BY <2>1, <2>2, <2>4 DEF Owns
  <2> QED
    BY <2>3, <2>4
<1>4. ASSUME NEW i \in Jobs \ {j} PROVE Accounted(i)'
  <2>1. LateWriters(i)' \subseteq LateWriters(i)
    BY DEF LateWriters, Writing, Owns
  <2>2. Excess(i)' = Excess(i) /\ Excess(i) \in Nat /\ reclaims[i] \in Nat
    BY CountTypes DEF Excess
  <2> QED
    BY <2>1, <2>2, AccountKept DEF AccountInv
<1>5. IsFiniteSet(LateWriters(j)) /\ Cardinality(LateWriters(j)) \in Nat
  BY LateFinite DEF LateWriters
<1>6. Cardinality(LateWriters(j)) + Excess(j) <= reclaims[j]
  BY DEF AccountInv, Accounted
<1>7. w \notin LateWriters(j)'
  BY DEF LateWriters
<1>8. \A v \in LateWriters(j)' : v \in LateWriters(j) \/ Owns(v, j)
  BY <1>7 DEF LateWriters, Writing
<1>9. CASE Owns(w, j)
  <2>1. LateWriters(j)' \subseteq LateWriters(j)
    BY <1>7, <1>8, <1>9 DEF Owns, LateWriters
  <2>2. Excess(j)' <= Excess(j)
    BY <1>1, <1>2, <1>9 DEF Excess, Owns
  <2>3. Accounted(j)'
    BY <1>1, <2>1, <2>2, AccountKept DEF AccountInv
  <2> QED
    BY <1>3, <1>4, <2>3 DEF AccountInv
<1>10. CASE ~Owns(w, j) /\ jobs[j].attempt_count < jobs[j].max_attempts
  <2> DEFINE owner == jobs[j].worker_id
  <2>1. Excess(j) = 0 /\ Excess(j)' = 0
    BY <1>10 DEF Excess
  <2>2. w \in LateWriters(j)
    BY <1>1, <1>2, <1>10 DEF LateWriters
  <2>3. LateWriters(j)' \subseteq (LateWriters(j) \ {w}) \cup {owner}
    BY <1>7, <1>8 DEF Owns
  <2>4. /\ IsFiniteSet(LateWriters(j) \ {w})
        /\ Cardinality(LateWriters(j) \ {w}) \in Nat
        /\ Cardinality(LateWriters(j) \ {w}) <= Cardinality(LateWriters(j)) - 1
    BY <1>5, <2>2, Counting, FS_RemoveElement
  <2>5. /\ Cardinality(LateWriters(j)') \in Nat
        /\ Cardinality(LateWriters(j)') <= Cardinality(LateWriters(j) \ {w}) + 1
    BY <2>3, <2>4, Counting
  <2>6. Accounted(j)'
    BY <1>1, <1>5, <1>6, <2>1, <2>4, <2>5 DEF Accounted
  <2> QED
    BY <1>3, <1>4, <2>6 DEF AccountInv
<1>11. CASE ~Owns(w, j) /\ ~(jobs[j].attempt_count < jobs[j].max_attempts)
  <2>1. LateWriters(j)' \subseteq LateWriters(j) \ {w}
    <3> SUFFICES ASSUME NEW v \in LateWriters(j)', Owns(v, j) PROVE FALSE
      BY <1>7, <1>8
    <3>1. /\ v \in Workers /\ worker'[v] = worker[v] /\ Writing(v)
          /\ worker[v].job = j /\ worker[v].seen < jobs[j].max_attempts
      BY <1>7 DEF LateWriters, Writing
    <3>2. worker[v].seen = jobs[j].attempt_count
      BY <3>1 DEF AccountInv, ReadsAreCurrent
    <3> QED
      BY <1>1, <1>11, <3>1, <3>2
  <2>2. CASE w \in LateWriters(j)
    <3>1. /\ Cardinality(LateWriters(j)') \in Nat
          /\ Cardinality(LateWriters(j)') <= Cardinality(LateWriters(j)) - 1
      BY <1>5, <2>1, <2>2, Counting
    <3>2. Excess(j)' \in Nat /\ Excess(j)' <= Excess(j) + 1
      BY <1>1, <1>11 DEF Excess
    <3>3. Accounted(j)'
      BY <1>1, <1>5, <1>6, <3>1, <3>2 DEF Accounted
    <3> QED
      BY <1>3, <1>4, <3>3 DEF AccountInv
  <2>3. CASE w \notin LateWriters(j)
    <3>1. jobs'[j].status # "queued"
      BY <1>11, <2>3 DEF LateWriters
    <3>2. Excess(j)' <= Excess(j)
      BY <1>1, <1>11, <3>1 DEF Excess
    <3>3. Accounted(j)'
      BY <1>1, <2>1, <3>2, AccountKept DEF AccountInv
    <3> QED
      BY <1>3, <1>4, <3>3 DEF AccountInv
  <2> QED
    BY <2>2, <2>3
<1> QED
  BY <1>9, <1>10, <1>11

\* Back to the loop: the worker does not write a row, and does not insert a tick.
LEMMA LoopEffect ==
  ASSUME TypeOK, NEW w \in Workers,
         Goto(w, "poll") \/ Goto(w, "down") \/ NextInBatch(w)
  PROVE  /\ worker'[w].pc \in {"poll", "claim", "down"}
         /\ ~Writing(w)'
         /\ \A v \in Workers \ {w} : worker'[v] = worker[v]
<1>1. Idle.pc = "new" /\ worker \in [Workers -> Process]
  BY DEF Idle, TypeOK
<1>2. ASSUME NEW pc, Goto(w, pc)
      PROVE  worker'[w].pc = pc /\ \A v \in Workers \ {w} : worker'[v] = worker[v]
  BY <1>1, <1>2 DEF Goto, Idle
<1>3. ASSUME NextInBatch(w)
      PROVE  /\ worker'[w].pc \in {"poll", "claim"}
             /\ \A v \in Workers \ {w} : worker'[v] = worker[v]
  BY <1>1, <1>3 DEF NextInBatch, Idle
<1> QED
  BY <1>2, <1>3 DEF Writing

\* No attempt was made and nobody reads.
LEMMA InitAccount == Init => AccountInv
<1> SUFFICES ASSUME Init PROVE AccountInv
  OBVIOUS
<1>1. \A w \in Workers : ~Writing(w)
  BY DEF Init, Idle, Writing
<1>2. ASSUME NEW j \in Jobs PROVE Accounted(j)
  <2>1. LateWriters(j) = {}
    BY <1>1 DEF LateWriters
  <2>2. jobs[j].attempt_count = 0 /\ jobs[j].max_attempts = 1 /\ reclaims[j] = 0
    BY DEF Init, NoRow, NewRow
  <2> QED
    BY <2>1, <2>2, FS_EmptySet DEF Accounted, Excess
<1> QED
  BY <1>1, <1>2 DEF AccountInv, ReadsAreCurrent

\* A step of a worker that ends in the loop and leaves the table alone.
LEMMA LoopKeepsAccount ==
  ASSUME IInv, IInv', AccountInv, NEW w \in Workers,
         Goto(w, "poll") \/ Goto(w, "down") \/ NextInBatch(w),
         UNCHANGED <<jobs, reclaims>>
  PROVE  AccountInv'
<1>1. \A v \in Workers : worker'[v] = worker[v] \/ ~Writing(v)'
  BY LoopEffect DEF IInv
<1> QED
  BY <1>1, DetachKeepsAccount DEF IInv, OwnsOrReclaimed, Writing

\* The read of complete or fail.
LEMMA ReadRowKeepsAccount ==
  ASSUME IInv, IInv', AccountInv, NEW w \in Workers, worker[w].pc = "run",
         NEW pc \in {"complete", "fail"}, NEW retryable \in BOOLEAN,
         ReadRow(w, pc, retryable), UNCHANGED <<jobs, reclaims>>
  PROVE  AccountInv'
<1>1. CASE Owns(w, worker[w].job)
  <2>1. /\ worker'[w].job = worker[w].job
        /\ worker'[w].seen = jobs[worker[w].job].attempt_count
        /\ \A v \in Workers \ {w} : worker'[v] = worker[v]
    BY <1>1 DEF ReadRow, IInv, TypeOK, Process
  <2> QED
    BY <1>1, <2>1, OwnerReadKeepsAccount DEF IInv
<1>2. CASE ~Owns(w, worker[w].job)
  BY <1>2, LoopKeepsAccount DEF ReadRow
<1> QED
  BY <1>1, <1>2

\* The write of complete or fail.
LEMMA CommitKeepsAccount ==
  ASSUME IInv, IInv', AccountInv, NEW w \in Workers, CommitComplete(w) \/ CommitFail(w)
  PROVE  AccountInv'
<1> DEFINE j == worker[w].job
<1>1. j \in Jobs /\ jobs[j] \in Row /\ Writing(w)
  BY DEF CommitComplete, CommitFail, Writing, IInv, OwnsOrReclaimed, TypeOK
<1>2. NextInBatch(w) /\ reclaims' = reclaims
  BY DEF CommitComplete, CommitFail
<1>3. ~Writing(w)' /\ \A v \in Workers \ {w} : worker'[v] = worker[v]
  BY <1>2, LoopEffect DEF IInv
<1>4. /\ jobs'[j].status # "running"
      /\ jobs'[j].status = "queued" => worker[w].seen < jobs[j].max_attempts
      /\ jobs'[j].attempt_count = jobs[j].attempt_count
      /\ jobs'[j].max_attempts = jobs[j].max_attempts
      /\ \A i \in Jobs \ {j} : jobs'[i] = jobs[i]
  <2>1. CASE CommitComplete(w)
    BY <1>1, <2>1 DEF CommitComplete, CompletedRow, IInv, TypeOK, Row
  <2>2. CASE CommitFail(w)
    <3>1. jobs' = [jobs EXCEPT ![j] = FailedRow(jobs[j], worker[w].seen, worker[w].retryable)]
      BY <2>2 DEF CommitFail
    <3>2. worker[w].seen \in Nat /\ jobs[j].max_attempts \in Nat
      BY <1>1 DEF IInv, TypeOK, Process, Row
    <3> QED
      BY <1>1, <3>1, <3>2 DEF FailedRow, GivesUp, IInv, TypeOK, Row
  <2> QED
    BY <2>1, <2>2
<1> HIDE DEF j
<1>5. worker[w].job = j
  BY DEF j
<1> QED
  BY <1>1, <1>2, <1>3, <1>4, <1>5, WriteKeepsAccount DEF IInv

\* Every transaction and process event keeps every job accounted for.
LEMMA NextAccount == IInv /\ IInv' /\ AccountInv /\ [Next]_vars => AccountInv'
<1> SUFFICES ASSUME IInv, IInv', AccountInv, [Next]_vars PROVE AccountInv'
  OBVIOUS
<1> USE DEF tableVars
<1>1. ASSUME NEW j \in Jobs, NEW key \in Keys \cup {None}, NEW p \in Priorities,
             Enqueue(j, key, p)
      PROVE  AccountInv'
  <2>1. jobs'[j].attempt_count = 0 /\ \A i \in Jobs \ {j} : jobs'[i] = jobs[i]
    BY <1>1 DEF Enqueue, NewRow, IInv, TypeOK
  <2> QED
    BY <1>1, <2>1, InsertKeepsAccount DEF Enqueue, IInv
<1>2. ASSUME NEW w \in Workers, NEW j \in Jobs, InsertTick(w, j) PROVE AccountInv'
  <2>1. /\ jobs'[j].attempt_count = 0 /\ \A i \in Jobs \ {j} : jobs'[i] = jobs[i]
        /\ Absent(j) /\ reclaims' = reclaims
    BY <1>2 DEF InsertTick, NewRow, IInv, TypeOK
  <2>2. \A v \in Workers : worker'[v] = worker[v] \/ ~Writing(v)'
    BY <1>2, LoopEffect DEF InsertTick, IInv
  <2> QED
    BY <2>1, <2>2, InsertKeepsAccount DEF IInv
<1>3. ASSUME NEW w \in Workers, NEW j \in Jobs, Claim(w, j) PROVE AccountInv'
  BY <1>3, ClaimKeepsAccount DEF IInv
<1>4. ASSUME NEW w \in Workers, Poll(w) PROVE AccountInv'
  <2>1. \A v \in Workers : worker'[v] = worker[v] \/ ~Writing(v)'
    BY <1>4 DEF Poll, Idle, Writing, IInv, TypeOK
  <2> QED
    BY <1>4, <2>1, DetachKeepsAccount DEF Poll, IInv, OwnsOrReclaimed, Writing
<1>5. ASSUME NEW w \in Workers, HandlerReturns(w) PROVE AccountInv'
  BY <1>5, ReadRowKeepsAccount DEF HandlerReturns
<1>6. ASSUME NEW w \in Workers, NEW retryable \in BOOLEAN, HandlerRaises(w, retryable)
      PROVE  AccountInv'
  BY <1>6, ReadRowKeepsAccount DEF HandlerRaises
<1>7. ASSUME NEW w \in Workers, CommitComplete(w) \/ CommitFail(w) PROVE AccountInv'
  BY <1>7, CommitKeepsAccount
<1>8. ASSUME NEW w \in Workers,
             Start(w) \/ SkipTick(w) \/ ClaimNothing(w) \/ CommitConflicts(w)
             \/ CommitErrs(w) \/ Exit(w) \/ Crash(w)
      PROVE  AccountInv'
  BY <1>8, LoopKeepsAccount
     DEF Start, SkipTick, ClaimNothing, CommitConflicts, CommitErrs, Exit, Crash
<1>9. ASSUME UNCHANGED <<jobs, worker, reclaims>> PROVE AccountInv'
  BY <1>9, DetachKeepsAccount DEF IInv, OwnsOrReclaimed, Writing
<1>10. CASE Elapse
  <2>1. /\ jobs' = [j \in Jobs |-> AgedRow(jobs[j])]
        /\ worker' = worker /\ reclaims' = reclaims
    BY <1>10 DEF Elapse, AgedRow
  <2>2. \A j \in Jobs : jobs[j] \in Row /\ jobs'[j] = AgedRow(jobs[j])
    BY <2>1, CountTypes DEF IInv
  <2>3. \A j \in Jobs : /\ jobs'[j].status = jobs[j].status
                        /\ jobs'[j].worker_id = jobs[j].worker_id
                        /\ jobs'[j].attempt_count = jobs[j].attempt_count
                        /\ jobs'[j].max_attempts = jobs[j].max_attempts
    BY <2>2, AgedRowFacts
  <2> QED
    BY <2>1, <2>3, DetachKeepsAccount DEF IInv, OwnsOrReclaimed, Writing
<1> QED
  BY <1>1, <1>2, <1>3, <1>4, <1>5, <1>6, <1>7, <1>8, <1>9, <1>10
     DEF Next, WorkerStep, Drain, vars

\* In every reachable state the reclaims of a job pay for its late writers and
\* its attempts beyond max_attempts.
THEOREM Accounting == Spec => []AccountInv
BY InitAccount, NextAccount, Invariance, PTL DEF Spec

\* max_attempts is exceeded by at most one attempt per reclaimed lease, however
\* many stale fails requeue a job whose attempts are used up.
THEOREM AttemptLimit == Spec => []AttemptsBounded
<1>1. TypeOK /\ AccountInv => AttemptsBounded
  <2> SUFFICES ASSUME TypeOK, AccountInv, NEW j \in Jobs
               PROVE  jobs[j].attempt_count <= jobs[j].max_attempts + reclaims[j]
    BY DEF AttemptsBounded
  <2>1. Cardinality(LateWriters(j)) \in Nat
    BY LateFinite DEF LateWriters
  <2>2. Cardinality(LateWriters(j)) + Excess(j) <= reclaims[j]
    BY DEF AccountInv, Accounted
  <2> QED
    BY <2>1, <2>2, CountTypes DEF Excess
<1> QED
  BY <1>1, Accounting, TypeCorrect, PTL

-----------------------------------------------------------------------------
(* How many ticks a slot gets *)

\* Workers that were told the slot has no tick and are about to insert one.
Waiting(s) == {w \in Workers : worker[w].pc = "insert" /\ worker[w].slot = s}

\* Once a slot has a tick, has_job finds it: each further tick comes from a
\* worker that was waiting already.
TickAccount(s) ==
    /\ IsFiniteSet(Ticks(s))
    /\ Ticks(s) # {} => Cardinality(Ticks(s)) + Cardinality(Waiting(s)) <= Cardinality(Workers)

TickInv == \A s \in Slots : TickAccount(s)

\* Some workers are no more than all of them.
LEMMA SomeWorkers ==
  ASSUME NEW S \in SUBSET Workers
  PROVE  /\ IsFiniteSet(S) /\ Cardinality(S) \in Nat
         /\ Cardinality(Workers) \in Nat /\ Cardinality(S) <= Cardinality(Workers)
BY NamesAssumption, Counting, FS_Subset

\* Rows stay what they are of, and nobody comes to wait for a slot that has a tick.
LEMMA TicksKept ==
  ASSUME TickInv,
         \A j \in Jobs : /\ Absent(j)' <=> Absent(j)
                         /\ jobs'[j].job_type = jobs[j].job_type
                         /\ jobs'[j].dedupe_key = jobs[j].dedupe_key,
         \A w \in Workers, s \in Slots :
            Ticks(s) # {} /\ worker'[w].pc = "insert" /\ worker'[w].slot = s =>
               worker[w].pc = "insert" /\ worker[w].slot = s
  PROVE  TickInv'
<1> SUFFICES ASSUME NEW s \in Slots PROVE TickAccount(s)'
  BY DEF TickInv
<1>1. Ticks(s)' = Ticks(s) /\ TickAccount(s)
  BY DEF Ticks, TickInv
<1>2. CASE Ticks(s) = {}
  BY <1>1, <1>2 DEF TickAccount
<1>3. CASE Ticks(s) # {}
  <2>1. Waiting(s)' \subseteq Waiting(s) /\ Waiting(s) \in SUBSET Workers
    BY <1>3 DEF Waiting
  <2>2. /\ Cardinality(Waiting(s)) \in Nat /\ Cardinality(Waiting(s)') \in Nat
        /\ Cardinality(Waiting(s)') <= Cardinality(Waiting(s))
    BY <2>1, SomeWorkers, Counting
  <2>3. Cardinality(Ticks(s)) \in Nat /\ Cardinality(Workers) \in Nat
    BY <1>1, SomeWorkers, FS_CardinalityType DEF TickAccount
  <2>4. Cardinality(Ticks(s)) + Cardinality(Waiting(s)) <= Cardinality(Workers)
    BY <1>1, <1>3 DEF TickAccount
  <2>5. Cardinality(Ticks(s)) + Cardinality(Waiting(s)') <= Cardinality(Workers)
    BY <2>2, <2>3, <2>4
  <2> QED
    BY <1>1, <2>5 DEF TickAccount
<1> QED
  BY <1>2, <1>3

\* The columns no update writes.
LEMMA NameColumns ==
  ASSUME NEW r \in Row, NEW w, NEW seen, NEW retryable
  PROVE  \A q \in {ClaimedRow(r, w), CompletedRow(r), FailedRow(r, seen, retryable), AgedRow(r)} :
            /\ q.job_type = r.job_type /\ q.dedupe_key = r.dedupe_key
            /\ r.status # "none" => q.status # "none"
<1>1. /\ ClaimedRow(r, w).job_type = r.job_type /\ ClaimedRow(r, w).dedupe_key = r.dedupe_key
      /\ ClaimedRow(r, w).status = "running"
  BY DEF ClaimedRow, Row
<1>2. /\ CompletedRow(r).job_type = r.job_type /\ CompletedRow(r).dedupe_key = r.dedupe_key
      /\ CompletedRow(r).status = "succeeded"
  BY DEF CompletedRow, Row
<1>3. /\ FailedRow(r, seen, retryable).job_type = r.job_type
      /\ FailedRow(r, seen, retryable).dedupe_key = r.dedupe_key
      /\ FailedRow(r, seen, retryable).status \in {"dead", "queued"}
  BY DEF FailedRow, Row
<1>4. /\ AgedRow(r).job_type = r.job_type /\ AgedRow(r).dedupe_key = r.dedupe_key
      /\ AgedRow(r).status = r.status
  BY DEF AgedRow, Row
<1> QED
  BY <1>1, <1>2, <1>3, <1>4

\* A write of a claimed, completed, failed or aged row in the place of a row that
\* is there.
LEMMA WriteKeepsTicks ==
  ASSUME TypeOK, TickInv, NEW j \in Jobs, ~Absent(j),
         NEW w \in Workers, NEW seen, NEW retryable,
         NEW row \in {ClaimedRow(jobs[j], w), CompletedRow(jobs[j]),
                      FailedRow(jobs[j], seen, retryable)},
         jobs' = [jobs EXCEPT ![j] = row],
         \A v \in Workers : worker'[v] = worker[v] \/ worker'[v].pc # "insert"
  PROVE  TickInv'
<1>1. jobs[j] \in Row
  BY DEF TypeOK
<1>2. row.job_type = jobs[j].job_type /\ row.dedupe_key = jobs[j].dedupe_key /\ row.status # "none"
  BY <1>1, NameColumns DEF Absent
<1>3. \A i \in Jobs : jobs'[i] = IF i = j THEN row ELSE jobs[i]
  BY DEF TypeOK
<1>4. \A i \in Jobs : /\ Absent(i)' <=> Absent(i)
                      /\ jobs'[i].job_type = jobs[i].job_type
                      /\ jobs'[i].dedupe_key = jobs[i].dedupe_key
  BY <1>2, <1>3 DEF Absent
<1> QED
  BY <1>4, TicksKept

\* A tick more is a waiting worker less.
LEMMA InsertTickKeepsTicks ==
  ASSUME TypeOK, TickInv, NEW w \in Workers, NEW j \in Jobs, InsertTick(w, j)
  PROVE  TickInv'
<1> DEFINE key == worker[w].slot
<1>1. /\ key \in Slots /\ Absent(j) /\ worker[w].pc = "insert"
      /\ jobs' = [jobs EXCEPT ![j] = NewRow("tick", key, 0, 1, slot_at[key])]
  BY DEF InsertTick, TypeOK, Process
<1> HIDE DEF key
<1>2. /\ jobs'[j].status = "queued" /\ jobs'[j].job_type = "tick" /\ jobs'[j].dedupe_key = key
      /\ \A i \in Jobs \ {j} : jobs'[i] = jobs[i]
  BY <1>1 DEF NewRow, TypeOK
<1>3. worker'[w].pc # "insert" /\ \A v \in Workers \ {w} : worker'[v] = worker[v]
  BY LoopEffect DEF InsertTick
<1> SUFFICES ASSUME NEW s \in Slots PROVE TickAccount(s)'
  BY DEF TickInv
<1>4. TickAccount(s) /\ IsFiniteSet(Ticks(s)) /\ Cardinality(Ticks(s)) \in Nat
  BY FS_CardinalityType DEF TickInv, TickAccount
<1>5. Waiting(s) \in SUBSET Workers /\ Waiting(s)' \subseteq Waiting(s) \ {w}
  BY <1>3 DEF Waiting
<1>6. /\ IsFiniteSet(Waiting(s)) /\ Cardinality(Waiting(s)) \in Nat
      /\ Cardinality(Waiting(s)) <= Cardinality(Workers) /\ Cardinality(Workers) \in Nat
  BY <1>5, SomeWorkers
<1>7. CASE s = key
  <2>1. Ticks(s)' = Ticks(s) \cup {j} /\ j \notin Ticks(s)
    BY <1>1, <1>2, <1>7 DEF Ticks, Absent
  <2>2. IsFiniteSet(Ticks(s)') /\ Cardinality(Ticks(s)') = Cardinality(Ticks(s)) + 1
    BY <1>4, <2>1, FS_AddElement
  <2>3. w \in Waiting(s)
    BY <1>1, <1>7 DEF Waiting, key
  <2>4. /\ Cardinality(Waiting(s)') \in Nat
        /\ Cardinality(Waiting(s)') <= Cardinality(Waiting(s)) - 1
    BY <1>5, <1>6, <2>3, Counting
  <2>5. Cardinality(Ticks(s)) + Cardinality(Waiting(s)) <= Cardinality(Workers)
    <3>1. CASE Ticks(s) = {}
      BY <1>6, <3>1, FS_EmptySet
    <3> QED
      BY <1>4, <3>1 DEF TickAccount
  <2>6. Cardinality(Ticks(s)') + Cardinality(Waiting(s)') <= Cardinality(Workers)
    BY <1>4, <1>6, <2>2, <2>4, <2>5
  <2> QED
    BY <2>2, <2>6 DEF TickAccount
<1>8. CASE s # key
  <2>1. Ticks(s)' = Ticks(s)
    BY <1>1, <1>2, <1>8 DEF Ticks, Absent
  <2>2. /\ Cardinality(Waiting(s)') \in Nat
        /\ Cardinality(Waiting(s)') <= Cardinality(Waiting(s))
    BY <1>5, <1>6, Counting
  <2>3. Ticks(s) # {} => Cardinality(Ticks(s)) + Cardinality(Waiting(s)') <= Cardinality(Workers)
    BY <1>4, <1>6, <2>2 DEF TickAccount
  <2> QED
    BY <1>4, <2>1, <2>3 DEF TickAccount
<1> QED
  BY <1>7, <1>8

\* run_once asks has_job first: nobody comes to wait for a slot that has a tick.
LEMMA PollKeepsTicks ==
  ASSUME TypeOK, TickInv, NEW w \in Workers, Poll(w)
  PROVE  TickInv'
<1>1. /\ worker'[w].pc = IF HasJob("tick", slot) THEN "claim" ELSE "insert"
      /\ worker'[w].slot = IF HasJob("tick", slot) THEN 0 ELSE slot
      /\ \A v \in Workers \ {w} : worker'[v] = worker[v]
      /\ jobs' = jobs
  BY DEF Poll, Idle, TypeOK, tableVars
<1>2. Ticks(slot) # {} => HasJob("tick", slot)
  BY DEF Ticks, HasJob
<1>3. \A v \in Workers, s \in Slots :
         Ticks(s) # {} /\ worker'[v].pc = "insert" /\ worker'[v].slot = s =>
            worker[v].pc = "insert" /\ worker[v].slot = s
  BY <1>1, <1>2
<1>4. \A j \in Jobs : Absent(j)' <=> Absent(j)
  BY <1>1 DEF Absent
<1> QED
  BY <1>1, <1>3, <1>4, TicksKept

\* Every transaction and process event keeps the ticks counted.
LEMMA NextTicks == IInv /\ TickInv /\ [Next]_vars => TickInv'
<1> SUFFICES ASSUME IInv, TickInv, [Next]_vars PROVE TickInv'
  OBVIOUS
<1>0. TypeOK
  BY DEF IInv
<1>1. ASSUME NEW j \in Jobs, NEW key \in Keys \cup {None}, NEW p \in Priorities,
             Enqueue(j, key, p)
      PROVE  TickInv'
  <2>1. /\ jobs'[j].status = "queued" /\ jobs'[j].job_type = "task"
        /\ \A i \in Jobs \ {j} : jobs'[i] = jobs[i]
        /\ Absent(j) /\ worker' = worker
    BY <1>0, <1>1 DEF Enqueue, NewRow, TypeOK
  <2> SUFFICES ASSUME NEW s \in Slots PROVE TickAccount(s)'
    BY DEF TickInv
  <2>2. Ticks(s)' = Ticks(s) /\ Waiting(s)' = Waiting(s) /\ TickAccount(s)
    BY <2>1 DEF Ticks, Absent, Waiting, TickInv
  <2> QED
    BY <2>2 DEF TickAccount
<1>2. ASSUME NEW w \in Workers, NEW j \in Jobs, InsertTick(w, j) PROVE TickInv'
  BY <1>0, <1>2, InsertTickKeepsTicks
<1>3. ASSUME NEW w \in Workers, NEW j \in Jobs, Claim(w, j) PROVE TickInv'
  <2>1. ~Absent(j) /\ jobs' = [jobs EXCEPT ![j] = ClaimedRow(jobs[j], w)]
    BY <1>3 DEF Claim, Claimable, Due, Expired, Absent
  <2>2. \A v \in Workers : worker'[v] = worker[v] \/ worker'[v].pc # "insert"
    BY <1>0, <1>3 DEF Claim, TypeOK, Process
  <2> QED
    BY <1>0, <2>1, <2>2, WriteKeepsTicks
<1>4. ASSUME NEW w \in Workers, Poll(w) PROVE TickInv'
  BY <1>0, <1>4, PollKeepsTicks
<1>5. ASSUME NEW w \in Workers, CommitComplete(w) \/ CommitFail(w) PROVE TickInv'
  <2> DEFINE j == worker[w].job
  <2>1. j \in Jobs /\ ~Absent(j)
    BY <1>5 DEF IInv, OwnsOrReclaimed, CommitComplete, CommitFail
  <2>2. \A v \in Workers : worker'[v] = worker[v] \/ worker'[v].pc # "insert"
    BY <1>0, <1>5, LoopEffect DEF CommitComplete, CommitFail
  <2>3. CASE CommitComplete(w)
    BY <1>0, <2>1, <2>2, <2>3, WriteKeepsTicks DEF CommitComplete
  <2>4. CASE CommitFail(w)
    BY <1>0, <2>1, <2>2, <2>4, WriteKeepsTicks DEF CommitFail
  <2> QED
    BY <1>5, <2>3, <2>4
<1>6. ASSUME jobs' = jobs,
             \A v \in Workers : worker'[v] = worker[v] \/ worker'[v].pc # "insert"
      PROVE  TickInv'
  <2>1. \A j \in Jobs : Absent(j)' <=> Absent(j)
    BY <1>6 DEF Absent
  <2> QED
    BY <1>6, <2>1, TicksKept
<1>7. ASSUME NEW w \in Workers,
             Start(w) \/ SkipTick(w) \/ ClaimNothing(w) \/ CommitConflicts(w)
             \/ CommitErrs(w) \/ Exit(w) \/ Crash(w)
      PROVE  TickInv'
  BY <1>0, <1>6, <1>7, LoopEffect
     DEF Start, SkipTick, ClaimNothing, CommitConflicts, CommitErrs, Exit, Crash, tableVars
<1>8. ASSUME NEW w \in Workers, NEW pc \in {"complete", "fail"}, NEW r \in BOOLEAN,
             ReadRow(w, pc, r), jobs' = jobs
      PROVE  TickInv'
  <2>1. \A v \in Workers : worker'[v] = worker[v] \/ worker'[v].pc # "insert"
    <3>1. CASE Owns(w, worker[w].job)
      BY <1>0, <1>8, <3>1 DEF ReadRow, TypeOK, Process
    <3>2. CASE ~Owns(w, worker[w].job)
      BY <1>0, <1>8, <3>2, LoopEffect DEF ReadRow
    <3> QED
      BY <3>1, <3>2
  <2> QED
    BY <1>6, <1>8, <2>1
<1>9. ASSUME NEW w \in Workers,
             HandlerReturns(w) \/ \E r \in BOOLEAN : HandlerRaises(w, r)
      PROVE  TickInv'
  BY <1>8, <1>9 DEF HandlerReturns, HandlerRaises, tableVars
<1>10. CASE Elapse
  <2>1. jobs' = [j \in Jobs |-> AgedRow(jobs[j])] /\ worker' = worker
    BY <1>10 DEF Elapse, AgedRow
  <2>2. \A j \in Jobs : jobs[j] \in Row /\ jobs'[j] = AgedRow(jobs[j])
    BY <1>0, <2>1, CountTypes
  <2>3. \A j \in Jobs : /\ jobs'[j].job_type = jobs[j].job_type
                        /\ jobs'[j].dedupe_key = jobs[j].dedupe_key
                        /\ Absent(j)' <=> Absent(j)
    BY <2>2, AgedRowFacts, NameColumns DEF Absent
  <2> QED
    BY <2>1, <2>3, TicksKept
<1> QED
  BY <1>1, <1>2, <1>3, <1>4, <1>5, <1>6, <1>7, <1>9, <1>10
     DEF Next, WorkerStep, Drain, vars, tableVars

\* In every reachable state a slot's ticks and the workers about to insert one
\* more are no more than there are workers.
THEOREM TickAccounting == Spec => []TickInv
<1>1. Init => TickInv
  <2> SUFFICES ASSUME Init, NEW s \in Slots PROVE Ticks(s) = {}
    BY FS_EmptySet DEF TickInv, TickAccount
  <2> QED
    BY DEF Init, Ticks, Absent, NoRow, NewRow
<1> QED
  BY <1>1, NextTicks, Invariance, PTL DEF Spec

\* A slot of the recurring schedule gets at most one tick per worker process,
\* whatever the interleaving of has_job and insert.
THEOREM TickLimit == Spec => []TicksPerSlotBounded
<1>1. TickInv => TicksPerSlotBounded
  <2> SUFFICES ASSUME TickInv, NEW s \in Slots
               PROVE  Cardinality(Ticks(s)) <= Cardinality(Workers)
    BY DEF TicksPerSlotBounded
  <2>1. /\ IsFiniteSet(Ticks(s)) /\ Cardinality(Ticks(s)) \in Nat
        /\ Ticks(s) # {} => Cardinality(Ticks(s)) + Cardinality(Waiting(s)) <= Cardinality(Workers)
    BY FS_CardinalityType DEF TickInv, TickAccount
  <2>2. Cardinality(Waiting(s)) \in Nat /\ Cardinality(Workers) \in Nat
    BY SomeWorkers DEF Waiting
  <2> QED
    BY <2>1, <2>2, FS_EmptySet
<1> QED
  BY <1>1, TickAccounting, PTL

-----------------------------------------------------------------------------
(* The table is a table of leased work *)

Lives == [j \in Jobs |-> LifeOf(jobs[j], reclaims[j])]

\* What is told of a row as long as no lease of its job was taken over, and after.
LEMMA LifeFacts ==
  ASSUME NEW row \in Row
  PROVE  /\ row.status = "none" => LifeOf(row, 0) = Leases!Piece("absent", None, TRUE)
         /\ row.status = "queued" => LifeOf(row, 0) = Leases!Piece("waiting", None, TRUE)
         /\ row.status = "running" => LifeOf(row, 0) = Leases!Piece("held", row.worker_id, TRUE)
         /\ row.status \in Finished => LifeOf(row, 0) = Leases!Piece(row.status, None, TRUE)
         /\ \A n \in Nat \ {0} : row.status # "none" =>
               \E phase \in Leases!Phases \ {"absent"}, w \in Workers \cup {None} :
                  LifeOf(row, n) = Leases!Piece(phase, w, FALSE)
<1> DEFINE holder == IF row.status = "running" THEN row.worker_id ELSE None
<1>1. /\ row.status = "none" => PhaseOf(row) = "absent" /\ holder = None
      /\ row.status = "queued" => PhaseOf(row) = "waiting" /\ holder = None
      /\ row.status = "running" => PhaseOf(row) = "held" /\ holder = row.worker_id
      /\ row.status \in Finished => PhaseOf(row) = row.status /\ holder = None
      /\ row.status # "none" => PhaseOf(row) \in Leases!Phases \ {"absent"}
      /\ holder \in Workers \cup {None}
  BY DEF PhaseOf, Row, Active, Finished, Leases!Phases
<1>2. /\ LifeOf(row, 0) = Leases!Piece(PhaseOf(row), holder, TRUE)
      /\ \A n \in Nat \ {0} : LifeOf(row, n) = Leases!Piece(PhaseOf(row), holder, FALSE)
  BY DEF LifeOf, Leases!Piece
<1> HIDE DEF holder
<1> QED
  BY <1>1, <1>2

\* A step that writes one row changes the life of one job.
LEMMA OneLife ==
  ASSUME NEW j \in Jobs,
         \A i \in Jobs \ {j} : jobs'[i] = jobs[i] /\ reclaims'[i] = reclaims[i]
  PROVE  Lives' = [Lives EXCEPT ![j] = LifeOf(jobs'[j], reclaims'[j])]
BY DEF Lives

\* A job whose lease was taken over may go anywhere but out of the table.
LEMMA TakenOverIsDisturbed ==
  ASSUME TypeOK', NEW j \in Jobs, reclaims'[j] # 0, jobs'[j].status # "none",
         \A i \in Jobs \ {j} : jobs'[i] = jobs[i] /\ reclaims'[i] = reclaims[i]
  PROVE  Leases!Disturb(j)
<1>1. jobs'[j] \in Row /\ reclaims'[j] \in Nat \ {0}
  BY DEF TypeOK
<1>2. PICK phase \in Leases!Phases \ {"absent"}, w \in Workers \cup {None} :
         LifeOf(jobs'[j], reclaims'[j]) = Leases!Piece(phase, w, FALSE)
  BY <1>1, LifeFacts
<1>3. Lives' = [Lives EXCEPT ![j] = Leases!Piece(phase, w, FALSE)]
  BY <1>2, OneLife
<1> QED
  BY <1>3 DEF Leases!Disturb, Leases!Becomes, Lives

\* A new job is submitted.
LEMMA InsertSubmits ==
  ASSUME TypeOK, TypeOK', NEW j \in Jobs, Absent(j), jobs'[j].status = "queued",
         UNCHANGED reclaims, \A i \in Jobs \ {j} : jobs'[i] = jobs[i]
  PROVE  Leases!Submit(j) \/ Leases!Disturb(j)
<1>1. jobs[j] \in Row /\ jobs'[j] \in Row
  BY DEF TypeOK
<1>2. CASE reclaims[j] = 0
  <2>1. /\ Lives[j] = Leases!Piece("absent", None, TRUE)
        /\ Lives' = [Lives EXCEPT ![j] = Leases!Piece("waiting", None, TRUE)]
    BY <1>1, <1>2, LifeFacts, OneLife DEF Absent, Lives
  <2> QED
    BY <2>1 DEF Leases!Submit, Leases!Becomes, Lives
<1> QED
  BY <1>2, TakenOverIsDisturbed

\* A claim takes a waiting job, or takes over an expired lease.
LEMMA ClaimTakes ==
  ASSUME TypeOK, TypeOK', NEW w \in Workers, NEW j \in Jobs, Claim(w, j)
  PROVE  Leases!Take(j, w) \/ Leases!Disturb(j)
<1>1. jobs[j] \in Row /\ jobs'[j] \in Row /\ reclaims[j] \in Nat
  BY DEF TypeOK
<1>2. CASE reclaims'[j] = 0
  <2>1. reclaims[j] = 0 /\ jobs[j].status = "queued"
    BY <1>1, <1>2, ClaimEffect
  <2>2. Lives[j] = Leases!Piece("waiting", None, TRUE)
    BY <1>1, <2>1, LifeFacts DEF Lives
  <2>3. LifeOf(jobs'[j], 0) = Leases!Piece("held", w, TRUE)
    <3>1. jobs'[j].status = "running" /\ jobs'[j].worker_id = w
      BY ClaimEffect
    <3> QED
      BY <1>1, <3>1, LifeFacts
  <2>4. Lives' = [Lives EXCEPT ![j] = LifeOf(jobs'[j], reclaims'[j])]
    BY ClaimEffect, OneLife
  <2> QED
    BY <1>2, <2>2, <2>3, <2>4 DEF Leases!Take, Leases!Becomes, Lives
<1> QED
  BY <1>2, ClaimEffect, TakenOverIsDisturbed

\* complete and fail end a job or give it back, or come late.
LEMMA CommitGivesBack ==
  ASSUME IInv, TypeOK', NEW w \in Workers, CommitComplete(w) \/ CommitFail(w)
  PROVE  \E j \in Jobs : Leases!GiveBack(j, w) \/ Leases!Disturb(j)
<1> DEFINE j == worker[w].job
<1>1. /\ j \in Jobs /\ jobs[j] \in Row /\ UNCHANGED reclaims
      /\ Owns(w, j) \/ reclaims[j] # 0
  BY DEF CommitComplete, CommitFail, IInv, OwnsOrReclaimed, TypeOK
<1>2. /\ jobs'[j].status \in {"queued"} \cup Finished
      /\ \A i \in Jobs \ {j} : jobs'[i] = jobs[i]
  <2>1. PICK row : /\ jobs' = [jobs EXCEPT ![j] = row]
                   /\ \/ row = CompletedRow(jobs[j])
                      \/ row = FailedRow(jobs[j], worker[w].seen, worker[w].retryable)
    BY DEF CommitComplete, CommitFail
  <2>2. row.status \in {"queued"} \cup Finished
    BY <1>1, <2>1 DEF CompletedRow, FailedRow, Row, Finished
  <2> QED
    BY <1>1, <2>1, <2>2 DEF IInv, TypeOK
<1> HIDE DEF j
<1>3. jobs'[j] \in Row
  BY <1>1 DEF TypeOK
<1>4. CASE reclaims[j] = 0
  <2>1. Lives[j] = Leases!Piece("held", w, TRUE)
    BY <1>1, <1>4, LifeFacts DEF Owns, Lives
  <2>2. PICK phase \in {"waiting"} \cup Finished :
               LifeOf(jobs'[j], 0) = Leases!Piece(phase, None, TRUE)
    BY <1>2, <1>3, LifeFacts
  <2>3. Lives' = [Lives EXCEPT ![j] = Leases!Piece(phase, None, TRUE)]
    BY <1>1, <1>2, <1>4, <2>2, OneLife
  <2>4. Leases!Becomes(j, Leases!Piece(phase, None, TRUE))
    BY <1>1, <2>3 DEF Leases!Becomes, Lives
  <2>5. Leases!GiveBack(j, w)
    BY <2>1, <2>4 DEF Leases!GiveBack, Lives
  <2> QED
    BY <1>1, <2>5
<1>5. CASE reclaims[j] # 0
  <2>1. Leases!Disturb(j)
    BY <1>1, <1>2, <1>5, TakenOverIsDisturbed DEF Finished
  <2> QED
    BY <1>1, <2>1
<1> QED
  BY <1>4, <1>5

\* The jobs table, however many workers claim, fail and die, is a table of leased
\* work, in which a job can come to harm only by the takeover of a lease.
THEOREM JobsAreLeasedWork == Spec => LeasedWorkHolds
<1>1. Init => Leases!Init
  <2> SUFFICES ASSUME Init, NEW j \in Jobs
               PROVE  LifeOf(jobs[j], reclaims[j]) = Leases!Piece("absent", None, TRUE)
    BY DEF Leases!Init
  <2>1. jobs[j] \in Row /\ jobs[j].status = "none" /\ reclaims[j] = 0
    BY InitIInv DEF Init, NoRow, IInv, TypeOK, NewRow
  <2> QED
    BY <2>1, LifeFacts
<1>2. IInv /\ TypeOK' /\ [Next]_vars =>
         [Leases!Next]_[j \in Jobs |-> LifeOf(jobs[j], reclaims[j])]
  <2> SUFFICES ASSUME IInv, TypeOK', [Next]_vars PROVE Leases!Next \/ Lives' = Lives
    BY DEF Lives
  <2>1. ASSUME NEW j \in Jobs, NEW key \in Keys \cup {None}, NEW p \in Priorities,
               Enqueue(j, key, p)
        PROVE  Leases!Next
    <3>1. /\ Absent(j) /\ jobs'[j].status = "queued" /\ UNCHANGED reclaims
          /\ \A i \in Jobs \ {j} : jobs'[i] = jobs[i]
      BY <2>1 DEF Enqueue, NewRow, IInv, TypeOK
    <3> QED
      BY <3>1, InsertSubmits DEF Leases!Next, IInv
  <2>2. ASSUME NEW w \in Workers, NEW j \in Jobs, InsertTick(w, j) PROVE Leases!Next
    <3>1. /\ Absent(j) /\ jobs'[j].status = "queued" /\ UNCHANGED reclaims
          /\ \A i \in Jobs \ {j} : jobs'[i] = jobs[i]
      BY <2>2 DEF InsertTick, NewRow, IInv, TypeOK
    <3> QED
      BY <3>1, InsertSubmits DEF Leases!Next, IInv
  <2>3. ASSUME NEW w \in Workers, NEW j \in Jobs, Claim(w, j) PROVE Leases!Next
    BY <2>3, ClaimTakes DEF Leases!Next, IInv
  <2>4. ASSUME NEW w \in Workers, CommitComplete(w) \/ CommitFail(w) PROVE Leases!Next
    BY <2>4, CommitGivesBack DEF Leases!Next
  <2>5. CASE Elapse
    <3>1. \A j \in Jobs : jobs[j] \in Row /\ jobs'[j] = AgedRow(jobs[j])
      BY <2>5 DEF Elapse, AgedRow, IInv, TypeOK
    <3>2. \A j \in Jobs : LifeOf(jobs'[j], reclaims'[j]) = LifeOf(jobs[j], reclaims[j])
      <4> SUFFICES ASSUME NEW j \in Jobs
                   PROVE  LifeOf(jobs'[j], reclaims'[j]) = LifeOf(jobs[j], reclaims[j])
        OBVIOUS
      <4>1. /\ jobs'[j].status = jobs[j].status /\ jobs'[j].worker_id = jobs[j].worker_id
            /\ reclaims' = reclaims
        BY <2>5, <3>1, AgedRowFacts DEF Elapse
      <4> QED
        BY <4>1 DEF LifeOf, PhaseOf
    <3> QED
      BY <3>2 DEF Lives
  <2>6. CASE UNCHANGED <<jobs, reclaims>>
    BY <2>6 DEF Lives
  <2>7. \A w \in Workers :
           Start(w) \/ Poll(w) \/ SkipTick(w) \/ ClaimNothing(w) \/ HandlerReturns(w)
           \/ (\E r \in BOOLEAN : HandlerRaises(w, r)) \/ CommitConflicts(w)
           \/ CommitErrs(w) \/ Exit(w) \/ Drain(w) \/ Crash(w) => UNCHANGED <<jobs, reclaims>>
    BY DEF Start, Poll, SkipTick, ClaimNothing, HandlerReturns, HandlerRaises,
           CommitConflicts, CommitErrs, Exit, Drain, Crash, tableVars
  <2> QED
    BY <2>1, <2>2, <2>3, <2>4, <2>5, <2>6, <2>7 DEF Next, WorkerStep, vars
<1>3. IInv => TypeOK
  BY DEF IInv
<1> QED
  BY <1>1, <1>2, <1>3, Invariance, PTL DEF Spec, LeasedWorkHolds, Leases!Spec

=============================================================================
