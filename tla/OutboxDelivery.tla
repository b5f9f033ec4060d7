--------------------------- MODULE OutboxDelivery ---------------------------
(***************************************************************************)
(* The realtime outbox as the webhook dispatchers use it: one event        *)
(* published with its outbox row, fanned out to the matching webhook       *)
(* targets and posted to each (SQLAlchemyRealtimeOutboxStore of            *)
(* ruhu/realtime/store.py, SemanticSummaryWebhookDispatcher of             *)
(* ruhu/analytics_tagging/webhooks.py).                                    *)
(*                                                                         *)
(* Every store call is a transaction of its own, so every call is an       *)
(* action.  A claim older than a minute is taken over, and mark_delivered, *)
(* mark_retry and mark_failed go by outbox_id: they do not ask who holds   *)
(* the claim.  A dispatcher saves the whole target it has loaded, before   *)
(* and after it posts, and so does the administrator's PUT.                *)
(***************************************************************************)
EXTENDS Naturals, FiniteSets

CONSTANTS
    Targets,       \* webhook targets of the event's organization
    Dispatchers,   \* run_pending calls that may be under way at once
    Editors,       \* administrators whose PUT of a target may be under way at once
    Pub,           \* the event's outbound_webhooks.publication row
    None,          \* no row, no target, no PUT
    MaxRetries,    \* the targets' max_retries
    MaxCopies,     \* bound: delivery rows per target
    MaxFaults,     \* bound: passes that die or raise, claims that go stale under one
    MaxEdits       \* bound: PUTs and DELETEs of targets

\* outbound_webhooks.delivery rows; the target is in payload and dedupe key.
Deliveries == Targets \X (1 .. MaxCopies)

TargetOf(r) == r[1]

Rows == {Pub} \cup Deliveries

\* A PUT under way: the target and what it will be saved as.
Puts == Targets \X {"active", "inactive"}

ASSUME OutboxAssumption ==
    /\ MaxRetries \in Nat /\ MaxCopies \in Nat /\ MaxFaults \in Nat /\ MaxEdits \in Nat
    /\ Pub \notin Deliveries /\ None \notin Rows \cup Targets \cup Puts \cup Editors

VARIABLES
    rows,       \* realtime_outbox
    target,     \* webhook targets: active, inactive or absent
    put,        \* the PUT each administrator has under way
    at,         \* where each dispatcher is
    row,        \* the row each dispatcher has claimed
    count,      \* its attempt_count as claimed
    todo,       \* targets a fan-out has still to enqueue
    pick,       \* the target it is enqueueing
    plan,       \* history: targets a fan-out has matched
    copy,       \* the target each dispatcher has in memory
    log,        \* history of each row
    promised,   \* history: targets matched by the fan-outs that closed the publication
    overlap,    \* history: the publication was taken over from a live fan-out
    quietOff,   \* history: targets switched off while no delivery or PUT held them
    faults, edits

vars == <<rows, target, put, at, row, count, todo, pick, plan, copy, log,
          promised, overlap, quietOff, faults, edits>>

outside == <<put, faults, edits>>

-----------------------------------------------------------------------------

\* A row as enqueue and events.append insert it.
NewEntry == [status |-> "pending", attempts |-> 0, due |-> TRUE, stale |-> FALSE]

Unused == [NewEntry EXCEPT !.status = "absent"]

NoHistory == [reclaims |-> 0,
              received |-> FALSE, skipped |-> FALSE, fatal |-> FALSE]

Exists(r) == rows[r].status \notin {"absent", "purged"}

\* MUTANT of Claimable: a stale claim is not taken over.
ClaimableIfPending(r) == rows[r].due /\ rows[r].status = "pending"

\* MUTANT of Claimable: the status is not looked at under the lock.
ClaimableAsListed(r) == rows[r].due /\ Exists(r)

\* list_pending, and claim under the row lock.
Claimable(r) ==
    /\ rows[r].due
    /\ \/ rows[r].status = "pending"
       \/ rows[r].status = "claimed" /\ rows[r].stale

Holds(d, r) == at[d] # "idle" /\ row[d] = r

Goto(d, place) == at' = [at EXCEPT ![d] = place]

\* MUTANT of Release: the claimed row is kept.
ReleaseKeepsRow(d) ==
    /\ Goto(d, "idle")
    /\ todo' = [todo EXCEPT ![d] = {}]
    /\ pick' = [pick EXCEPT ![d] = None]
    /\ plan' = [plan EXCEPT ![d] = {}]
    /\ copy' = [copy EXCEPT ![d] = "absent"]
    /\ UNCHANGED <<row, count>>

\* The dispatcher turns to the next row.
Release(d) ==
    /\ Goto(d, "idle")
    /\ row' = [row EXCEPT ![d] = None]
    /\ count' = [count EXCEPT ![d] = 0]
    /\ todo' = [todo EXCEPT ![d] = {}]
    /\ pick' = [pick EXCEPT ![d] = None]
    /\ plan' = [plan EXCEPT ![d] = {}]
    /\ copy' = [copy EXCEPT ![d] = "absent"]

\* mark_delivered, mark_retry, mark_failed: nothing if the row is gone.
Mark(r, entry) == rows' = IF Exists(r) THEN [rows EXCEPT ![r] = entry] ELSE rows

Delivered(r) == [rows[r] EXCEPT !.status = "delivered", !.stale = FALSE]

Failed(r) == [rows[r] EXCEPT !.status = "failed", !.stale = FALSE, !.attempts = @ + 1]

Retried(r) == [rows[r] EXCEPT !.status = "pending", !.stale = FALSE,
                              !.due = FALSE, !.attempts = @ + 1]

\* save_semantic_webhook_target: the whole target, inserted if it is missing.
SaveTarget(d) == target' = [target EXCEPT ![TargetOf(row[d])] = copy[d]]

-----------------------------------------------------------------------------

\* events.append has inserted the event and its publication row in one transaction.
Init ==
    /\ rows = [r \in Rows |-> IF r = Pub THEN NewEntry ELSE Unused]
    /\ target \in [Targets -> {"active", "inactive"}]
    /\ put = [a \in Editors |-> None]
    /\ at = [d \in Dispatchers |-> "idle"]
    /\ row = [d \in Dispatchers |-> None]
    /\ count = [d \in Dispatchers |-> 0]
    /\ todo = [d \in Dispatchers |-> {}]
    /\ pick = [d \in Dispatchers |-> None]
    /\ plan = [d \in Dispatchers |-> {}]
    /\ copy = [d \in Dispatchers |-> "absent"]
    /\ log = [r \in Rows |-> NoHistory]
    /\ promised = {}
    /\ overlap = FALSE
    /\ quietOff = {}
    /\ faults = 0 /\ edits = 0

\* fanout_pending and deliver_pending claim the next listed row.
Claim(d, r) ==
    /\ at[d] = "idle"
    /\ Claimable(r)
    /\ rows' = [rows EXCEPT ![r].status = "claimed", ![r].stale = FALSE]
    /\ Goto(d, IF r = Pub THEN "match" ELSE "load")
    /\ row' = [row EXCEPT ![d] = r]
    /\ count' = [count EXCEPT ![d] = rows[r].attempts]
    /\ log' = [log EXCEPT ![r].reclaims = IF rows[r].status = "claimed" THEN @ + 1 ELSE @]
    /\ overlap' = (overlap \/ (r = Pub /\ \E e \in Dispatchers : Holds(e, Pub)))
    /\ UNCHANGED <<target, todo, pick, plan, copy, promised, quietOff, outside>>

\* MUTANT of Match: the publication is closed before its deliveries exist.
MatchAndClose(d) ==
    /\ at[d] = "match"
    /\ LET matching == {t \in Targets : target[t] = "active"}
       IN  /\ todo' = [todo EXCEPT ![d] = matching]
           /\ plan' = [plan EXCEPT ![d] = matching]
           /\ promised' = promised \cup matching
    /\ Mark(Pub, Delivered(Pub))
    /\ Goto(d, "fanout")
    /\ UNCHANGED <<target, row, count, pick, copy, log, overlap, quietOff, outside>>

\* fanout_pending: the active targets that match the event.
Match(d) ==
    /\ at[d] = "match"
    /\ LET matching == {t \in Targets : target[t] = "active"}
       IN  /\ todo' = [todo EXCEPT ![d] = matching]
           /\ plan' = [plan EXCEPT ![d] = matching]
    /\ Goto(d, "fanout")
    /\ UNCHANGED <<rows, target, row, count, pick, copy, log, promised, overlap, quietOff, outside>>

\* MUTANT of Enqueued: the dedupe key is not looked up.
EnqueuedNever(t) == FALSE

\* Is there a delivery row with the dedupe key of the event and t?
Enqueued(t) == \E r \in Deliveries : TargetOf(r) = t /\ Exists(r)

\* enqueue begins: the look-up locks the rows it finds, and there is no unique
\* index to stop another enqueue that finds none either.
LookUp(d, t) ==
    /\ at[d] = "fanout"
    /\ t \in todo[d]
    /\ todo' = [todo EXCEPT ![d] = @ \ {t}]
    /\ \/ Enqueued(t) /\ UNCHANGED <<at, pick>>
       \/ ~ Enqueued(t) /\ Goto(d, "insert") /\ pick' = [pick EXCEPT ![d] = t]
    /\ UNCHANGED <<rows, target, row, count, plan, copy, log, promised, overlap, quietOff, outside>>

\* The least unused row for the target: outbox_id is a fresh uuid.
Fresh(t, r) ==
    /\ TargetOf(r) = t /\ rows[r].status = "absent"
    /\ \A q \in Deliveries : TargetOf(q) = t /\ rows[q].status = "absent" => r[2] <= q[2]

\* enqueue commits its insert.
Insert(d) ==
    /\ at[d] = "insert"
    /\ \E r \in Deliveries :
          /\ Fresh(pick[d], r)
          /\ rows' = [rows EXCEPT ![r] = NewEntry]
    /\ Goto(d, "fanout")
    /\ pick' = [pick EXCEPT ![d] = None]
    /\ UNCHANGED <<target, row, count, todo, plan, copy, log, promised, overlap, quietOff, outside>>

\* mark_delivered of the publication, with or without targets.
ClosePublication(d) ==
    /\ at[d] = "fanout"
    /\ todo[d] = {}
    /\ Mark(Pub, Delivered(Pub))
    /\ promised' = promised \cup plan[d]
    /\ Release(d)
    /\ UNCHANGED <<target, log, overlap, quietOff, outside>>

-----------------------------------------------------------------------------

\* MUTANT of LoadTarget: the targets are cached as the fan-out saw them.
LoadCachedTarget(d) ==
    /\ at[d] = "load"
    /\ copy' = [copy EXCEPT ![d] = "active"]
    /\ Goto(d, "attempt")
    /\ UNCHANGED <<rows, target, row, count, todo, pick, plan, log, promised, overlap, quietOff, outside>>

\* _deliver_entry: load the target; one that is gone or inactive is skipped.
LoadTarget(d) ==
    /\ at[d] = "load"
    /\ copy' = [copy EXCEPT ![d] = target[TargetOf(row[d])]]
    /\ Goto(d, IF target[TargetOf(row[d])] = "active" THEN "attempt" ELSE "skip")
    /\ UNCHANGED <<rows, target, row, count, todo, pick, plan, log, promised, overlap, quietOff, outside>>

\* mark_delivered of a skipped delivery.
Skip(d) ==
    /\ at[d] = "skip"
    /\ Mark(row[d], Delivered(row[d]))
    /\ log' = [log EXCEPT ![row[d]].skipped = TRUE]
    /\ Release(d)
    /\ UNCHANGED <<target, promised, overlap, quietOff, outside>>

\* mark_attempt.
MarkAttempt(d) ==
    /\ at[d] = "attempt"
    /\ SaveTarget(d)
    /\ Goto(d, "send")
    /\ UNCHANGED <<rows, row, count, todo, pick, plan, copy, log, promised, overlap, quietOff, outside>>

\* MUTANT of Send: the response's status is not looked at.
SendWithoutCheck(d) ==
    /\ at[d] = "send"
    /\ log' \in {log, [log EXCEPT ![row[d]].received = TRUE],
                 [log EXCEPT ![row[d]].fatal = TRUE]}
    /\ Goto(d, "sent")
    /\ UNCHANGED <<rows, target, row, count, todo, pick, plan, copy, promised, overlap, quietOff, outside>>

\* classify_semantic_webhook_error.  Fatal is an answer that rejects the post, and
\* also any exception the classifier does not know: the secret is not configured,
\* or the connection broke off in another way than it names.
Classified(fatal) == IF fatal THEN "fatal" ELSE "retryable"

\* _send_to_target: the receiver accepts, and that is known or not; or it has not
\* got the post, or answers with an error.  A fatal error says nothing of which.
Send(d) ==
    /\ at[d] = "send"
    /\ \E received \in {log[row[d]].received, TRUE}, fatal \in BOOLEAN :
          /\ log' = [log EXCEPT ![row[d]].received = received,
                                ![row[d]].fatal = @ \/ fatal]
          /\ \/ Goto(d, Classified(fatal))
             \/ received /\ ~ fatal /\ Goto(d, "sent")
    /\ UNCHANGED <<rows, target, row, count, todo, pick, plan, copy, promised, overlap, quietOff, outside>>

\* mark_delivered after the post succeeded.
MarkDelivered(d) ==
    /\ at[d] = "sent"
    /\ Mark(row[d], Delivered(row[d]))
    /\ Goto(d, "success")
    /\ UNCHANGED <<target, row, count, todo, pick, plan, copy, log, promised, overlap, quietOff, outside>>

\* mark_success, the last step of a delivery.
MarkSuccess(d) ==
    /\ at[d] = "success"
    /\ SaveTarget(d)
    /\ Release(d)
    /\ UNCHANGED <<rows, log, promised, overlap, quietOff, outside>>

\* mark_failure.
MarkFailure(d) ==
    /\ at[d] \in {"retryable", "fatal"}
    /\ SaveTarget(d)
    /\ Goto(d, IF at[d] = "fatal" THEN "giveup" ELSE "retry")
    /\ UNCHANGED <<rows, row, count, todo, pick, plan, copy, log, promised, overlap, quietOff, outside>>

\* _schedule_retry compares with the attempt count the claim returned.
RetriesLeft(d) == count[d] + 1 <= MaxRetries

\* _schedule_retry: mark_retry or mark_failed.
ScheduleRetry(d) ==
    /\ at[d] \in {"retry", "giveup"}
    /\ Mark(row[d], IF at[d] = "retry" /\ RetriesLeft(d)
                    THEN Retried(row[d]) ELSE Failed(row[d]))
    /\ Release(d)
    /\ UNCHANGED <<target, log, promised, overlap, quietOff, outside>>

-----------------------------------------------------------------------------

\* The pass dies, or a call of it raises and run_pending ends.  The row stays claimed.
Crash(d) ==
    /\ at[d] # "idle"
    /\ faults < MaxFaults
    /\ faults' = faults + 1
    /\ Release(d)
    /\ UNCHANGED <<rows, target, log, promised, overlap, quietOff, put, edits>>

\* More than reclaim_after_seconds since the claim, and nobody works on the row.
ClaimExpires(r) ==
    /\ rows[r].status = "claimed" /\ ~ rows[r].stale
    /\ \A d \in Dispatchers : ~ Holds(d, r)
    /\ rows' = [rows EXCEPT ![r].stale = TRUE]
    /\ UNCHANGED <<target, at, row, count, todo, pick, plan, copy, log, promised, overlap, quietOff, outside>>

\* The same under a dispatcher that is slower than that.
ClaimOverruns(r) ==
    /\ rows[r].status = "claimed" /\ ~ rows[r].stale
    /\ \E d \in Dispatchers : Holds(d, r)
    /\ faults < MaxFaults
    /\ faults' = faults + 1
    /\ rows' = [rows EXCEPT ![r].stale = TRUE]
    /\ UNCHANGED <<target, at, row, count, todo, pick, plan, copy, log, promised, overlap, quietOff, put, edits>>

\* available_at of a retry passes.
BackoffPasses(r) ==
    /\ ~ rows[r].due
    /\ rows' = [rows EXCEPT ![r].due = TRUE]
    /\ UNCHANGED <<target, at, row, count, todo, pick, plan, copy, log, promised, overlap, quietOff, outside>>

\* purge_delivered: a delivered row past its retention.
Purge(r) ==
    /\ rows[r].status = "delivered"
    /\ rows' = [rows EXCEPT ![r].status = "purged"]
    /\ UNCHANGED <<target, at, row, count, todo, pick, plan, copy, log, promised, overlap, quietOff, outside>>

\* No delivery to t and no PUT of it other than a's is under way.
Quiet(t, a) ==
    /\ \A d \in Dispatchers : at[d] # "idle" /\ row[d] # Pub => TargetOf(row[d]) # t
    /\ \A b \in Editors \ {a} : put[b] # None => put[b][1] # t

\* update_semantic_webhook_target loads the target and applies the payload to it,
\* which may set is_active or leave it as loaded.
LoadForEdit(a, t, state) ==
    /\ edits < MaxEdits
    /\ put[a] = None /\ target[t] # "absent"
    /\ edits' = edits + 1
    /\ put' = [put EXCEPT ![a] = <<t, state>>]
    /\ quietOff' = IF state = "active" THEN quietOff \ {t} ELSE quietOff
    /\ UNCHANGED <<rows, target, at, row, count, todo, pick, plan, copy, log, promised, overlap, faults>>

\* It saves the whole target, whatever became of it meanwhile.
SaveEdit(a) ==
    /\ put[a] # None
    /\ LET t == put[a][1]
           state == put[a][2]
       IN  /\ target' = [target EXCEPT ![t] = state]
           /\ quietOff' = IF state = "inactive" /\ Quiet(t, a) THEN quietOff \cup {t} ELSE quietOff
    /\ put' = [put EXCEPT ![a] = None]
    /\ UNCHANGED <<rows, at, row, count, todo, pick, plan, copy, log, promised, overlap, faults, edits>>

\* It is refused (its headers are reserved ones), or dies.
DropEdit(a) ==
    /\ put[a] # None
    /\ put' = [put EXCEPT ![a] = None]
    /\ UNCHANGED <<rows, target, at, row, count, todo, pick, plan, copy, log, promised, overlap,
                   quietOff, faults, edits>>

\* delete_semantic_webhook_target.
DeleteTarget(t) ==
    /\ edits < MaxEdits
    /\ target[t] # "absent"
    /\ edits' = edits + 1
    /\ target' = [target EXCEPT ![t] = "absent"]
    /\ quietOff' = IF Quiet(t, None) THEN quietOff \cup {t} ELSE quietOff
    /\ UNCHANGED <<rows, put, at, row, count, todo, pick, plan, copy, log, promised, overlap, faults>>

DispatcherStep(d) ==
    \/ \E r \in Rows : Claim(d, r)
    \/ Match(d)
    \/ \E t \in Targets : LookUp(d, t)
    \/ Insert(d) \/ ClosePublication(d)
    \/ LoadTarget(d) \/ Skip(d) \/ MarkAttempt(d) \/ Send(d)
    \/ MarkDelivered(d) \/ MarkSuccess(d) \/ MarkFailure(d) \/ ScheduleRetry(d)

Next ==
    \/ \E d \in Dispatchers : DispatcherStep(d) \/ Crash(d)
    \/ \E r \in Rows : ClaimExpires(r) \/ ClaimOverruns(r) \/ BackoffPasses(r) \/ Purge(r)
    \/ \E a \in Editors :
          \/ \E t \in Targets, state \in {"active", "inactive"} : LoadForEdit(a, t, state)
          \/ SaveEdit(a) \/ DropEdit(a)
    \/ \E t \in Targets : DeleteTarget(t)

Spec == Init /\ [][Next]_vars

\* A dispatcher's pass goes on, the recurring tick starts passes again, and
\* time passes.  Crashes, overruns, purges and edits are not fair.
FairSpec ==
    /\ Spec
    /\ \A d \in Dispatchers : WF_vars(DispatcherStep(d))
    /\ \A r \in Rows : WF_vars(ClaimExpires(r)) /\ WF_vars(BackoffPasses(r))

-----------------------------------------------------------------------------

Statuses == {"absent", "pending", "claimed", "delivered", "failed", "purged"}
Places == {"idle", "match", "fanout", "insert", "load", "skip", "attempt", "send",
           "sent", "success", "retryable", "fatal", "retry", "giveup"}
TargetStates == {"active", "inactive", "absent"}

\* The outbox, the targets and the dispatchers keep their types, and whoever
\* works on a row has claimed one of the right topic.
TypeOK ==
    /\ rows \in [Rows -> [status : Statuses, attempts : Nat, due : BOOLEAN, stale : BOOLEAN]]
    /\ target \in [Targets -> TargetStates]
    /\ put \in [Editors -> Puts \cup {None}]
    /\ at \in [Dispatchers -> Places]
    /\ row \in [Dispatchers -> Rows \cup {None}]
    /\ count \in [Dispatchers -> Nat]
    /\ todo \in [Dispatchers -> SUBSET Targets]
    /\ pick \in [Dispatchers -> Targets \cup {None}]
    /\ plan \in [Dispatchers -> SUBSET Targets]
    /\ copy \in [Dispatchers -> TargetStates]
    /\ log \in [Rows -> [reclaims : Nat, received : BOOLEAN,
                         skipped : BOOLEAN, fatal : BOOLEAN]]
    /\ promised \in SUBSET Targets
    /\ overlap \in BOOLEAN
    /\ quietOff \in SUBSET Targets
    /\ faults \in Nat /\ edits \in Nat
    /\ \A d \in Dispatchers :
          /\ at[d] = "idle" <=> row[d] = None
          /\ at[d] \in {"match", "fanout", "insert"} => row[d] = Pub
          /\ at[d] = "insert" => pick[d] # None
          /\ at[d] \notin {"idle", "match", "fanout", "insert"} => row[d] \in Deliveries

\* A row's final status is justified whatever stale dispatchers do to it: a
\* delivery marked delivered was received, or skipped because its target was
\* found gone or inactive; one given up had an attempt end in an error classified
\* as fatal (which an unknown error is, even when the receiver had the post), or
\* had used up its retries, a claim lost to a crash not being counted against it.
SettledIsJustified ==
    /\ \A r \in Deliveries :
          rows[r].status \in {"delivered", "purged"} => log[r].received \/ log[r].skipped
    /\ \A r \in Rows :
          rows[r].status = "failed" => log[r].fatal \/ rows[r].attempts > MaxRetries

\* Once the publication is closed every target that was matched has, or had, a
\* delivery row: a crash in the middle of a fan-out loses none.
FanOutIsComplete ==
    \A t \in promised : \E r \in Deliveries : TargetOf(r) = t /\ rows[r].status # "absent"

\* The look-up keeps one delivery row per target although fan-outs are repeated
\* after crashes.
OneRowPerTarget ==
    ~ overlap =>
        \A q, r \in Deliveries :
            TargetOf(q) = TargetOf(r) /\ Exists(q) /\ Exists(r) => q = r

\* A crash in the middle of a fan-out loses no delivery, and repeating the
\* fan-out doubles none; only two fan-outs at work at once can.
FanOutIsExact == FanOutIsComplete /\ OneRowPerTarget

\* A settled row is opened again only if a claim on it was taken over.
SettledIsFinal ==
    [][\A r \in Rows :
          rows[r].status \in {"delivered", "failed"} /\ rows'[r].status \in {"pending", "claimed"}
             => log[r].reclaims > 0]_vars

\* A target switched off or deleted while no delivery to it and no PUT of it was
\* under way stays off until an administrator asks to switch it on: only copies
\* then in memory write it back.
OffStaysOff == \A t \in quietOff : target[t] # "active"

\* Every row is settled in the end, for good, although passes die and overrun.
EveryRowSettles ==
    \A r \in Rows :
        rows[r].status = "pending" ~> [](rows[r].status \in {"delivered", "failed", "purged"})
=============================================================================
