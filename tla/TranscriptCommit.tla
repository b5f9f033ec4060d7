-------------------------- MODULE TranscriptCommit --------------------------
(***************************************************************************)
(* Deliveries of one final transcript, all with its idempotency key:       *)
(* commit_final_transcript of ruhu/realtime/service.py over the            *)
(* idempotency records of ruhu/realtime/store.py.                          *)
(*                                                                         *)
(* A delivery takes a processing lease on the key's record, appends the    *)
(* accepted event, links it to the record, has the kernel process the turn *)
(* and completes the record with the turn's reply.  Each is a transaction  *)
(* of its own, and a lease older than five minutes is taken over.  Of the  *)
(* kernel it uses what ConversationTurn establishes: the first turn with   *)
(* the key commits and has a reply, a later one is a duplicate without.    *)
(***************************************************************************)
EXTENDS Naturals

CONSTANTS
    Deliveries,   \* requests that carry the transcript
    None          \* no value

ASSUME DeliveryAssumption == None \notin Deliveries

VARIABLES
    record,     \* the idempotency record of the key
    events,     \* final_transcript_observed events, by the delivery that appended
    turn,       \* the delivery whose turn is in the turn log
    at,         \* where each delivery is
    event,      \* the accepted event each delivery works with
    reply,      \* the turn result each delivery holds
    told,       \* the accepted event each delivery's caller was given
    lapsed      \* history: deliveries whose lease went stale

vars == <<record, events, turn, at, event, reply, told, lapsed>>

\* An idempotency record as a store call leaves it: its status and token, the
\* event linked to it, the turn result kept with it.
Written(status, token, ev, rep) ==
    [status |-> status, token |-> token, stale |-> FALSE, event |-> ev, reply |-> rep]

InFlight == {"acquire", "append", "link", "process", "failing",
             "completing", "lost"}

\* MUTANT of Completed: a linked event counts as a result.
CompletedOnceLinked == record.event # None

Completed == record.status = "completed" /\ record.event # None

-----------------------------------------------------------------------------

Init ==
    /\ record = Written("absent", None, None, "none")
    /\ events = {}
    /\ turn = None
    /\ at = [d \in Deliveries |-> "new"]
    /\ event = [d \in Deliveries |-> None]
    /\ reply = [d \in Deliveries |-> "none"]
    /\ told = [d \in Deliveries |-> None]
    /\ lapsed = {}

\* _load_completed_transcript_result: answer with the record's event.
Replays(d) ==
    /\ at' = [at EXCEPT ![d] = "answered"]
    /\ told' = [told EXCEPT ![d] = record.event]

\* The unlocked look at the record: a completed one is replayed.
Peek(d) ==
    /\ at[d] = "new"
    /\ \/ Completed /\ Replays(d)
       \/ ~ Completed /\ at' = [at EXCEPT ![d] = "acquire"] /\ UNCHANGED told
    /\ UNCHANGED <<record, events, turn, event, reply, lapsed>>

\* MUTANT of Available: a lease is given away before it is stale.
AvailableWhileProcessing == record.status \in {"absent", "failed", "processing"}

\* May acquire_processing give the lease to someone new?
Available ==
    \/ record.status \in {"absent", "failed"}
    \/ record.status = "processing" /\ record.stale

\* MUTANT of Acquire: a taken-over record's event is not picked up.
AcquireForgetsEvent(d) ==
    /\ at[d] = "acquire"
    /\ Available
    /\ record' = Written("processing", d, record.event, record.reply)
    /\ at' = [at EXCEPT ![d] = IF record.event = None THEN "append" ELSE "process"]
    /\ UNCHANGED <<events, turn, event, reply, told, lapsed>>

\* acquire_processing under the row lock.  What an earlier holder linked to
\* the record stays.
Acquire(d) ==
    /\ at[d] = "acquire"
    /\ Available
    /\ record' = Written("processing", d, record.event, record.reply)
    /\ event' = [event EXCEPT ![d] = record.event]
    /\ at' = [at EXCEPT ![d] = IF record.event = None THEN "append" ELSE "process"]
    /\ UNCHANGED <<events, turn, reply, told, lapsed>>

\* It finds the record completed.
AcquireFindsResult(d) ==
    /\ at[d] = "acquire"
    /\ Completed
    /\ Replays(d)
    /\ UNCHANGED <<record, events, turn, event, reply, lapsed>>

\* MUTANT of WaitTimesOut: the wait has no deadline.
WaitsForever(d) == FALSE /\ UNCHANGED vars

\* Somebody else holds the lease until the wait's deadline.
WaitTimesOut(d) ==
    /\ at[d] = "acquire"
    /\ ~ Available /\ ~ Completed
    /\ at' = [at EXCEPT ![d] = "raised"]
    /\ UNCHANGED <<record, events, turn, event, reply, told, lapsed>>

\* events.append.
AppendEvent(d) ==
    /\ at[d] = "append"
    /\ events' = events \cup {d}
    /\ event' = [event EXCEPT ![d] = d]
    /\ at' = [at EXCEPT ![d] = "link"]
    /\ UNCHANGED <<record, turn, reply, told, lapsed>>

\* MUTANT of OwnedBy: the token is not compared.
OwnedByAnyone(d) == TRUE

\* _idempotency_owned_by.
OwnedBy(d) == record.token = d

\* save_result_event, if the lease is still held.
LinkEvent(d) ==
    /\ at[d] = "link"
    /\ record' = IF OwnedBy(d) THEN [record EXCEPT !.event = event[d]] ELSE record
    /\ at' = [at EXCEPT ![d] = IF OwnedBy(d) THEN "process" ELSE "lost"]
    /\ UNCHANGED <<events, turn, event, reply, told, lapsed>>

\* process_turn returns: its reply, or a duplicate result without one.
ProcessTurn(d) ==
    /\ at[d] = "process"
    /\ turn' = IF turn = None THEN d ELSE turn
    /\ reply' = [reply EXCEPT ![d] = IF turn = None THEN "full" ELSE "empty"]
    /\ at' = [at EXCEPT ![d] = "completing"]
    /\ UNCHANGED <<record, events, event, told, lapsed>>

\* process_turn raises, before or after its commit.
ProcessTurnRaises(d) ==
    /\ at[d] = "process"
    /\ turn' \in {turn, IF turn = None THEN d ELSE turn}
    /\ at' = [at EXCEPT ![d] = "failing"]
    /\ UNCHANGED <<record, events, event, reply, told, lapsed>>

\* fail_processing, if the lease is still held; the exception goes on.
FailProcessing(d) ==
    /\ at[d] = "failing"
    /\ record' = IF OwnedBy(d)
                 THEN Written("failed", None, event[d], record.reply)
                 ELSE record
    /\ at' = [at EXCEPT ![d] = "raised"]
    /\ UNCHANGED <<events, turn, event, reply, told, lapsed>>

\* complete_processing by the holder of the lease.
CompleteProcessing(d) ==
    /\ at[d] = "completing"
    /\ OwnedBy(d)
    /\ record' = Written("completed", None, event[d], reply[d])
    /\ at' = [at EXCEPT ![d] = "answered"]
    /\ told' = [told EXCEPT ![d] = event[d]]
    /\ UNCHANGED <<events, turn, event, reply, lapsed>>

\* complete_processing finds that the lease is gone.
CompleteFindsLeaseGone(d) ==
    /\ at[d] = "completing"
    /\ ~ OwnedBy(d)
    /\ at' = [at EXCEPT ![d] = "lost"]
    /\ UNCHANGED <<record, events, turn, event, reply, told, lapsed>>

\* A delivery that lost its lease replays what the new holder completed, or
\* raises when it has not.
AfterLosingLease(d) ==
    /\ at[d] = "lost"
    /\ \/ Completed /\ Replays(d)
       \/ ~ Completed /\ at' = [at EXCEPT ![d] = "raised"] /\ UNCHANGED told
    /\ UNCHANGED <<record, events, turn, event, reply, lapsed>>

\* The process dies, or a store call raises; a lease it holds stays.
Crash(d) ==
    /\ at[d] \in InFlight
    /\ at' = [at EXCEPT ![d] = "raised"]
    /\ UNCHANGED <<record, events, turn, event, reply, told, lapsed>>

\* Five minutes pass on a lease.
GoStale ==
    /\ record.status = "processing" /\ ~ record.stale
    /\ record' = [record EXCEPT !.stale = TRUE]
    /\ lapsed' = lapsed \cup {record.token}
    /\ UNCHANGED <<events, turn, at, event, reply, told>>

Deliver(d) ==
    \/ Peek(d)
    \/ Acquire(d)
    \/ AcquireFindsResult(d)
    \/ WaitTimesOut(d)
    \/ AppendEvent(d)
    \/ LinkEvent(d)
    \/ ProcessTurn(d)
    \/ ProcessTurnRaises(d)
    \/ FailProcessing(d)
    \/ CompleteProcessing(d)
    \/ CompleteFindsLeaseGone(d)
    \/ AfterLosingLease(d)

Next ==
    \/ \E d \in Deliveries : Deliver(d) \/ Crash(d)
    \/ GoStale

Spec == Init /\ [][Next]_vars

\* Each request runs in a thread of the API process: it keeps taking steps
\* until it returns, raises or dies.
FairSpec == Spec /\ \A d \in Deliveries : WF_vars(Deliver(d))

-----------------------------------------------------------------------------
(* Properties *)

Replies == {"none", "full", "empty"}

\* The record and what the deliveries hold have their types, and a delivery
\* past the append or the takeover works with an event.
TypeOK ==
    /\ record \in [status : {"absent", "processing", "failed", "completed"},
                   token : Deliveries \cup {None}, stale : BOOLEAN,
                   event : Deliveries \cup {None}, reply : Replies]
    /\ events \subseteq Deliveries
    /\ turn \in Deliveries \cup {None}
    /\ at \in [Deliveries -> InFlight \cup {"new", "answered", "raised"}]
    /\ event \in [Deliveries -> Deliveries \cup {None}]
    /\ \A d \in Deliveries :
          at[d] \in {"link", "process", "failing", "completing"} => event[d] # None
    /\ reply \in [Deliveries -> Replies]
    /\ told \in [Deliveries -> Deliveries \cup {None}]
    /\ lapsed \subseteq Deliveries

\* One delivery settles the transcript's accepted event and every answer names
\* it, although leases are taken over from deliveries that still run
\* (complete_processing's token test, the replays).
Promise == INSTANCE OneOutcome WITH
    Events <- Deliveries, outcome <- IF Completed THEN record.event ELSE None
OneOutcomeHolds == Promise!Spec

\* The kernel, of which a call is one step here, does for the deliveries what
\* it promises those of one conversation's turns (SerialLog), all with one key:
\* what is assumed of it is no more than what ConversationTurn is proved to keep.
AnswerOf(d) ==
    CASE reply[d] = "full"  -> [answer |-> "committed", key |-> "transcript"]
      [] reply[d] = "empty" -> [answer |-> "duplicate", key |-> "transcript"]
      [] OTHER -> [answer |-> IF at[d] \in {"failing", "raised"} THEN "gone" ELSE "pending",
                   key |-> None]
Kernel == INSTANCE SerialLog WITH
    Requests <- Deliveries, Keys <- {"transcript"},
    log <- IF turn = None THEN {} ELSE {[seq |-> 1, key |-> "transcript", by |-> turn]},
    length <- IF turn = None THEN 0 ELSE 1,
    told <- [d \in Deliveries |-> AnswerOf(d)]
KernelAsPromised == Kernel!Spec

\* A caller that is given an answer has its transcript accepted in the event
\* log and its turn in the turn log, whoever did the work and whatever crashed.
AnsweredIsDurable ==
    \A d \in Deliveries : told[d] # None => told[d] \in events /\ turn # None

\* The reply is stored with the result unless the delivery whose turn committed
\* let its lease lapse or failed: only then does a later delivery, to which the
\* kernel answers "duplicate", complete the record without one.
ReplyLostOnlyByLapse ==
    Completed => \/ record.reply = "full"
                 \/ record.reply = "empty" /\ (turn \in lapsed \/ at[turn] = "raised")

\* No delivery waits for another forever: each is answered or raises, even
\* when the holder of the lease has died (the wait's deadline).
EveryDeliveryEnds ==
    \A d \in Deliveries : at[d] \in InFlight ~> at[d] \in {"answered", "raised"}

=============================================================================
