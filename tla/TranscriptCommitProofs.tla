----------------------- MODULE TranscriptCommitProofs -----------------------
(***************************************************************************)
(* What TranscriptCommit guarantees for any number of deliveries, that it  *)
(* implements OneOutcome, and that what it takes from the kernel is what   *)
(* the kernel promises.  The invariant says who may still believe in  *)
(* holding the lease: a working delivery holds it or let it lapse, so when *)
(* a record is completed without the reply the turn's delivery had lost it.*)
(***************************************************************************)
EXTENDS TranscriptCommit, TLAPS

Working == {"append", "link", "process", "failing", "completing"}

\* Where a delivery is once the kernel has answered it.
Processed == {"failing", "completing", "lost", "answered", "raised"}

\* The record names a holder exactly while it is being processed, a stale lease
\* has lapsed, and a completed record has an event and a reply.
RecordConsistent ==
    /\ record.status = "processing" <=> record.token # None
    /\ record.stale => record.token \in lapsed
    /\ record.event # None => record.event \in events
    /\ record.status = "completed" =>
          record.event # None /\ turn # None /\ record.reply \in {"full", "empty"}

\* A delivery at work holds the lease or let it lapse; what it holds is real.
WorkersConsistent ==
    \A d \in Deliveries :
        /\ at[d] \in Working => record.token = d \/ d \in lapsed
        /\ event[d] # None => event[d] \in events
        /\ at[d] = "completing" =>
              /\ turn # None
              /\ reply[d] \in {"full", "empty"}
              /\ reply[d] = "empty" => turn # d
        /\ turn = d => at[d] \in Processed
        /\ told[d] # None => Completed /\ told[d] = record.event /\ at[d] = "answered"

\* The delivery whose turn committed still has the lease, or has lost it, or
\* its reply is stored.
TurnAccounted ==
    turn # None => \/ turn \in lapsed
                   \/ at[turn] = "raised"
                   \/ record.token = turn
                   \/ Completed /\ record.reply = "full"

CommitInv ==
    /\ TypeOK
    /\ RecordConsistent
    /\ WorkersConsistent
    /\ TurnAccounted
    /\ ReplyLostOnlyByLapse

USE DEF InFlight, Working, Processed, Replies

Statuses == {"absent", "processing", "failed", "completed"}
Records == [status : Statuses, token : Deliveries \cup {None}, stale : BOOLEAN,
            event : Deliveries \cup {None}, reply : Replies]

\* Nothing is there before the first delivery.
LEMMA InitCommitInv == Init => CommitInv
<1>. SUFFICES ASSUME Init PROVE CommitInv
  OBVIOUS
<1>1. /\ record \in Records /\ record.status = "absent" /\ record.token = None
      /\ record.event = None /\ record.stale = FALSE
  BY DEF Init, Written, Records, Statuses
<1>. QED
  BY <1>1, DeliveryAssumption
  DEF Init, CommitInv, TypeOK, RecordConsistent, WorkersConsistent, TurnAccounted,
      ReplyLostOnlyByLapse, Completed, Records, Statuses

\* Acquiring a lease: the earlier holder, if any, let it lapse.
LEMMA AcquireKeeps ==
    ASSUME CommitInv, NEW d \in Deliveries, Acquire(d)
    PROVE  CommitInv'
<1>1. record \in Records
  BY DEF CommitInv, TypeOK, Records, Statuses
<1>2. /\ record' \in Records /\ record'.token = d /\ record'.status = "processing"
      /\ record'.stale = FALSE /\ record'.event = record.event
  <2>1. record.event \in Deliveries \cup {None} /\ record.reply \in Replies
    BY <1>1 DEF Records
  <2>. QED  BY <2>1 DEF Acquire, Written, Records, Statuses
<1>3. /\ ~ Completed /\ ~ Completed'
      /\ record.token # None => record.token \in lapsed
  BY <1>2 DEF CommitInv, RecordConsistent, Acquire, Available, Completed
<1>5. TypeOK'
  <2>1. event' \in [Deliveries -> Deliveries \cup {None}]
    BY <1>1 DEF CommitInv, TypeOK, Acquire, Records
  <2>2. at' \in [Deliveries -> InFlight \cup {"new", "answered", "raised"}]
    BY DEF CommitInv, TypeOK, Acquire
  <2>3. \A q \in Deliveries :
           at'[q] \in {"link", "process", "failing", "completing"} => event'[q] # None
    BY DEF CommitInv, TypeOK, Acquire
  <2>. QED  BY <1>2, <2>1, <2>2, <2>3 DEF CommitInv, TypeOK, Acquire, Records, Statuses
<1>6. RecordConsistent'
  BY <1>2, DeliveryAssumption DEF CommitInv, RecordConsistent, Acquire
<1>7. WorkersConsistent'
  <2>1. \A q \in Deliveries : told[q] = None
    BY <1>3 DEF CommitInv, WorkersConsistent
  <2>2. \A q \in Deliveries : q # d => at'[q] = at[q] /\ event'[q] = event[q]
    BY DEF CommitInv, TypeOK, Acquire
  <2>3. at'[d] \in {"append", "process"} /\ event'[d] = record.event
    BY DEF CommitInv, TypeOK, Acquire
  <2>4. UNCHANGED <<events, turn, reply, told, lapsed>>
    BY DEF Acquire
  <2>5. \A q \in Deliveries : at'[q] \in Working => record'.token = q \/ q \in lapsed'
    BY <1>2, <1>3, <2>2, <2>4, DeliveryAssumption DEF CommitInv, WorkersConsistent
  <2>6. \A q \in Deliveries : event'[q] # None => event'[q] \in events'
    BY <2>2, <2>3, <2>4 DEF CommitInv, RecordConsistent, WorkersConsistent
  <2>7. \A q \in Deliveries : at'[q] = "completing" => q # d /\ at[q] = "completing"
    BY <2>2, <2>3
  <2>8. turn # d /\ \A q \in Deliveries : turn' = q => at'[q] \in Processed
    BY <2>2, <2>4 DEF CommitInv, WorkersConsistent, Acquire
  <2>. QED  BY <2>1, <2>4, <2>5, <2>6, <2>7, <2>8 DEF CommitInv, WorkersConsistent
<1>8. TurnAccounted'
  <2>1. \A q \in Deliveries : q # d => at'[q] = at[q]
    BY DEF CommitInv, TypeOK, Acquire
  <2>. QED  BY <1>2, <1>3, <2>1 DEF CommitInv, TypeOK, TurnAccounted, Acquire
<1>9. ReplyLostOnlyByLapse'
  BY <1>3 DEF ReplyLostOnlyByLapse
<1>. QED  BY <1>5, <1>6, <1>7, <1>8, <1>9 DEF CommitInv

\* A step of one delivery that leaves the record alone: it goes to a place it
\* may be in with what it holds, and the others keep theirs.
Move(d) ==
    /\ UNCHANGED <<record, lapsed>>
    /\ events \subseteq events'
    /\ \A q \in Deliveries \ {d} :
          /\ at'[q] = at[q] /\ event'[q] = event[q]
          /\ reply'[q] = reply[q] /\ told'[q] = told[q]
    /\ at[d] # "answered" /\ at[d] # "raised"
    /\ at'[d] \in Working => at[d] \in Working
    /\ event'[d] = event[d] \/ event'[d] \in events'
    /\ turn # None => turn' = turn
    /\ turn = None => turn' = None \/ (turn' = d /\ at[d] \in Working)
    /\ turn' = d => at'[d] \in Processed
    /\ at'[d] = "completing" =>
          turn' # None /\ reply'[d] \in {"full", "empty"} /\ turn # d
          /\ (reply'[d] = "empty" => turn' # d)
    /\ \/ told'[d] = told[d]
       \/ Completed /\ told'[d] = record.event /\ at'[d] = "answered"

\* Such a step keeps the invariant.
LEMMA MoveKeeps ==
    ASSUME CommitInv, NEW d \in Deliveries, TypeOK', Move(d)
    PROVE  CommitInv'
<1>1. Completed' = Completed
  BY DEF Move, Completed
<1>3. RecordConsistent'
  BY DEF CommitInv, RecordConsistent, Move
<1>4. WorkersConsistent'
  <2>1. ASSUME NEW q \in Deliveries
        PROVE  at'[q] \in Working => record'.token = q \/ q \in lapsed'
    BY DEF CommitInv, WorkersConsistent, Move
  <2>2. ASSUME NEW q \in Deliveries
        PROVE  event'[q] # None => event'[q] \in events'
    BY DEF CommitInv, WorkersConsistent, Move
  <2>3. ASSUME NEW q \in Deliveries, at'[q] = "completing"
        PROVE  /\ turn' # None
               /\ reply'[q] \in {"full", "empty"}
               /\ reply'[q] = "empty" => turn' # q
    BY <2>3 DEF CommitInv, WorkersConsistent, Move
  <2>4. ASSUME NEW q \in Deliveries, told'[q] # None
        PROVE  Completed' /\ told'[q] = record'.event /\ at'[q] = "answered"
    BY <1>1, <2>4 DEF CommitInv, WorkersConsistent, Move
  <2>5. ASSUME NEW q \in Deliveries, turn' = q
        PROVE  at'[q] \in Processed
    <3>1. CASE q = d
      BY <2>5, <3>1 DEF Move
    <3>2. CASE q # d
      <4>1. turn = q
        BY <2>5, <3>2, DeliveryAssumption DEF Move
      <4>. QED  BY <3>2, <4>1 DEF CommitInv, WorkersConsistent, Move
    <3>. QED  BY <3>1, <3>2
  <2>. QED  BY <2>1, <2>2, <2>3, <2>4, <2>5 DEF WorkersConsistent
<1>5. TurnAccounted'
  <2>1. CASE turn = None
    BY <1>1, <2>1 DEF CommitInv, WorkersConsistent, TurnAccounted, Move
  <2>2. CASE turn # None
    <3>1. turn' = turn /\ turn \in Deliveries
      BY <2>2 DEF CommitInv, TypeOK, Move
    <3>2. at[turn] = "raised" => at'[turn] = "raised"
      BY <3>1 DEF Move
    <3>. QED  BY <1>1, <3>1, <3>2 DEF CommitInv, TurnAccounted, Move
  <2>. QED  BY <2>1, <2>2
<1>6. ReplyLostOnlyByLapse'
  <2>1. CASE Completed
    <3>1. turn # None /\ turn' = turn /\ turn \in Deliveries
      BY <2>1 DEF CommitInv, TypeOK, RecordConsistent, Completed, Move
    <3>2. at[turn] = "raised" => at'[turn] = "raised"
      BY <3>1 DEF Move
    <3>. QED  BY <1>1, <2>1, <3>1, <3>2 DEF CommitInv, ReplyLostOnlyByLapse, Move
  <2>2. CASE ~ Completed
    BY <1>1, <2>2 DEF ReplyLostOnlyByLapse
  <2>. QED  BY <2>1, <2>2
<1>. QED  BY <1>3, <1>4, <1>5, <1>6 DEF CommitInv

\* Steps that replay, wait, give up or die.
LEMMA QuietKeeps ==
    ASSUME CommitInv, NEW d \in Deliveries,
           \/ Peek(d) \/ AcquireFindsResult(d) \/ WaitTimesOut(d)
           \/ CompleteFindsLeaseGone(d) \/ AfterLosingLease(d) \/ Crash(d)
    PROVE  CommitInv'
<1>1. /\ UNCHANGED <<record, events, turn, event, reply, lapsed>>
      /\ at[d] \in InFlight \cup {"new"}
  BY DEF Peek, AcquireFindsResult, WaitTimesOut, CompleteFindsLeaseGone,
         AfterLosingLease, Crash
<1>2. PICK place \in {"acquire", "answered", "lost", "raised"} :
         /\ at' = [at EXCEPT ![d] = place]
         /\ place = "acquire" => at[d] = "new"
         /\ \/ told' = told
            \/ Completed /\ told' = [told EXCEPT ![d] = record.event] /\ place = "answered"
  BY DEF Peek, AcquireFindsResult, WaitTimesOut, CompleteFindsLeaseGone,
         AfterLosingLease, Crash, Replays
<1>3. at'[d] = place /\ \A q \in Deliveries \ {d} : at'[q] = at[q]
  BY <1>2 DEF CommitInv, TypeOK
<1>4. TypeOK'
  <2>1. record.event \in Deliveries \cup {None}
    BY DEF CommitInv, TypeOK
  <2>2. told' \in [Deliveries -> Deliveries \cup {None}]
    BY <1>2, <2>1 DEF CommitInv, TypeOK
  <2>3. at' \in [Deliveries -> InFlight \cup {"new", "answered", "raised"}]
    BY <1>2 DEF CommitInv, TypeOK
  <2>4. \A q \in Deliveries :
           at'[q] \in {"link", "process", "failing", "completing"} => event'[q] # None
    BY <1>1, <1>3 DEF CommitInv, TypeOK
  <2>. QED  BY <1>1, <2>2, <2>3, <2>4 DEF CommitInv, TypeOK
<1>5. Move(d)
  <2>1. turn = d => place \in Processed
    BY <1>2 DEF CommitInv, WorkersConsistent
  <2>2. CASE told' = told
    <3>1. at'[d] \notin Working /\ (turn' = d => at'[d] \in Processed)
      BY <1>1, <1>3, <2>1
    <3>2. turn' = turn /\ events' = events /\ event' = event /\ reply' = reply
      BY <1>1
    <3>. QED  BY <1>1, <1>3, <2>2, <3>1, <3>2 DEF Move
  <2>3. CASE /\ Completed /\ place = "answered"
             /\ told' = [told EXCEPT ![d] = record.event]
    <3>1. told'[d] = record.event /\ \A q \in Deliveries \ {d} : told'[q] = told[q]
      BY <2>3 DEF CommitInv, TypeOK
    <3>2. turn' = turn /\ events' = events /\ event' = event /\ reply' = reply
      BY <1>1
    <3>3. at'[d] = "answered"
      BY <1>3, <2>3
    <3>. QED  BY <1>1, <1>3, <2>3, <3>1, <3>2, <3>3 DEF Move
  <2>. QED  BY <1>2, <2>2, <2>3
<1>. QED  BY <1>4, <1>5, MoveKeeps

\* The event is appended before anything points to it.
LEMMA AppendKeeps ==
    ASSUME CommitInv, NEW d \in Deliveries, AppendEvent(d)
    PROVE  CommitInv'
<1>1. /\ at'[d] = "link" /\ event'[d] = d
      /\ \A q \in Deliveries \ {d} : at'[q] = at[q] /\ event'[q] = event[q]
  BY DEF CommitInv, TypeOK, AppendEvent
<1>2. TypeOK'
  <2>1. /\ event' \in [Deliveries -> Deliveries \cup {None}]
        /\ at' \in [Deliveries -> InFlight \cup {"new", "answered", "raised"}]
    BY DEF CommitInv, TypeOK, AppendEvent
  <2>2. \A q \in Deliveries :
           at'[q] \in {"link", "process", "failing", "completing"} => event'[q] # None
    BY <1>1, DeliveryAssumption DEF CommitInv, TypeOK
  <2>. QED  BY <2>1, <2>2 DEF CommitInv, TypeOK, AppendEvent
<1>3. Move(d)
  <2>1. turn # d
    BY DEF CommitInv, WorkersConsistent, AppendEvent
  <2>. QED  BY <1>1, <2>1 DEF Move, AppendEvent
<1>. QED  BY <1>2, <1>3, MoveKeeps

\* The kernel's answer: the delivery whose turn commits has its reply.
LEMMA ProcessKeeps ==
    ASSUME CommitInv, NEW d \in Deliveries, ProcessTurn(d) \/ ProcessTurnRaises(d)
    PROVE  CommitInv'
<1>1. turn # d /\ at[d] = "process"
  BY DEF CommitInv, WorkersConsistent, ProcessTurn, ProcessTurnRaises
<1>2. /\ \A q \in Deliveries \ {d} : at'[q] = at[q] /\ reply'[q] = reply[q]
      /\ turn' \in {turn, IF turn = None THEN d ELSE turn}
      /\ at'[d] \in {"completing", "failing"}
      /\ UNCHANGED <<record, events, event, told, lapsed>>
  BY DEF CommitInv, TypeOK, ProcessTurn, ProcessTurnRaises
<1>3. TypeOK'
  <2>1. /\ reply' \in [Deliveries -> Replies]
        /\ at' \in [Deliveries -> InFlight \cup {"new", "answered", "raised"}]
        /\ turn' \in Deliveries \cup {None}
    BY DEF CommitInv, TypeOK, ProcessTurn, ProcessTurnRaises
  <2>2. \A q \in Deliveries :
           at'[q] \in {"link", "process", "failing", "completing"} => event'[q] # None
    BY <1>1, <1>2 DEF CommitInv, TypeOK
  <2>. QED  BY <1>2, <2>1, <2>2 DEF CommitInv, TypeOK
<1>4. at'[d] = "completing" =>
         /\ turn' # None /\ reply'[d] \in {"full", "empty"}
         /\ turn = None => turn' = d /\ reply'[d] = "full"
  BY DeliveryAssumption DEF CommitInv, TypeOK, ProcessTurn, ProcessTurnRaises
<1>5. Move(d)
  BY <1>1, <1>2, <1>4 DEF Move
<1>. QED  BY <1>3, <1>5, MoveKeeps

\* A step of the lease's holder that writes the record and does not complete
\* it: the others, who let the lease lapse, are not disturbed.
HolderWrites(d) ==
    /\ record' \in Records /\ ~ Completed' /\ record'.status # "completed"
    /\ record.token = d /\ at[d] \in Working
    /\ record'.status = "processing" <=> record'.token # None
    /\ record'.token = d \/ (record'.token = None /\ at'[d] = "raised")
    /\ record'.stale => record'.token = d /\ record.stale
    /\ record'.event = event[d] /\ event[d] # None
    /\ at'[d] \in Working => record'.token = d
    /\ at'[d] # "completing"
    /\ turn = d => at'[d] \in Processed
    /\ \A q \in Deliveries \ {d} : at'[q] = at[q]
    /\ UNCHANGED <<events, turn, event, reply, told, lapsed>>

\* Such a step keeps the invariant.
LEMMA HolderKeeps ==
    ASSUME CommitInv, NEW d \in Deliveries, TypeOK', HolderWrites(d)
    PROVE  CommitInv'
<1>1. ~ Completed
  <2>1. record.status = "processing"
    BY DeliveryAssumption DEF CommitInv, RecordConsistent, HolderWrites
  <2>. QED  BY <2>1 DEF Completed
<1>2. RecordConsistent'
  BY DEF CommitInv, RecordConsistent, WorkersConsistent, HolderWrites
<1>3. WorkersConsistent'
  <2>1. ASSUME NEW q \in Deliveries
        PROVE  at'[q] \in Working => record'.token = q \/ q \in lapsed'
    BY DEF CommitInv, WorkersConsistent, HolderWrites
  <2>2. ASSUME NEW q \in Deliveries
        PROVE  /\ event'[q] # None => event'[q] \in events'
               /\ told'[q] = None
    BY <1>1 DEF CommitInv, WorkersConsistent, HolderWrites
  <2>3. ASSUME NEW q \in Deliveries, at'[q] = "completing"
        PROVE  /\ turn' # None
               /\ reply'[q] \in {"full", "empty"}
               /\ reply'[q] = "empty" => turn' # q
    BY <2>3 DEF CommitInv, WorkersConsistent, HolderWrites
  <2>4. ASSUME NEW q \in Deliveries, turn' = q
        PROVE  at'[q] \in Processed
    BY <2>4 DEF CommitInv, WorkersConsistent, HolderWrites
  <2>. QED  BY <2>1, <2>2, <2>3, <2>4 DEF WorkersConsistent
<1>4. TurnAccounted'
  <2>1. CASE turn = d
    BY <2>1 DEF TurnAccounted, HolderWrites
  <2>2. CASE turn # d
    BY <1>1, <2>2 DEF CommitInv, TypeOK, TurnAccounted, HolderWrites
  <2>. QED  BY <2>1, <2>2
<1>5. ReplyLostOnlyByLapse'
  BY DEF ReplyLostOnlyByLapse, HolderWrites
<1>. QED  BY <1>2, <1>3, <1>4, <1>5 DEF CommitInv

\* save_result_event and fail_processing, with the lease or without it.
LEMMA LinkOrFailKeeps ==
    ASSUME CommitInv, NEW d \in Deliveries, LinkEvent(d) \/ FailProcessing(d)
    PROVE  CommitInv'
<1>1. record \in Records
  BY DEF CommitInv, TypeOK, Records, Statuses
<1>2. /\ UNCHANGED <<events, turn, event, reply, told, lapsed>>
      /\ at[d] \in {"link", "failing"}
      /\ at'[d] \in {"process", "lost", "raised"}
      /\ at'[d] = "process" => OwnedBy(d) /\ at[d] = "link"
      /\ at'[d] = "lost" => ~ OwnedBy(d)
      /\ \A q \in Deliveries \ {d} : at'[q] = at[q]
  BY DEF CommitInv, TypeOK, LinkEvent, FailProcessing
<1>3. event[d] \in Deliveries /\ turn = d => at[d] = "failing" /\ at'[d] = "raised"
  <2>1. turn = d => at[d] = "failing"
    BY <1>2 DEF CommitInv, WorkersConsistent
  <2>. QED  BY <2>1 DEF CommitInv, TypeOK, LinkEvent, FailProcessing
<1>4. at' \in [Deliveries -> InFlight \cup {"new", "answered", "raised"}]
  BY DEF CommitInv, TypeOK, LinkEvent, FailProcessing
<1>5. event[d] \in Deliveries
  BY <1>2 DEF CommitInv, TypeOK
<1>6. record' \in Records
  <2>1. CASE LinkEvent(d)
    <3>1. [record EXCEPT !.event = event[d]] \in Records
      BY <1>1, <1>5 DEF Records
    <3>. QED  BY <1>1, <2>1, <3>1 DEF LinkEvent
  <2>2. CASE FailProcessing(d)
    <3>1. record.reply \in Replies
      BY <1>1 DEF Records
    <3>. QED  BY <1>1, <1>5, <2>2, <3>1 DEF FailProcessing, Written, Records, Statuses
  <2>. QED  BY <2>1, <2>2
<1>7. TypeOK'
  <2>1. \A q \in Deliveries :
           at'[q] \in {"link", "process", "failing", "completing"} => event'[q] # None
    BY <1>2 DEF CommitInv, TypeOK
  <2>. QED  BY <1>2, <1>4, <1>6, <2>1 DEF CommitInv, TypeOK, Records, Statuses
<1>8. CASE ~ OwnedBy(d)
  <2>1. record' = record
    BY <1>8 DEF LinkEvent, FailProcessing
  <2>2. turn # d \/ at'[d] = "raised"
    BY <1>3, <1>5
  <2>3. Move(d)
    BY <1>2, <1>8, <2>1, <2>2 DEF Move
  <2>. QED  BY <1>7, <2>3, MoveKeeps
<1>9. CASE OwnedBy(d)
  <2>1. record.token = d /\ record.status = "processing" /\ event[d] # None
    BY <1>5, <1>9, DeliveryAssumption DEF CommitInv, RecordConsistent, OwnedBy
  <2>2. CASE LinkEvent(d)
    <3>1. /\ record'.status = "processing" /\ record'.token = d
          /\ record'.stale = record.stale /\ record'.event = event[d]
      BY <1>1, <1>9, <2>1, <2>2 DEF LinkEvent, Records
    <3>2. at'[d] = "process"
      BY <1>9, <2>2 DEF CommitInv, TypeOK, LinkEvent
    <3>3. HolderWrites(d)
      BY <1>2, <1>3, <1>5, <1>6, <2>1, <3>1, <3>2, DeliveryAssumption DEF HolderWrites, Completed
    <3>. QED  BY <1>7, <3>3, HolderKeeps
  <2>3. CASE FailProcessing(d)
    <3>1. /\ record'.status = "failed" /\ record'.token = None
          /\ record'.stale = FALSE /\ record'.event = event[d]
      BY <1>9, <2>3 DEF FailProcessing, Written
    <3>2. at'[d] = "raised"
      BY <1>9, <2>3 DEF CommitInv, TypeOK, FailProcessing
    <3>3. HolderWrites(d)
      BY <1>2, <1>6, <2>1, <3>1, <3>2 DEF HolderWrites, Completed
    <3>. QED  BY <1>7, <3>3, HolderKeeps
  <2>. QED  BY <2>2, <2>3
<1>. QED  BY <1>8, <1>9

\* Completing the record: it is stored without the reply only when the turn is
\* another delivery's, which no longer has the lease.
LEMMA CompleteKeeps ==
    ASSUME CommitInv, NEW d \in Deliveries, CompleteProcessing(d)
    PROVE  CommitInv'
<1>1. /\ record.token = d /\ record.status = "processing" /\ ~ Completed
      /\ event[d] \in Deliveries /\ event[d] # None /\ event[d] \in events
      /\ turn # None /\ turn \in Deliveries
      /\ reply[d] \in {"full", "empty"} /\ (reply[d] = "empty" => turn # d)
  BY DeliveryAssumption DEF CommitInv, TypeOK, RecordConsistent, WorkersConsistent,
     CompleteProcessing, OwnedBy, Completed
<1>2. /\ record' \in Records /\ record'.status = "completed" /\ record'.token = None
      /\ record'.stale = FALSE /\ record'.event = event[d] /\ record'.reply = reply[d]
  BY <1>1 DEF CompleteProcessing, Written, Records, Statuses
<1>3. /\ UNCHANGED <<events, turn, event, reply, lapsed>>
      /\ at[d] = "completing" /\ at'[d] = "answered" /\ told'[d] = event[d]
      /\ \A q \in Deliveries \ {d} : at'[q] = at[q] /\ told'[q] = told[q]
  BY DEF CommitInv, TypeOK, CompleteProcessing
<1>4. Completed'
  BY <1>1, <1>2 DEF Completed
<1>5. TypeOK'
  <2>1. /\ at' \in [Deliveries -> InFlight \cup {"new", "answered", "raised"}]
        /\ told' \in [Deliveries -> Deliveries \cup {None}]
    BY <1>1 DEF CommitInv, TypeOK, CompleteProcessing
  <2>2. \A q \in Deliveries :
           at'[q] \in {"link", "process", "failing", "completing"} => event'[q] # None
    BY <1>3 DEF CommitInv, TypeOK
  <2>. QED  BY <1>2, <1>3, <2>1, <2>2 DEF CommitInv, TypeOK, Records, Statuses
<1>6. RecordConsistent'
  BY <1>1, <1>2, <1>3 DEF RecordConsistent
<1>7. WorkersConsistent'
  <2>1. \A q \in Deliveries : told[q] = None
    BY <1>1 DEF CommitInv, WorkersConsistent
  <2>2. \A q \in Deliveries : at'[q] \in Working => record'.token = q \/ q \in lapsed'
    BY <1>1, <1>3 DEF CommitInv, WorkersConsistent
  <2>. QED  BY <1>2, <1>3, <1>4, <2>1, <2>2 DEF CommitInv, WorkersConsistent
<1>8. turn # d => turn \in lapsed \/ at[turn] = "raised"
  BY <1>1 DEF CommitInv, TurnAccounted
<1>9. TurnAccounted' /\ ReplyLostOnlyByLapse'
  BY <1>1, <1>2, <1>3, <1>4, <1>8 DEF TurnAccounted, ReplyLostOnlyByLapse
<1>. QED  BY <1>5, <1>6, <1>7, <1>9 DEF CommitInv

\* A lease that goes stale is recorded as lapsed.
LEMMA StaleKeeps ==
    ASSUME CommitInv, GoStale
    PROVE  CommitInv'
<1>1. record \in Records /\ record.status = "processing" /\ record.token \in Deliveries
  <2>1. record \in Records
    BY DEF CommitInv, TypeOK, Records, Statuses
  <2>2. record.token \in Deliveries \cup {None}
    BY <2>1 DEF Records
  <2>. QED  BY <2>1, <2>2 DEF CommitInv, RecordConsistent, GoStale
<1>2. /\ record' \in Records /\ record'.status = record.status
      /\ record'.token = record.token /\ record'.event = record.event
  BY <1>1 DEF GoStale, Records
<1>3. lapsed \subseteq lapsed' /\ record.token \in lapsed' /\ lapsed' \subseteq Deliveries
  BY <1>1 DEF CommitInv, TypeOK, GoStale
<1>4. ~ Completed /\ ~ Completed'
  BY <1>1, <1>2 DEF Completed
<1>5. UNCHANGED <<events, turn, at, event, reply, told>>
  BY DEF GoStale
<1>6. TypeOK'
  BY <1>2, <1>3, <1>5 DEF CommitInv, TypeOK, Records, Statuses
<1>7. RecordConsistent'
  BY <1>1, <1>2, <1>3, <1>5 DEF CommitInv, RecordConsistent
<1>8. WorkersConsistent'
  BY <1>2, <1>3, <1>4, <1>5 DEF CommitInv, WorkersConsistent
<1>9. TurnAccounted' /\ ReplyLostOnlyByLapse'
  BY <1>2, <1>3, <1>4, <1>5 DEF CommitInv, TurnAccounted, ReplyLostOnlyByLapse
<1>. QED  BY <1>6, <1>7, <1>8, <1>9 DEF CommitInv

\* Every step, one lemma per kind.
LEMMA NextCommitInv == CommitInv /\ [Next]_vars => CommitInv'
<1>. SUFFICES ASSUME CommitInv, [Next]_vars PROVE CommitInv'
  OBVIOUS
<1>1. CASE UNCHANGED vars
  BY <1>1 DEF vars, CommitInv, TypeOK, RecordConsistent, WorkersConsistent, TurnAccounted,
     ReplyLostOnlyByLapse, Completed
<1>2. CASE GoStale
  BY <1>2, StaleKeeps
<1>3. ASSUME NEW d \in Deliveries, Deliver(d) \/ Crash(d)
      PROVE  CommitInv'
  <2>1. CASE \/ Peek(d) \/ AcquireFindsResult(d) \/ WaitTimesOut(d)
             \/ CompleteFindsLeaseGone(d) \/ AfterLosingLease(d) \/ Crash(d)
    BY <2>1, QuietKeeps
  <2>2. CASE Acquire(d)
    BY <2>2, AcquireKeeps
  <2>3. CASE AppendEvent(d)
    BY <2>3, AppendKeeps
  <2>4. CASE ProcessTurn(d) \/ ProcessTurnRaises(d)
    BY <2>4, ProcessKeeps
  <2>5. CASE LinkEvent(d) \/ FailProcessing(d)
    BY <2>5, LinkOrFailKeeps
  <2>6. CASE CompleteProcessing(d)
    BY <2>6, CompleteKeeps
  <2>. QED  BY <1>3, <2>1, <2>2, <2>3, <2>4, <2>5, <2>6 DEF Deliver
<1>. QED  BY <1>1, <1>2, <1>3 DEF Next

-----------------------------------------------------------------------------
(* Theorems *)

\* The inductive invariant holds throughout every run of any number of deliveries.
THEOREM CommitInvariance == Spec => []CommitInv
<1>. QED  BY InitCommitInv, NextCommitInv, PTL DEF Spec

\* The record and what the deliveries hold keep their types: a delivery past the
\* append or the takeover works with an event.
THEOREM CommitTypes == Spec => []TypeOK
<1>1. CommitInv => TypeOK
  BY DEF CommitInv
<1>. QED  BY <1>1, CommitInvariance, PTL

\* A caller that is given an answer has its transcript in the event log and its
\* turn in the turn log.
THEOREM AnswersAreDurable == Spec => []AnsweredIsDurable
<1>1. CommitInv => AnsweredIsDurable
  <2>. SUFFICES ASSUME CommitInv, NEW d \in Deliveries, told[d] # None
                PROVE  told[d] \in events /\ turn # None
    BY DEF AnsweredIsDurable
  <2>1. Completed /\ told[d] = record.event
    BY DEF CommitInv, WorkersConsistent
  <2>. QED  BY <2>1 DEF CommitInv, RecordConsistent, Completed
<1>. QED  BY <1>1, CommitInvariance, PTL

\* A completed record lacks the reply only if the delivery whose turn committed
\* let its lease lapse or failed.
THEOREM RepliesKept == Spec => []ReplyLostOnlyByLapse
<1>1. CommitInv => ReplyLostOnlyByLapse
  BY DEF CommitInv
<1>. QED  BY <1>1, CommitInvariance, PTL

\* A step completes the record, replays it, or changes neither the outcome nor
\* what anyone was told.
LEMMA StepSettlesOrReplays ==
    ASSUME CommitInv, [Next]_vars
    PROVE  \/ UNCHANGED <<record, told>>
           \/ UNCHANGED told /\ ~ Completed /\ ~ Completed'
           \/ \E d \in Deliveries :
                 Completed /\ told[d] = None /\ UNCHANGED record
                 /\ told' = [told EXCEPT ![d] = record.event]
           \/ \E d \in Deliveries :
                 ~ Completed /\ Completed' /\ event[d] \in Deliveries
                 /\ record'.event = event[d] /\ told' = [told EXCEPT ![d] = event[d]]
<1>1. CASE UNCHANGED vars
  BY <1>1 DEF vars
<1>2. CASE GoStale
  <2>1. record \in Records /\ record.status = "processing"
    BY <1>2 DEF CommitInv, TypeOK, Records, Statuses, GoStale
  <2>2. record'.status = "processing"
    BY <1>2, <2>1 DEF GoStale, Records
  <2>. QED  BY <1>2, <2>1, <2>2 DEF GoStale, Completed
<1>3. ASSUME NEW d \in Deliveries, Replays(d), Completed, UNCHANGED record,
             at[d] # "answered"
      PROVE  told[d] = None /\ told' = [told EXCEPT ![d] = record.event]
  BY <1>3 DEF CommitInv, WorkersConsistent, Replays
<1>4. ASSUME NEW d \in Deliveries, Acquire(d)
      PROVE  UNCHANGED told /\ ~ Completed /\ ~ Completed'
  BY <1>4 DEF Acquire, Available, Completed, Written
<1>5. ASSUME NEW d \in Deliveries, LinkEvent(d) \/ FailProcessing(d)
      PROVE  UNCHANGED told /\ (record' = record \/ (~ Completed /\ ~ Completed'))
  <2>1. CASE ~ OwnedBy(d)
    BY <1>5, <2>1 DEF LinkEvent, FailProcessing
  <2>2. CASE OwnedBy(d)
    <3>1. record \in Records /\ record.status = "processing"
      BY <2>2, DeliveryAssumption
      DEF CommitInv, TypeOK, RecordConsistent, OwnedBy, Records, Statuses
    <3>2. record'.status \in {"processing", "failed"}
      BY <1>5, <2>2, <3>1 DEF LinkEvent, FailProcessing, Written, Records
    <3>. QED  BY <1>5, <3>1, <3>2 DEF LinkEvent, FailProcessing, Completed
  <2>. QED  BY <2>1, <2>2
<1>6. ASSUME NEW d \in Deliveries, CompleteProcessing(d)
      PROVE  ~ Completed /\ Completed' /\ event[d] \in Deliveries
             /\ record'.event = event[d] /\ told' = [told EXCEPT ![d] = event[d]]
  <2>1. record.status = "processing" /\ event[d] \in Deliveries /\ event[d] # None
    BY <1>6, DeliveryAssumption DEF CommitInv, TypeOK, RecordConsistent, CompleteProcessing, OwnedBy
  <2>. QED  BY <1>6, <2>1 DEF CompleteProcessing, Completed, Written
<1>7. ASSUME NEW d \in Deliveries, Deliver(d) \/ Crash(d)
      PROVE  \/ UNCHANGED <<record, told>>
             \/ Acquire(d) \/ LinkEvent(d) \/ FailProcessing(d) \/ CompleteProcessing(d)
             \/ Replays(d) /\ Completed /\ UNCHANGED record /\ at[d] # "answered"
  BY <1>7 DEF Deliver, Peek, AcquireFindsResult, WaitTimesOut, AppendEvent, ProcessTurn,
     ProcessTurnRaises, CompleteFindsLeaseGone, AfterLosingLease, Crash
<1>8. CASE \E d \in Deliveries : Deliver(d) \/ Crash(d)
  <2>. PICK d \in Deliveries : Deliver(d) \/ Crash(d)
    BY <1>8
  <2>. QED  BY <1>3, <1>4, <1>5, <1>6, <1>7
<1>. QED  BY <1>1, <1>2, <1>8 DEF Next

\* The deliveries of a transcript implement OneOutcome: one of them settles the
\* accepted event, and every answer names that event.
THEOREM CommitRefinesOneOutcome == Spec => OneOutcomeHolds
<1>1. Init => Promise!Init
  BY DEF Init, Written, Completed, Promise!Init
<1>2. CommitInv /\ [Next]_vars =>
         [Promise!Next]_<<IF Completed THEN record.event ELSE None, told>>
  <2>. SUFFICES ASSUME CommitInv, [Next]_vars
                PROVE  \/ Promise!Next
                       \/ UNCHANGED <<IF Completed THEN record.event ELSE None, told>>
    OBVIOUS
  <2>1. CASE UNCHANGED <<record, told>>
    BY <2>1 DEF Completed
  <2>2. CASE UNCHANGED told /\ ~ Completed /\ ~ Completed'
    BY <2>2
  <2>3. ASSUME NEW d \in Deliveries, Completed, told[d] = None, UNCHANGED record,
               told' = [told EXCEPT ![d] = record.event]
        PROVE  Promise!Next
    <3>1. Completed' /\ record.event # None
      BY <2>3 DEF Completed
    <3>2. Promise!Replay(d)
      BY <2>3, <3>1 DEF Promise!Replay
    <3>. QED  BY <3>2 DEF Promise!Next
  <2>4. ASSUME NEW d \in Deliveries, ~ Completed, Completed', event[d] \in Deliveries,
               record'.event = event[d], told' = [told EXCEPT ![d] = event[d]]
        PROVE  Promise!Next
    <3>1. Promise!Settle(d, event[d])
      BY <2>4 DEF Promise!Settle
    <3>. QED  BY <2>4, <3>1 DEF Promise!Next
  <2>. QED  BY <2>1, <2>2, <2>3, <2>4, StepSettlesOrReplays
<1>. QED  BY <1>1, <1>2, CommitInvariance, PTL DEF Spec, OneOutcomeHolds, Promise!Spec

-----------------------------------------------------------------------------
(* What is taken from the kernel is what the kernel promises.              *)

\* A delivery has no reply before the kernel has processed its turn.
NoReplyYet ==
    \A d \in Deliveries :
        at[d] \in {"new", "acquire", "append", "link", "process", "failing"} => reply[d] = "none"

\* The kernel's answer to a delivery at this place with this reply.
Heard(place, rep) ==
    CASE rep = "full"  -> [answer |-> "committed", key |-> "transcript"]
      [] rep = "empty" -> [answer |-> "duplicate", key |-> "transcript"]
      [] OTHER -> [answer |-> IF place \in {"failing", "raised"} THEN "gone" ELSE "pending",
                   key |-> None]

\* What the kernel has answered the deliveries.
Answers == [d \in Deliveries |-> AnswerOf(d)]

\* One delivery moves, perhaps with a reply it is given.
LEMMA OneHears ==
    ASSUME TypeOK, NoReplyYet, NEW d \in Deliveries, NEW place, NEW rep,
           at' = [at EXCEPT ![d] = place], reply' = [reply EXCEPT ![d] = rep],
           place \in {"new", "acquire", "append", "link", "process", "failing"} => rep = "none"
    PROVE  NoReplyYet' /\ Answers' = [Answers EXCEPT ![d] = Heard(place, rep)]
<1>1. /\ at'[d] = place /\ reply'[d] = rep
      /\ \A q \in Deliveries \ {d} : at'[q] = at[q] /\ reply'[q] = reply[q]
  BY DEF TypeOK
<1>2. NoReplyYet'
  BY <1>1 DEF NoReplyYet
<1>3. Answers' = [q \in Deliveries |-> Heard(at'[q], reply'[q])]
  BY DEF Answers, AnswerOf, Heard
<1>4. Answers = [q \in Deliveries |-> Heard(at[q], reply[q])]
  BY DEF Answers, AnswerOf, Heard
<1>5. \A q \in Deliveries :
         Heard(at'[q], reply'[q]) = IF q = d THEN Heard(place, rep) ELSE Heard(at[q], reply[q])
  BY <1>1
<1>6. [q \in Deliveries |-> Heard(at'[q], reply'[q])] = [Answers EXCEPT ![d] = Heard(place, rep)]
  BY <1>4, <1>5
<1>. QED  BY <1>2, <1>3, <1>6

\* One delivery moves and hears nothing new.
LEMMA NothingHeard ==
    ASSUME TypeOK, NoReplyYet, NEW d \in Deliveries, NEW place,
           at' = [at EXCEPT ![d] = place], UNCHANGED reply,
           place \in {"new", "acquire", "append", "link", "process", "failing"} => reply[d] = "none",
           Heard(place, reply[d]) = Heard(at[d], reply[d])
    PROVE  NoReplyYet' /\ Answers' = Answers
<1>1. at'[d] = place /\ \A q \in Deliveries \ {d} : at'[q] = at[q]
  BY DEF TypeOK
<1>2. NoReplyYet'
  BY <1>1 DEF NoReplyYet
<1>3. Answers' = [q \in Deliveries |-> Heard(at'[q], reply[q])]
  BY DEF Answers, AnswerOf, Heard
<1>4. Answers = [q \in Deliveries |-> Heard(at[q], reply[q])]
  BY DEF Answers, AnswerOf, Heard
<1>5. \A q \in Deliveries : Heard(at'[q], reply[q]) = Heard(at[q], reply[q])
  BY <1>1
<1>. QED  BY <1>2, <1>3, <1>4, <1>5

\* A delivery that raises has died, as far as the kernel's log goes, unless it
\* had its reply before.
LEMMA RaisingIsDying ==
    ASSUME TypeOK, NoReplyYet, NEW d \in Deliveries,
           at' = [at EXCEPT ![d] = "raised"], UNCHANGED <<reply, turn>>
    PROVE  /\ NoReplyYet'
           /\ (Answers' = Answers /\ turn' = turn) \/ Kernel!Die(d)
<1>1. CASE reply[d] = "none"
  <2>1. Heard("raised", reply[d]) = [answer |-> "gone", key |-> None]
    BY <1>1 DEF Heard
  <2>2. at'[d] = "raised" /\ \A q \in Deliveries \ {d} : at'[q] = at[q]
    BY DEF TypeOK
  <2>3. NoReplyYet'
    BY <2>2 DEF NoReplyYet
  <2>4. Answers' = [q \in Deliveries |-> Heard(at'[q], reply[q])]
    BY DEF Answers, AnswerOf, Heard
  <2>5. Answers = [q \in Deliveries |-> Heard(at[q], reply[q])]
    BY DEF Answers, AnswerOf, Heard
  <2>6. \A q \in Deliveries : Heard(at'[q], reply[q]) =
           IF q = d THEN [answer |-> "gone", key |-> None] ELSE Heard(at[q], reply[q])
    BY <2>1, <2>2
  <2>7. Answers' = [Answers EXCEPT ![d] = [answer |-> "gone", key |-> None]]
    BY <2>4, <2>5, <2>6
  <2>. QED  BY <2>3, <2>7 DEF Answers, Kernel!Die, Kernel!Gone, Kernel!Told
<1>2. CASE reply[d] # "none"
  <2>1. Heard("raised", reply[d]) = Heard(at[d], reply[d])
    BY <1>2 DEF Heard, TypeOK
  <2>. QED  BY <2>1, NothingHeard
<1>. QED  BY <1>1, <1>2

\* The kernel is called once: the first turn is appended, a later one dropped.
LEMMA CallIsAnswered ==
    ASSUME TypeOK, NoReplyYet, NEW d \in Deliveries, ProcessTurn(d) \/ ProcessTurnRaises(d)
    PROVE  /\ NoReplyYet'
           /\ \/ Kernel!Append(d, "transcript") \/ Kernel!Drop(d, "transcript")
              \/ Kernel!Die(d)
<1>1. /\ at[d] = "process" /\ reply[d] = "none"
      /\ AnswerOf(d) = [answer |-> "pending", key |-> None]
  BY DEF ProcessTurn, ProcessTurnRaises, NoReplyYet, AnswerOf
<1>2. ASSUME turn = None, turn' = d, NEW answer \in {"committed", "gone"},
             Answers' = [Answers EXCEPT ![d] =
                [answer |-> answer, key |-> IF answer = "gone" THEN None ELSE "transcript"]]
      PROVE  Kernel!Append(d, "transcript")
  <2>1. \/ Answers' = [Answers EXCEPT ![d] = Kernel!Told("committed", "transcript")]
        \/ Answers' = [Answers EXCEPT ![d] = Kernel!Gone]
    BY <1>2 DEF Kernel!Told, Kernel!Gone
  <2>2. Answers[d].answer = "pending"
    BY <1>1 DEF Answers
  <2>3. turn = None /\ turn' = d /\ d # None
    BY <1>2, DeliveryAssumption
  <2>. QED  BY <2>1, <2>2, <2>3 DEF Kernel!Append, Kernel!Logged, Answers
<1>3. CASE ProcessTurn(d) /\ turn = None
  <2>1. Heard("completing", "full") = [answer |-> "committed", key |-> "transcript"]
    BY DEF Heard
  <2>2. NoReplyYet' /\ Answers' = [Answers EXCEPT ![d] = Heard("completing", "full")]
    BY <1>3, OneHears DEF ProcessTurn
  <2>. QED  BY <1>2, <1>3, <2>1, <2>2 DEF ProcessTurn
<1>4. CASE ProcessTurn(d) /\ turn # None
  <2>1. Heard("completing", "empty") = [answer |-> "duplicate", key |-> "transcript"]
    BY DEF Heard
  <2>2. NoReplyYet' /\ Answers' = [Answers EXCEPT ![d] = Heard("completing", "empty")]
    BY <1>4, OneHears DEF ProcessTurn
  <2>3. Answers' = [Answers EXCEPT ![d] = Kernel!Told("duplicate", "transcript")]
    BY <2>1, <2>2 DEF Kernel!Told
  <2>4. Answers[d].answer = "pending"
    BY <1>1 DEF Answers
  <2>5. turn' = turn /\ turn # None
    BY <1>4 DEF ProcessTurn
  <2>6. Kernel!Logged("transcript")
    BY <2>5 DEF Kernel!Logged
  <2>7. Kernel!Drop(d, "transcript")
    BY <2>3, <2>4, <2>5, <2>6 DEF Kernel!Drop, Answers
  <2>. QED  BY <2>2, <2>7
<1>5. CASE ProcessTurnRaises(d)
  <2>1. Heard("failing", "none") = [answer |-> "gone", key |-> None]
    BY DEF Heard
  <2>2. /\ at' = [at EXCEPT ![d] = "failing"]
        /\ reply' = [reply EXCEPT ![d] = "none"]
    BY <1>1, <1>5 DEF ProcessTurnRaises, TypeOK
  <2>3. NoReplyYet' /\ Answers' = [Answers EXCEPT ![d] = Heard("failing", "none")]
    BY <2>2, OneHears
  <2>4. CASE turn' = turn
    BY <2>1, <2>3, <2>4 DEF Kernel!Die, Kernel!Gone, Kernel!Told, Answers
  <2>5. CASE turn' # turn
    BY <1>2, <1>5, <2>1, <2>3, <2>5 DEF ProcessTurnRaises
  <2>. QED  BY <2>3, <2>4, <2>5
<1>. QED  BY <1>3, <1>4, <1>5

\* A step of the log tells its delivery something new, or nothing happens.
LEMMA LogStep ==
    ASSUME NEW d \in Deliveries,
           \/ Kernel!Append(d, "transcript") \/ Kernel!Drop(d, "transcript") \/ Kernel!Die(d)
    PROVE  Kernel!Next \/ UNCHANGED <<turn, Answers>>
<1>1. CASE Answers'[d] # Answers[d]
  BY <1>1 DEF Kernel!Next, Answers
<1>2. CASE Answers'[d] = Answers[d]
  <2>1. CASE Kernel!Die(d)
    <3>1. Answers' = [Answers EXCEPT ![d] = Kernel!Gone]
      BY <2>1 DEF Kernel!Die, Answers
    <3>2. Answers' = Answers
      BY <1>2, <3>1 DEF Answers
    <3>3. turn' = turn
      <4> DEFINE entry(t) == [seq |-> 1, key |-> "transcript", by |-> t]
                 logOf(t) == IF t = None THEN {} ELSE {entry(t)}
      <4>1. logOf(turn') = logOf(turn)
        BY <2>1 DEF Kernel!Die
      <4>2. \A s, t : logOf(s) = logOf(t) => s = t
        <5>1. \A s, t : entry(s) = entry(t) => s = t
          OBVIOUS
        <5>. QED  BY <5>1
      <4>. QED  BY <4>1, <4>2
    <3>. QED  BY <3>2, <3>3
  <2>2. CASE Kernel!Append(d, "transcript") \/ Kernel!Drop(d, "transcript")
    <3>1. /\ Answers[d].answer = "pending"
          /\ \E t \in {Kernel!Told("committed", "transcript"),
                        Kernel!Told("duplicate", "transcript"), Kernel!Gone} :
                Answers' = [Answers EXCEPT ![d] = t]
      BY <2>2 DEF Kernel!Append, Kernel!Drop, Answers
    <3>2. Answers'[d].answer # "pending"
      BY <3>1 DEF Answers, Kernel!Told, Kernel!Gone
    <3>. QED  BY <1>2, <3>1, <3>2
  <2>. QED  BY <1>2, <2>1, <2>2
<1>. QED  BY <1>1, <1>2

\* What the deliveries take the kernel to have done is what it promises: one
\* log, in which the transcript is once, and answers that say what is in it.
THEOREM CommitUsesSerialLog == Spec => KernelAsPromised
<1>1. Init => Kernel!Init /\ NoReplyYet
  BY DEF Init, Kernel!Init, Kernel!Told, NoReplyYet, AnswerOf
<1>2. CommitInv /\ NoReplyYet /\ [Next]_vars =>
         /\ NoReplyYet'
         /\ [Kernel!Next]_<<IF turn = None THEN {} ELSE {[seq |-> 1, key |-> "transcript", by |-> turn]},
                            IF turn = None THEN 0 ELSE 1, [d \in Deliveries |-> AnswerOf(d)]>>
  <2>. SUFFICES ASSUME CommitInv, NoReplyYet, [Next]_vars
                PROVE  NoReplyYet' /\ (Kernel!Next \/ UNCHANGED <<turn, Answers>>)
    BY DEF Answers
  <2>1. TypeOK
    BY DEF CommitInv
  <2>2. CASE GoStale \/ UNCHANGED vars
    BY <2>2 DEF GoStale, vars, NoReplyYet, Answers, AnswerOf
  <2>3. ASSUME NEW d \in Deliveries, Deliver(d) \/ Crash(d)
        PROVE  NoReplyYet' /\ (Kernel!Next \/ UNCHANGED <<turn, Answers>>)
    <3>1. CASE ProcessTurn(d) \/ ProcessTurnRaises(d)
      BY <2>1, <3>1, CallIsAnswered, LogStep
    <3>2. CASE at' = [at EXCEPT ![d] = "raised"] /\ UNCHANGED <<reply, turn>>
      BY <2>1, <3>2, RaisingIsDying, LogStep
    <3>3. CASE \E place \in {"acquire", "append", "link", "process", "answered", "lost"} :
                  /\ at' = [at EXCEPT ![d] = place] /\ UNCHANGED <<reply, turn>>
                  /\ at[d] \in {"failing", "raised"} => FALSE
                  /\ place \in {"acquire", "append", "link", "process"} =>
                        at[d] \in {"new", "acquire", "append", "link"}
      <4>1. PICK place : /\ at' = [at EXCEPT ![d] = place] /\ UNCHANGED <<reply, turn>>
                         /\ place \in {"acquire", "append", "link", "process", "answered", "lost"}
                         /\ at[d] \notin {"failing", "raised"}
                         /\ place \in {"acquire", "append", "link", "process"} =>
                               at[d] \in {"new", "acquire", "append", "link"}
        BY <3>3
      <4>2. Heard(place, reply[d]) = Heard(at[d], reply[d])
        BY <4>1 DEF Heard
      <4>. QED  BY <2>1, <4>1, <4>2, NothingHeard DEF NoReplyYet
    <3>. QED  BY <2>3, <3>1, <3>2, <3>3
         DEF Deliver, Peek, Replays, Acquire, AcquireFindsResult, WaitTimesOut, AppendEvent,
             LinkEvent, FailProcessing, CompleteProcessing, CompleteFindsLeaseGone,
             AfterLosingLease, Crash
  <2>. QED  BY <2>2, <2>3 DEF Next
<1>. QED  BY <1>1, <1>2, CommitInvariance, PTL DEF Spec, KernelAsPromised, Kernel!Spec

=============================================================================
