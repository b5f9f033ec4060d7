------------------------ MODULE OutboxDeliveryProofs ------------------------
(***************************************************************************)
(* Proofs about the outbox and its dispatchers, for any number of targets, *)
(* dispatchers, administrators, retries, faults and edits.                 *)
(***************************************************************************)
EXTENDS OutboxDelivery, TLAPS

Entries == [status : Statuses, attempts : Nat, due : BOOLEAN, stale : BOOLEAN]

Histories == [reclaims : Nat, received : BOOLEAN,
              skipped : BOOLEAN, fatal : BOOLEAN]

\* The types of what is shared: the tables and the histories.
StoreTypes ==
    /\ rows \in [Rows -> Entries]
    /\ target \in [Targets -> TargetStates]
    /\ put \in [Editors -> Puts \cup {None}]
    /\ log \in [Rows -> Histories]
    /\ promised \in SUBSET Targets
    /\ overlap \in BOOLEAN
    /\ quietOff \in SUBSET Targets
    /\ faults \in Nat /\ edits \in Nat

\* The types of what a pass keeps in memory.
PassTypes ==
    /\ at \in [Dispatchers -> Places]
    /\ row \in [Dispatchers -> Rows \cup {None}]
    /\ count \in [Dispatchers -> Nat]
    /\ todo \in [Dispatchers -> SUBSET Targets]
    /\ pick \in [Dispatchers -> Targets \cup {None}]
    /\ plan \in [Dispatchers -> SUBSET Targets]
    /\ copy \in [Dispatchers -> TargetStates]

\* A pass at work has claimed a row of the topic it works on.
PassHolds ==
    \A d \in Dispatchers :
        /\ at[d] = "idle" <=> row[d] = None
        /\ at[d] \in {"match", "fanout", "insert"} => row[d] = Pub
        /\ at[d] = "insert" => pick[d] # None
        /\ at[d] \notin {"idle", "match", "fanout", "insert"} => row[d] \in Deliveries

\* What administrators do to targets.
Administer ==
    \/ \E a \in Editors :
          \/ \E t \in Targets, state \in {"active", "inactive"} : LoadForEdit(a, t, state)
          \/ SaveEdit(a) \/ DropEdit(a)
    \/ \E t \in Targets : DeleteTarget(t)

LEMMA TypeParts == TypeOK <=> StoreTypes /\ PassTypes /\ PassHolds
BY DEF TypeOK, StoreTypes, PassTypes, PassHolds, Entries, Histories

LEMMA NextTypeParts == TypeOK' <=> StoreTypes' /\ PassTypes' /\ PassHolds'
BY DEF TypeOK, StoreTypes, PassTypes, PassHolds, Entries, Histories

LEMMA RowFacts ==
    /\ Pub \in Rows /\ Deliveries \subseteq Rows /\ Pub \notin Deliveries
    /\ None \notin Rows /\ None \notin Targets /\ None \notin Puts
    /\ \A r \in Deliveries : TargetOf(r) \in Targets
BY OutboxAssumption DEF Rows, Deliveries, TargetOf

LEMMA EntryTypes == NewEntry \in Entries /\ Unused \in Entries /\ NoHistory \in Histories
BY DEF NewEntry, Unused, NoHistory, Entries, Histories, Statuses

\* What the three marks make of a row.
LEMMA MarkedEntries ==
    ASSUME StoreTypes, NEW r \in Rows
    PROVE  /\ Delivered(r) \in Entries /\ Failed(r) \in Entries /\ Retried(r) \in Entries
           /\ Delivered(r).status = "delivered" /\ Delivered(r).attempts = rows[r].attempts
           /\ Failed(r).status = "failed" /\ Failed(r).attempts = rows[r].attempts + 1
           /\ Retried(r).status = "pending" /\ Retried(r).attempts = rows[r].attempts + 1
<1> DEFINE e == rows[r]
<1>1. /\ e \in Entries
      /\ e.attempts \in Nat /\ e.attempts + 1 \in Nat /\ e.due \in BOOLEAN
  BY DEF StoreTypes, Entries
<1>2. /\ Delivered(r) = [e EXCEPT !.status = "delivered", !.stale = FALSE]
      /\ Failed(r) = [e EXCEPT !.status = "failed", !.stale = FALSE,
                               !.attempts = e.attempts + 1]
      /\ Retried(r) = [e EXCEPT !.status = "pending", !.stale = FALSE, !.due = FALSE,
                                !.attempts = e.attempts + 1]
  BY <1>1 DEF Delivered, Failed, Retried, Entries
<1> HIDE DEF e
<1> QED
  BY <1>1, <1>2 DEF Entries, Statuses, e

\* A mark changes its row, and only if it still exists.
LEMMA MarkEffect ==
    ASSUME StoreTypes, NEW r \in Rows, NEW entry \in Entries, Mark(r, entry)
    PROVE  /\ rows' \in [Rows -> Entries]
           /\ \A q \in Rows : rows'[q] = IF q = r /\ Exists(r) THEN entry ELSE rows[q]
BY DEF StoreTypes, Mark

\* An attempt adds to the history of its row.
LEMMA SendEffect ==
    ASSUME StoreTypes, NEW d \in Dispatchers, row[d] \in Rows, Send(d), NEW r \in Rows
    PROVE  /\ log' \in [Rows -> Histories]
           /\ log'[r].reclaims = log[r].reclaims
           /\ log[r].skipped => log'[r].skipped
           /\ log[r].received => log'[r].received
           /\ log[r].fatal => log'[r].fatal
<1>1. PICK received \in {log[row[d]].received, TRUE}, fatal \in BOOLEAN :
         log' = [log EXCEPT ![row[d]].received = received, ![row[d]].fatal = @ \/ fatal]
  BY DEF Send
<1>2. log \in [Rows -> Histories] /\ log[row[d]] \in Histories
  BY DEF StoreTypes
<1> DEFINE h == [log[row[d]] EXCEPT !.received = received, !.fatal = log[row[d]].fatal \/ fatal]
<1>3. log' = [log EXCEPT ![row[d]] = h]
  BY <1>1, <1>2 DEF Histories
<1>4. /\ h \in Histories /\ h.reclaims = log[row[d]].reclaims
      /\ h.skipped = log[row[d]].skipped
      /\ log[row[d]].received => h.received
      /\ log[row[d]].fatal => h.fatal
  BY <1>2 DEF Histories
<1> HIDE DEF h
<1> QED
  BY <1>2, <1>3, <1>4

\* A released pass is idle and holds nothing; the others are as they were.
LEMMA ReleaseEffect ==
    ASSUME PassTypes, PassHolds, NEW d \in Dispatchers, Release(d)
    PROVE  /\ PassTypes' /\ PassHolds'
           /\ at'[d] = "idle"
           /\ \A e \in Dispatchers : e # d => /\ at'[e] = at[e] /\ row'[e] = row[e]
                                              /\ count'[e] = count[e] /\ todo'[e] = todo[e]
                                              /\ pick'[e] = pick[e] /\ plan'[e] = plan[e]
                                              /\ copy'[e] = copy[e]
BY DEF PassTypes, PassHolds, Release, Goto, Places, TargetStates

-----------------------------------------------------------------------------

LEMMA InitTypes == Init => TypeOK
<1> SUFFICES ASSUME Init PROVE TypeOK
  OBVIOUS
<1>1. rows \in [Rows -> Entries]
  BY EntryTypes DEF Init
<1>2. log \in [Rows -> Histories]
  BY EntryTypes DEF Init
<1>3. overlap \in BOOLEAN
  BY DEF Init
<1>4. StoreTypes
  BY <1>1, <1>2, <1>3 DEF Init, StoreTypes, TargetStates
<1>5. PassTypes
  BY DEF Init, PassTypes, Places, TargetStates
<1>6. PassHolds
  BY DEF Init, PassHolds
<1> QED
  BY <1>4, <1>5, <1>6, TypeParts

\* A claim.
LEMMA ClaimTypes ==
    ASSUME TypeOK, NEW d \in Dispatchers, NEW r \in Rows, Claim(d, r)
    PROVE  TypeOK'
<1>0. StoreTypes /\ PassTypes /\ PassHolds
  BY TypeParts
<1>1. rows' \in [Rows -> Entries]
  BY <1>0 DEF StoreTypes, Claim, Entries, Statuses
<1>2. log' \in [Rows -> Histories]
  <2> DEFINE n == IF rows[r].status = "claimed" THEN log[r].reclaims + 1 ELSE log[r].reclaims
             h == [log[r] EXCEPT !.reclaims = n]
  <2>1. log[r] \in Histories /\ n \in Nat
    BY <1>0 DEF StoreTypes, Histories
  <2>2. log' = [log EXCEPT ![r] = h]
    BY <1>0, <2>1 DEF StoreTypes, Claim, Histories
  <2> HIDE DEF n
  <2>3. h \in Histories
    BY <2>1 DEF Histories
  <2> QED
    BY <1>0, <2>2, <2>3 DEF StoreTypes
<1>3. overlap' \in BOOLEAN
  BY <1>0 DEF StoreTypes, Claim
<1>4. StoreTypes'
  BY <1>0, <1>1, <1>2, <1>3 DEF StoreTypes, Claim, outside
<1>5. rows[r].attempts \in Nat
  BY <1>0 DEF StoreTypes, Entries
<1>6. PassTypes'
  BY <1>0, <1>5 DEF PassTypes, Claim, Goto, Places
<1>7. PassHolds'
  BY <1>0, RowFacts DEF PassTypes, PassHolds, Claim, Goto, Rows
<1> QED
  BY <1>4, <1>6, <1>7, NextTypeParts

\* The steps of a fan-out.
LEMMA FanOutTypes ==
    ASSUME TypeOK, NEW d \in Dispatchers,
           Match(d) \/ (\E t \in Targets : LookUp(d, t)) \/ Insert(d) \/ ClosePublication(d)
    PROVE  TypeOK'
<1>0. StoreTypes /\ PassTypes /\ PassHolds
  BY TypeParts
<1>1. CASE Match(d)
  <2>1. StoreTypes'
    BY <1>0, <1>1 DEF StoreTypes, Match, outside
  <2>2. PassTypes'
    BY <1>0, <1>1 DEF PassTypes, Match, Goto, Places
  <2>3. PassHolds'
    BY <1>0, <1>1 DEF PassTypes, PassHolds, Match, Goto
  <2> QED
    BY <2>1, <2>2, <2>3, NextTypeParts
<1>2. ASSUME NEW t \in Targets, LookUp(d, t)
      PROVE  TypeOK'
  <2>1. StoreTypes'
    BY <1>0, <1>2 DEF StoreTypes, LookUp, outside
  <2>2. PassTypes'
    BY <1>0, <1>2 DEF PassTypes, LookUp, Goto, Places
  <2>3. PassHolds'
    BY <1>0, <1>2, RowFacts DEF PassTypes, PassHolds, LookUp, Goto
  <2> QED
    BY <2>1, <2>2, <2>3, NextTypeParts
<1>3. CASE Insert(d)
  <2>1. rows' \in [Rows -> Entries]
    BY <1>0, <1>3, EntryTypes, RowFacts DEF StoreTypes, Insert
  <2>2. StoreTypes'
    BY <1>0, <1>3, <2>1 DEF StoreTypes, Insert, outside
  <2>3. PassTypes'
    BY <1>0, <1>3 DEF PassTypes, Insert, Goto, Places
  <2>4. PassHolds'
    BY <1>0, <1>3 DEF PassTypes, PassHolds, Insert, Goto
  <2> QED
    BY <2>2, <2>3, <2>4, NextTypeParts
<1>4. CASE ClosePublication(d)
  <2>1. rows' \in [Rows -> Entries]
    BY <1>0, <1>4, RowFacts, MarkedEntries, MarkEffect DEF ClosePublication
  <2>2. StoreTypes'
    BY <1>0, <1>4, <2>1 DEF StoreTypes, PassTypes, ClosePublication, outside
  <2>3. PassTypes' /\ PassHolds'
    BY <1>0, <1>4, ReleaseEffect DEF ClosePublication
  <2> QED
    BY <2>2, <2>3, NextTypeParts
<1> QED
  BY <1>1, <1>2, <1>3, <1>4

\* The steps of a delivery.
LEMMA DeliveryTypes ==
    ASSUME TypeOK, NEW d \in Dispatchers,
           \/ LoadTarget(d) \/ Skip(d) \/ MarkAttempt(d) \/ Send(d)
           \/ MarkDelivered(d) \/ MarkSuccess(d) \/ MarkFailure(d) \/ ScheduleRetry(d)
    PROVE  TypeOK'
<1>0. StoreTypes /\ PassTypes /\ PassHolds
  BY TypeParts
<1>1. /\ row[d] \in Deliveries /\ row[d] \in Rows /\ TargetOf(row[d]) \in Targets
      /\ copy[d] \in TargetStates /\ target[TargetOf(row[d])] \in TargetStates
  BY <1>0, RowFacts DEF StoreTypes, PassTypes, PassHolds, LoadTarget, Skip, MarkAttempt, Send,
     MarkDelivered, MarkSuccess, MarkFailure, ScheduleRetry
<1>2. ASSUME SaveTarget(d)
      PROVE  target' \in [Targets -> TargetStates]
  BY <1>0, <1>1, <1>2 DEF StoreTypes, SaveTarget
<1>3. CASE LoadTarget(d)
  <2>1. StoreTypes'
    BY <1>0, <1>3 DEF StoreTypes, LoadTarget, outside
  <2>2. PassTypes' /\ PassHolds'
    BY <1>0, <1>1, <1>3 DEF PassTypes, PassHolds, LoadTarget, Goto, Places
  <2> QED
    BY <2>1, <2>2, NextTypeParts
<1>4. CASE Skip(d)
  <2>1. rows' \in [Rows -> Entries]
    BY <1>0, <1>1, <1>4, MarkedEntries, MarkEffect DEF Skip
  <2>2. log' \in [Rows -> Histories]
    BY <1>0, <1>1, <1>4 DEF StoreTypes, Histories, Skip
  <2>3. StoreTypes'
    BY <1>0, <1>4, <2>1, <2>2 DEF StoreTypes, Skip, outside
  <2>4. PassTypes' /\ PassHolds'
    BY <1>0, <1>4, ReleaseEffect DEF Skip
  <2> QED
    BY <2>3, <2>4, NextTypeParts
<1>5. CASE MarkAttempt(d)
  <2>1. StoreTypes'
    BY <1>0, <1>2, <1>5 DEF StoreTypes, MarkAttempt, outside
  <2>2. PassTypes' /\ PassHolds'
    BY <1>0, <1>1, <1>5 DEF PassTypes, PassHolds, MarkAttempt, Goto, Places
  <2> QED
    BY <2>1, <2>2, NextTypeParts
<1>6. CASE Send(d)
  <2>1. log' \in [Rows -> Histories]
    BY <1>0, <1>1, <1>6, SendEffect
  <2>2. StoreTypes'
    BY <1>0, <1>6, <2>1 DEF StoreTypes, Send, outside
  <2>3. PassTypes' /\ PassHolds'
    BY <1>0, <1>1, <1>6, RowFacts DEF PassTypes, PassHolds, Send, Classified, Goto, Places
  <2> QED
    BY <2>2, <2>3, NextTypeParts
<1>7. CASE MarkDelivered(d)
  <2>1. rows' \in [Rows -> Entries]
    BY <1>0, <1>1, <1>7, MarkedEntries, MarkEffect DEF MarkDelivered
  <2>2. StoreTypes'
    BY <1>0, <1>7, <2>1 DEF StoreTypes, MarkDelivered, outside
  <2>3. PassTypes' /\ PassHolds'
    BY <1>0, <1>1, <1>7 DEF PassTypes, PassHolds, MarkDelivered, Goto, Places
  <2> QED
    BY <2>2, <2>3, NextTypeParts
<1>8. CASE MarkSuccess(d)
  <2>1. StoreTypes'
    BY <1>0, <1>2, <1>8 DEF StoreTypes, MarkSuccess, outside
  <2>2. PassTypes' /\ PassHolds'
    BY <1>0, <1>8, ReleaseEffect DEF MarkSuccess
  <2> QED
    BY <2>1, <2>2, NextTypeParts
<1>9. CASE MarkFailure(d)
  <2>1. StoreTypes'
    BY <1>0, <1>2, <1>9 DEF StoreTypes, MarkFailure, outside
  <2>2. PassTypes' /\ PassHolds'
    BY <1>0, <1>1, <1>9 DEF PassTypes, PassHolds, MarkFailure, Goto, Places
  <2> QED
    BY <2>1, <2>2, NextTypeParts
<1>10. CASE ScheduleRetry(d)
  <2>1. rows' \in [Rows -> Entries]
    BY <1>0, <1>1, <1>10, MarkedEntries, MarkEffect DEF ScheduleRetry
  <2>2. StoreTypes'
    BY <1>0, <1>10, <2>1 DEF StoreTypes, ScheduleRetry, outside
  <2>3. PassTypes' /\ PassHolds'
    BY <1>0, <1>10, ReleaseEffect DEF ScheduleRetry
  <2> QED
    BY <2>2, <2>3, NextTypeParts
<1> QED
  BY <1>3, <1>4, <1>5, <1>6, <1>7, <1>8, <1>9, <1>10

\* Deaths, the clock, the retention job and the administrator.
LEMMA SurroundingTypes ==
    ASSUME TypeOK,
           \/ \E d \in Dispatchers : Crash(d)
           \/ \E r \in Rows : ClaimExpires(r) \/ ClaimOverruns(r) \/ BackoffPasses(r) \/ Purge(r)
           \/ Administer
    PROVE  TypeOK'
<1>0. StoreTypes /\ PassTypes /\ PassHolds
  BY TypeParts
<1>1. ASSUME NEW d \in Dispatchers, Crash(d)
      PROVE  TypeOK'
  <2>1. StoreTypes'
    BY <1>0, <1>1 DEF StoreTypes, Crash
  <2>2. PassTypes' /\ PassHolds'
    BY <1>0, <1>1, ReleaseEffect DEF Crash
  <2> QED
    BY <2>1, <2>2, NextTypeParts
<1>2. ASSUME NEW r \in Rows, ClaimExpires(r) \/ ClaimOverruns(r) \/ BackoffPasses(r) \/ Purge(r)
      PROVE  TypeOK'
  <2>1. rows' \in [Rows -> Entries]
    BY <1>0, <1>2 DEF StoreTypes, Entries, Statuses, ClaimExpires, ClaimOverruns, BackoffPasses, Purge
  <2>2. StoreTypes'
    BY <1>0, <1>2, <2>1 DEF StoreTypes, ClaimExpires, ClaimOverruns, BackoffPasses, Purge, outside
  <2>3. PassTypes' /\ PassHolds'
    BY <1>0, <1>2 DEF PassTypes, PassHolds, ClaimExpires, ClaimOverruns, BackoffPasses, Purge
  <2> QED
    BY <2>2, <2>3, NextTypeParts
<1>3. CASE Administer
  <2>1. put' \in [Editors -> Puts \cup {None}] /\ target' \in [Targets -> TargetStates]
    <3>1. ASSUME NEW a \in Editors, NEW t \in Targets, NEW state \in {"active", "inactive"},
                 LoadForEdit(a, t, state)
          PROVE  put' \in [Editors -> Puts \cup {None}] /\ UNCHANGED target
      BY <1>0, <3>1 DEF StoreTypes, LoadForEdit, Puts
    <3>2. ASSUME NEW a \in Editors, SaveEdit(a)
          PROVE  put' \in [Editors -> Puts \cup {None}] /\ target' \in [Targets -> TargetStates]
      <4>1. put[a] \in Puts
        BY <1>0, <3>2 DEF StoreTypes, SaveEdit
      <4>2. put[a][1] \in Targets /\ put[a][2] \in TargetStates
        BY <4>1 DEF Puts, TargetStates
      <4> QED
        BY <1>0, <3>2, <4>2 DEF StoreTypes, SaveEdit
    <3>3. ASSUME NEW a \in Editors, DropEdit(a)
          PROVE  put' \in [Editors -> Puts \cup {None}] /\ UNCHANGED target
      BY <1>0, <3>3 DEF StoreTypes, DropEdit
    <3>4. ASSUME NEW t \in Targets, DeleteTarget(t)
          PROVE  UNCHANGED put /\ target' \in [Targets -> TargetStates]
      BY <1>0, <3>4 DEF StoreTypes, DeleteTarget, TargetStates
    <3> QED
      BY <1>0, <1>3, <3>1, <3>2, <3>3, <3>4 DEF Administer, StoreTypes
  <2>2. quietOff' \in SUBSET Targets /\ edits' \in Nat
    <3>1. \A a \in Editors : put[a] # None => put[a][1] \in Targets
      BY <1>0 DEF StoreTypes, Puts
    <3> QED
      BY <1>0, <1>3, <3>1 DEF StoreTypes, Administer, LoadForEdit, SaveEdit, DropEdit, DeleteTarget
  <2>3. UNCHANGED <<rows, log, promised, overlap, faults, at, row, count, todo, pick, plan, copy>>
    BY <1>3 DEF Administer, LoadForEdit, SaveEdit, DropEdit, DeleteTarget
  <2>4. StoreTypes'
    BY <1>0, <2>1, <2>2, <2>3 DEF StoreTypes
  <2>5. PassTypes' /\ PassHolds'
    BY <1>0, <2>3 DEF PassTypes, PassHolds
  <2> QED
    BY <2>4, <2>5, NextTypeParts
<1> QED
  BY <1>1, <1>2, <1>3

LEMMA NextTypes == TypeOK /\ [Next]_vars => TypeOK'
<1> SUFFICES ASSUME TypeOK, [Next]_vars PROVE TypeOK'
  OBVIOUS
<1>1. CASE UNCHANGED vars
  BY <1>1, TypeParts, NextTypeParts DEF vars, StoreTypes, PassTypes, PassHolds
<1> QED
  BY <1>1, ClaimTypes, FanOutTypes, DeliveryTypes, SurroundingTypes
     DEF Next, DispatcherStep, Administer

-----------------------------------------------------------------------------

\* What a dispatcher or its death does leaves the other passes alone.
LEMMA OthersUntouched ==
    ASSUME TypeOK, NEW d \in Dispatchers, DispatcherStep(d) \/ Crash(d)
    PROVE  \A e \in Dispatchers : e # d => /\ at'[e] = at[e] /\ row'[e] = row[e]
                                           /\ count'[e] = count[e] /\ todo'[e] = todo[e]
                                           /\ pick'[e] = pick[e] /\ plan'[e] = plan[e]
<1>0. PassTypes /\ PassHolds
  BY TypeParts
<1>1. CASE \E r \in Rows : Claim(d, r)
  BY <1>0, <1>1 DEF PassTypes, Claim, Goto
<1>2. CASE Match(d) \/ (\E t \in Targets : LookUp(d, t)) \/ Insert(d)
  BY <1>0, <1>2 DEF PassTypes, Match, LookUp, Insert, Goto
<1>3. CASE Release(d)
  BY <1>0, <1>3, ReleaseEffect
<1>4. CASE LoadTarget(d) \/ MarkAttempt(d) \/ Send(d) \/ MarkDelivered(d) \/ MarkFailure(d)
  BY <1>0, <1>4 DEF PassTypes, LoadTarget, MarkAttempt, Send, MarkDelivered, MarkFailure, Goto
<1>5. ClosePublication(d) \/ Skip(d) \/ MarkSuccess(d) \/ ScheduleRetry(d) \/ Crash(d) => Release(d)
  BY DEF ClosePublication, Skip, MarkSuccess, ScheduleRetry, Crash
<1> QED
  BY <1>1, <1>2, <1>3, <1>4, <1>5 DEF DispatcherStep

\* The clock, the retention job and the administrator leave every pass alone.
Surroundings ==
    \/ \E r \in Rows : ClaimExpires(r) \/ ClaimOverruns(r) \/ BackoffPasses(r) \/ Purge(r)
    \/ Administer

LEMMA PassesUntouched ==
    ASSUME Surroundings
    PROVE  UNCHANGED <<at, row, count, todo, pick, plan, log, promised, overlap>>
BY DEF Surroundings, ClaimExpires, ClaimOverruns, BackoffPasses, Purge, Administer,
       LoadForEdit, SaveEdit, DropEdit, DeleteTarget

LEMMA NextCases ==
    ASSUME Next
    PROVE  (\E d \in Dispatchers : DispatcherStep(d) \/ Crash(d)) \/ Surroundings
BY DEF Next, Surroundings, Administer

\* How a step may change a row and its history: a row that was inserted stays
\* inserted, attempts only grow, a purged row stays purged, and what happened to
\* a delivery is not forgotten.
Remembers(r) ==
    /\ rows[r].status # "absent" =>
          rows'[r].status # "absent" /\ rows[r].attempts <= rows'[r].attempts
    /\ rows[r].status = "purged" => rows'[r].status = "purged"
    /\ log[r].received => log'[r].received
    /\ log[r].skipped => log'[r].skipped
    /\ log[r].fatal => log'[r].fatal

LEMMA EveryStepRemembers ==
    ASSUME TypeOK, Next
    PROVE  \A r \in Rows : Remembers(r)
<1>0. StoreTypes /\ PassTypes /\ PassHolds
  BY TypeParts
<1>1. \A r \in Rows : /\ rows[r].attempts \in Nat
                      /\ rows[r].attempts <= rows[r].attempts
                      /\ rows[r].attempts <= rows[r].attempts + 1
  BY <1>0 DEF StoreTypes, Entries
<1>2. ASSUME UNCHANGED <<rows, log>> PROVE \A r \in Rows : Remembers(r)
  BY <1>1, <1>2 DEF Remembers
<1>3. ASSUME NEW q \in Rows, NEW entry \in {Delivered(q), Failed(q), Retried(q)}, Mark(q, entry),
             \A r \in Rows : /\ log[r].received => log'[r].received
                             /\ log[r].skipped => log'[r].skipped
                             /\ log[r].fatal => log'[r].fatal
      PROVE  \A r \in Rows : Remembers(r)
  <2>1. entry \in Entries /\ entry.status \notin {"absent", "purged"}
        /\ rows[q].attempts <= entry.attempts
    BY <1>0, <1>1, <1>3, MarkedEntries
  <2>2. \A r \in Rows : rows'[r] = IF r = q /\ Exists(q) THEN entry ELSE rows[r]
    BY <1>0, <1>3, <2>1, MarkEffect
  <2> QED
    BY <1>1, <1>3, <2>1, <2>2 DEF Remembers, Exists
<1>4. ASSUME NEW d \in Dispatchers, NEW r \in Rows, Claim(d, r)
      PROVE  \A q \in Rows : Remembers(q)
  BY <1>0, <1>1, <1>4 DEF StoreTypes, Entries, Histories, Claim, Claimable, Remembers
<1>5. ASSUME NEW d \in Dispatchers, Insert(d)
      PROVE  \A q \in Rows : Remembers(q)
  BY <1>0, <1>1, <1>5, RowFacts DEF StoreTypes, Insert, Fresh, Remembers
<1>6. ASSUME NEW d \in Dispatchers, ClosePublication(d)
      PROVE  \A q \in Rows : Remembers(q)
  BY <1>3, <1>6, RowFacts DEF ClosePublication
<1>7. ASSUME NEW d \in Dispatchers, Skip(d)
      PROVE  \A q \in Rows : Remembers(q)
  <2>1. row[d] \in Rows
    BY <1>0, <1>7, RowFacts DEF PassHolds, Skip
  <2>2. \A r \in Rows : /\ log[r].received => log'[r].received
                        /\ log[r].skipped => log'[r].skipped
                        /\ log[r].fatal => log'[r].fatal
    BY <1>0, <1>7, <2>1 DEF StoreTypes, Histories, Skip
  <2> QED
    BY <1>3, <1>7, <2>1, <2>2 DEF Skip
<1>8. ASSUME NEW d \in Dispatchers, Send(d)
      PROVE  \A q \in Rows : Remembers(q)
  <2>1. row[d] \in Rows
    BY <1>0, <1>8, RowFacts DEF PassHolds, Send
  <2>2. \A r \in Rows : /\ log[r].received => log'[r].received
                        /\ log[r].skipped => log'[r].skipped
                        /\ log[r].fatal => log'[r].fatal
    BY <1>0, <1>8, <2>1, SendEffect
  <2>3. \A r \in Rows :
           /\ rows[r].status # "absent" =>
                 rows'[r].status # "absent" /\ rows[r].attempts <= rows'[r].attempts
           /\ rows[r].status = "purged" => rows'[r].status = "purged"
    BY <1>1, <1>8 DEF Send
  <2> QED
    BY <2>2, <2>3, Zenon DEF Remembers
<1>9. ASSUME NEW d \in Dispatchers, MarkDelivered(d) \/ ScheduleRetry(d)
      PROVE  \A q \in Rows : Remembers(q)
  <2>1. row[d] \in Rows
    BY <1>0, <1>9, RowFacts DEF PassHolds, MarkDelivered, ScheduleRetry
  <2> QED
    BY <1>3, <1>9, <2>1 DEF MarkDelivered, ScheduleRetry
<1>10. ASSUME NEW d \in Dispatchers,
              \/ Match(d) \/ (\E t \in Targets : LookUp(d, t)) \/ LoadTarget(d)
              \/ MarkAttempt(d) \/ MarkSuccess(d) \/ MarkFailure(d) \/ Crash(d)
       PROVE  \A q \in Rows : Remembers(q)
  BY <1>2, <1>10 DEF Match, LookUp, LoadTarget, MarkAttempt, MarkSuccess, MarkFailure, Crash
<1>11. ASSUME NEW r \in Rows,
              ClaimExpires(r) \/ ClaimOverruns(r) \/ BackoffPasses(r) \/ Purge(r)
       PROVE  \A q \in Rows : Remembers(q)
  BY <1>0, <1>1, <1>11 DEF StoreTypes, Entries, ClaimExpires, ClaimOverruns, BackoffPasses,
                           Purge, Remembers
<1>12. CASE Administer
  BY <1>2, <1>12 DEF Administer, LoadForEdit, SaveEdit, DropEdit, DeleteTarget
<1> QED
  BY <1>4, <1>5, <1>6, <1>7, <1>8, <1>9, <1>10, <1>11, <1>12
     DEF Next, DispatcherStep, Administer

-----------------------------------------------------------------------------

\* What a pass is about to mark is backed by what happened to its row, and the
\* attempt count it has read is not ahead of the row's.
MarksAreBacked ==
    \A d \in Dispatchers :
        /\ at[d] = "sent" => log[row[d]].received
        /\ at[d] \in {"fatal", "giveup"} => log[row[d]].fatal
        /\ at[d] # "idle" => /\ rows[row[d]].status # "absent"
                             /\ count[d] <= rows[row[d]].attempts

LEMMA MarksStayBacked ==
    ASSUME TypeOK, MarksAreBacked, Next
    PROVE  MarksAreBacked'
<1>0. StoreTypes /\ PassTypes /\ PassHolds
  BY TypeParts
<1> DEFINE Backed(d) == /\ at[d] = "sent" => log[row[d]].received
                        /\ at[d] \in {"fatal", "giveup"} => log[row[d]].fatal
                        /\ at[d] # "idle" => /\ rows[row[d]].status # "absent"
                                             /\ count[d] <= rows[row[d]].attempts
<1>1. \A r \in Rows : Remembers(r)
  BY EveryStepRemembers
<1>2. \A e \in Dispatchers : at[e] # "idle" => row[e] \in Rows
  BY <1>0, RowFacts DEF PassTypes, PassHolds
<1>3. \A r \in Rows : rows[r].attempts \in Nat /\ rows'[r].attempts \in Nat
  BY <1>0, NextTypes, NextTypeParts DEF StoreTypes, Entries
<1>4. \A e \in Dispatchers : count[e] \in Nat
  BY <1>0 DEF PassTypes
\* A pass whose position is unchanged stays backed.
<1>5. ASSUME NEW e \in Dispatchers, row'[e] = row[e], count'[e] = count[e],
             at'[e] \in {"sent", "fatal", "giveup"} => at'[e] = at[e],
             at[e] # "idle"
      PROVE  Backed(e)'
  BY <1>1, <1>2, <1>3, <1>4, <1>5 DEF MarksAreBacked, Remembers
<1>6. ASSUME NEW e \in Dispatchers, row'[e] = row[e], count'[e] = count[e], at'[e] = at[e]
      PROVE  Backed(e)'
  BY <1>5, <1>6
<1>7. CASE Surroundings
  BY <1>6, <1>7, PassesUntouched DEF MarksAreBacked
<1>8. ASSUME NEW d \in Dispatchers, DispatcherStep(d) \/ Crash(d)
      PROVE  Backed(d)'
  <2>1. ASSUME NEW r \in Rows, Claim(d, r)
        PROVE  Backed(d)'
    <3>1. /\ at'[d] \in {"match", "load"} /\ row'[d] = r /\ count'[d] = rows[r].attempts
          /\ rows'[r].status = "claimed" /\ rows'[r].attempts = rows[r].attempts
      BY <1>0, <2>1 DEF StoreTypes, PassTypes, Entries, Claim, Goto
    <3> QED
      BY <1>3, <3>1
  <2>2. CASE Match(d) \/ (\E t \in Targets : LookUp(d, t)) \/ Insert(d)
    <3>1. /\ row'[d] = row[d] /\ count'[d] = count[d] /\ at[d] # "idle"
          /\ at'[d] \in {"fanout", "insert"}
      BY <1>0, <2>2 DEF PassTypes, Match, LookUp, Insert, Goto
    <3> QED
      BY <1>5, <3>1
  <2>3. CASE Release(d)
    <3>1. at'[d] = "idle"
      BY <1>0, <2>3, ReleaseEffect
    <3> QED
      BY <3>1
  <2>4. CASE LoadTarget(d) \/ MarkAttempt(d) \/ MarkDelivered(d)
    <3>1. /\ row'[d] = row[d] /\ count'[d] = count[d] /\ at[d] # "idle"
          /\ at'[d] \in {"attempt", "skip", "send", "success"}
      BY <1>0, <2>4 DEF PassTypes, LoadTarget, MarkAttempt, MarkDelivered, Goto
    <3> QED
      BY <1>5, <3>1
  <2>5. CASE Send(d)
    <3>1. /\ row'[d] = row[d] /\ count'[d] = count[d] /\ at[d] # "idle" /\ row[d] \in Rows
          /\ UNCHANGED rows
      BY <1>0, <1>2, <2>5 DEF PassTypes, Send
    <3>2. /\ at'[d] = "sent" => log'[row[d]].received
          /\ at'[d] = "fatal" => log'[row[d]].fatal
          /\ at'[d] # "giveup"
      BY <1>0, <2>5, <3>1 DEF StoreTypes, PassTypes, Histories, Send, Classified, Goto
    <3> QED
      BY <3>1, <3>2 DEF MarksAreBacked
  <2>6. CASE MarkFailure(d)
    <3>1. /\ row'[d] = row[d] /\ count'[d] = count[d] /\ at[d] # "idle"
          /\ UNCHANGED <<rows, log>>
          /\ at'[d] = (IF at[d] = "fatal" THEN "giveup" ELSE "retry")
      BY <1>0, <2>6 DEF PassTypes, MarkFailure, Goto
    <3> QED
      BY <3>1 DEF MarksAreBacked
  <2>7. ClosePublication(d) \/ Skip(d) \/ MarkSuccess(d) \/ ScheduleRetry(d) \/ Crash(d) => Release(d)
    BY DEF ClosePublication, Skip, MarkSuccess, ScheduleRetry, Crash
  <2> QED
    BY <1>8, <2>1, <2>2, <2>3, <2>4, <2>5, <2>6, <2>7 DEF DispatcherStep
<1>9. ASSUME NEW d \in Dispatchers, DispatcherStep(d) \/ Crash(d)
      PROVE  MarksAreBacked'
  <2>1. \A e \in Dispatchers : e # d => Backed(e)'
    BY <1>6, <1>9, OthersUntouched
  <2> QED
    BY <1>8, <1>9, <2>1 DEF MarksAreBacked
<1> QED
  BY <1>7, <1>9, NextCases

\* A row is settled only by a mark that is backed.
LEMMA SettlementsStayJustified ==
    ASSUME TypeOK, MarksAreBacked, SettledIsJustified, Next
    PROVE  SettledIsJustified'
<1>0. StoreTypes /\ PassTypes /\ PassHolds
  BY TypeParts
<1> DEFINE Justified(r) ==
      /\ r \in Deliveries /\ rows[r].status \in {"delivered", "purged"} =>
            log[r].received \/ log[r].skipped
      /\ rows[r].status = "failed" => log[r].fatal \/ rows[r].attempts > MaxRetries
<1>1. \A r \in Rows : Remembers(r)
  BY EveryStepRemembers
<1>2. \A r \in Rows : rows[r].attempts \in Nat /\ rows'[r].attempts \in Nat
  BY <1>0, NextTypes, NextTypeParts DEF StoreTypes, Entries
<1>3. MaxRetries \in Nat /\ \A d \in Dispatchers : count[d] \in Nat
  BY <1>0, OutboxAssumption DEF PassTypes
\* A row whose status is kept, or that is opened or purged, stays justified.
<1>4. ASSUME NEW r \in Rows,
             \/ rows'[r].status = rows[r].status
             \/ rows'[r].status \in {"pending", "claimed", "absent"}
             \/ rows[r].status = "delivered" /\ rows'[r].status = "purged"
      PROVE  Justified(r)'
  BY <1>1, <1>2, <1>3, <1>4, RowFacts DEF SettledIsJustified, Remembers
<1>5. ASSUME NEW d \in Dispatchers, NEW r \in Rows, Claim(d, r)
      PROVE  \A q \in Rows : Justified(q)'
  <2>1. \A q \in Rows : rows'[q].status = rows[q].status \/ rows'[q].status = "claimed"
    BY <1>0, <1>5 DEF StoreTypes, Entries, Claim
  <2> QED
    BY <1>4, <2>1
<1>6. ASSUME NEW d \in Dispatchers, Insert(d)
      PROVE  \A q \in Rows : Justified(q)'
  <2>1. \A q \in Rows : rows'[q].status = rows[q].status \/ rows'[q].status = "pending"
    BY <1>0, <1>6, RowFacts DEF StoreTypes, Entries, Insert, NewEntry
  <2> QED
    BY <1>4, <2>1
<1>7. ASSUME NEW d \in Dispatchers, ClosePublication(d)
      PROVE  \A q \in Rows : Justified(q)'
  <2>1. /\ \A q \in Rows : q # Pub => rows'[q].status = rows[q].status
        /\ rows'[Pub].status \in {"delivered", rows[Pub].status}
    BY <1>0, <1>7, RowFacts, MarkedEntries, MarkEffect DEF ClosePublication
  <2>2. Justified(Pub)'
    BY <1>4, <2>1, RowFacts
  <2> QED
    BY <1>4, <2>1, <2>2
<1>8. ASSUME NEW d \in Dispatchers, Skip(d)
      PROVE  \A q \in Rows : Justified(q)'
  <2>1. PICK r \in Rows : r = row[d]
    BY <1>0, <1>8, RowFacts DEF PassHolds, Skip
  <2>2. /\ \A q \in Rows : q # r => rows'[q].status = rows[q].status
        /\ rows'[r].status \in {"delivered", rows[r].status}
    BY <1>0, <1>8, <2>1, MarkedEntries, MarkEffect DEF Skip
  <2>3. log'[r].skipped
    BY <1>0, <1>8, <2>1 DEF StoreTypes, Histories, Skip
  <2>4. Justified(r)'
    BY <1>4, <2>1, <2>2, <2>3
  <2> QED
    BY <1>4, <2>2, <2>4
<1>9. ASSUME NEW d \in Dispatchers, MarkDelivered(d)
      PROVE  \A q \in Rows : Justified(q)'
  <2>1. PICK r \in Rows : r = row[d]
    BY <1>0, <1>9, RowFacts DEF PassHolds, MarkDelivered
  <2>2. /\ \A q \in Rows : q # r => rows'[q].status = rows[q].status
        /\ rows'[r].status \in {"delivered", rows[r].status}
    BY <1>0, <1>9, <2>1, MarkedEntries, MarkEffect DEF MarkDelivered
  <2>3. log'[r].received
    BY <1>9, <2>1 DEF MarksAreBacked, MarkDelivered
  <2>4. Justified(r)'
    BY <1>4, <2>1, <2>2, <2>3
  <2> QED
    BY <1>4, <2>2, <2>4
<1>10. ASSUME NEW d \in Dispatchers, ScheduleRetry(d)
       PROVE  \A q \in Rows : Justified(q)'
  <2>1. PICK r \in Rows : r = row[d]
    BY <1>0, <1>10, RowFacts DEF PassHolds, ScheduleRetry
  <2>2. CASE at[d] = "retry" /\ RetriesLeft(d)
    <3>1. \A q \in Rows : rows'[q].status = rows[q].status \/ rows'[q].status = "pending"
      BY <1>0, <1>10, <2>1, <2>2, MarkedEntries, MarkEffect DEF ScheduleRetry
    <3> QED
      BY <1>4, <3>1
  <2>3. CASE ~ (at[d] = "retry" /\ RetriesLeft(d))
    <3>1. /\ \A q \in Rows : q # r => rows'[q].status = rows[q].status
          /\ rows'[r].status = rows[r].status
             \/ /\ rows'[r].status = "failed"
                /\ rows'[r].attempts = rows[r].attempts + 1
      BY <1>0, <1>10, <2>1, <2>3, MarkedEntries, MarkEffect DEF ScheduleRetry
    <3>2. log'[r].fatal \/ rows[r].attempts + 1 > MaxRetries
      <4>1. CASE at[d] = "giveup"
        BY <1>10, <2>1, <4>1 DEF MarksAreBacked, ScheduleRetry
      <4>2. CASE at[d] = "retry"
        BY <1>2, <1>3, <2>1, <2>3, <4>2 DEF MarksAreBacked, RetriesLeft
      <4> QED
        BY <1>10, <4>1, <4>2 DEF ScheduleRetry
    <3>3. Justified(r)'
      BY <1>4, <2>1, <3>1, <3>2
    <3> QED
      BY <1>4, <3>1, <3>3
  <2> QED
    BY <2>2, <2>3
<1>11. ASSUME UNCHANGED rows PROVE \A q \in Rows : Justified(q)'
  BY <1>4, <1>11
<1>12. ASSUME NEW r \in Rows,
              ClaimExpires(r) \/ ClaimOverruns(r) \/ BackoffPasses(r) \/ Purge(r)
       PROVE  \A q \in Rows : Justified(q)'
  <2>1. \A q \in Rows : \/ rows'[q].status = rows[q].status
                        \/ rows[q].status = "delivered" /\ rows'[q].status = "purged"
    BY <1>0, <1>12 DEF StoreTypes, Entries, ClaimExpires, ClaimOverruns, BackoffPasses, Purge
  <2> QED
    BY <1>4, <2>1
<1>13. ASSUME NEW d \in Dispatchers,
              \/ Match(d) \/ (\E t \in Targets : LookUp(d, t)) \/ LoadTarget(d) \/ Send(d)
              \/ MarkAttempt(d) \/ MarkSuccess(d) \/ MarkFailure(d) \/ Crash(d)
       PROVE  UNCHANGED rows
  BY <1>13 DEF Match, LookUp, LoadTarget, Send, MarkAttempt, MarkSuccess, MarkFailure, Crash
<1>14. ASSUME Administer
       PROVE  UNCHANGED rows
  BY <1>14 DEF Administer, LoadForEdit, SaveEdit, DropEdit, DeleteTarget
<1>15. \A q \in Rows : Justified(q)'
  BY <1>5, <1>6, <1>7, <1>8, <1>9, <1>10, <1>11, <1>12, <1>13, <1>14
     DEF Next, DispatcherStep, Administer
<1> QED
  BY <1>15, RowFacts DEF SettledIsJustified

-----------------------------------------------------------------------------

HasRow(t) == \E r \in Deliveries : TargetOf(r) = t /\ rows[r].status # "absent"

\* Every target a fan-out has matched is still to be enqueued, is being
\* enqueued, or has a row.
PlanIsCovered ==
    \A d \in Dispatchers : at[d] \in {"fanout", "insert"} =>
        \A t \in plan[d] : t \in todo[d] \/ (at[d] = "insert" /\ pick[d] = t) \/ HasRow(t)

LEMMA FanOutStaysComplete ==
    ASSUME TypeOK, PlanIsCovered, FanOutIsComplete, Next
    PROVE  PlanIsCovered' /\ FanOutIsComplete'
<1>0. StoreTypes /\ PassTypes /\ PassHolds
  BY TypeParts
<1>1. \A t : HasRow(t) => HasRow(t)'
  BY EveryStepRemembers, RowFacts DEF HasRow, Remembers
<1> DEFINE Covered(d) == at[d] \in {"fanout", "insert"} =>
             \A t \in plan[d] : t \in todo[d] \/ (at[d] = "insert" /\ pick[d] = t) \/ HasRow(t)
<1>2. ASSUME NEW e \in Dispatchers, at'[e] = at[e], plan'[e] = plan[e], todo'[e] = todo[e],
             pick'[e] = pick[e]
      PROVE  Covered(e)'
  BY <1>1, <1>2 DEF PlanIsCovered
<1>3. ASSUME promised' = promised PROVE FanOutIsComplete'
  BY <1>1, <1>3 DEF FanOutIsComplete, HasRow
<1>4. CASE Surroundings
  <2>1. PlanIsCovered'
    BY <1>2, <1>4, PassesUntouched DEF PlanIsCovered
  <2> QED
    BY <1>3, <1>4, <2>1, PassesUntouched
<1>5. ASSUME NEW d \in Dispatchers, DispatcherStep(d) \/ Crash(d)
      PROVE  Covered(d)' /\ FanOutIsComplete'
  <2>1. CASE Match(d)
    <3>1. at'[d] = "fanout" /\ plan'[d] = todo'[d] /\ promised' = promised
      BY <1>0, <2>1 DEF PassTypes, Match, Goto
    <3> QED
      BY <1>3, <3>1
  <2>2. ASSUME NEW t \in Targets, LookUp(d, t)
        PROVE  Covered(d)' /\ FanOutIsComplete'
    <3>1. /\ at[d] = "fanout" /\ promised' = promised
          /\ plan'[d] = plan[d] /\ todo'[d] = todo[d] \ {t}
      BY <1>0, <2>2 DEF PassTypes, LookUp
    <3>2. \/ Enqueued(t) /\ at'[d] = "fanout"
          \/ at'[d] = "insert" /\ pick'[d] = t
      BY <1>0, <2>2 DEF PassTypes, LookUp, Goto
    <3>3. Enqueued(t) => HasRow(t)
      BY DEF Enqueued, Exists, HasRow
    <3>4. Covered(d)'
      BY <1>1, <3>1, <3>2, <3>3 DEF PlanIsCovered
    <3> QED
      BY <1>3, <3>1, <3>4
  <2>3. CASE Insert(d)
    <3>1. /\ at[d] = "insert" /\ at'[d] = "fanout" /\ promised' = promised
          /\ plan'[d] = plan[d] /\ todo'[d] = todo[d]
      BY <1>0, <2>3 DEF PassTypes, Insert, Goto
    <3>2. \E r \in Deliveries : TargetOf(r) = pick[d] /\ rows'[r].status # "absent"
      BY <1>0, <2>3, RowFacts DEF StoreTypes, Entries, Insert, Fresh, NewEntry
    <3>3. \A t \in plan[d] : t = pick[d] => \E r \in Deliveries : TargetOf(r) = t /\ rows'[r].status # "absent"
      BY <3>2
    <3>4. Covered(d)'
      BY <1>1, <3>1, <3>3 DEF PlanIsCovered, HasRow
    <3> QED
      BY <1>3, <3>1, <3>4
  <2>4. CASE ClosePublication(d)
    <3>1. at'[d] = "idle"
      BY <1>0, <2>4, ReleaseEffect DEF ClosePublication
    <3>2. \A t \in plan[d] : HasRow(t)
      BY <2>4 DEF PlanIsCovered, ClosePublication
    <3>3. promised' = promised \cup plan[d]
      BY <2>4 DEF ClosePublication
    <3>4. FanOutIsComplete'
      BY <1>1, <3>2, <3>3 DEF FanOutIsComplete, HasRow
    <3> QED
      BY <3>1, <3>4
  <2>5. CASE \/ \E r \in Rows : Claim(d, r)
             \/ LoadTarget(d) \/ MarkAttempt(d) \/ Send(d) \/ MarkDelivered(d) \/ MarkFailure(d)
    <3>1. at'[d] \notin {"fanout", "insert"} /\ promised' = promised
      BY <1>0, <2>5 DEF PassTypes, Claim, LoadTarget, MarkAttempt, Send, Classified, MarkDelivered,
                        MarkFailure, Goto
    <3> QED
      BY <1>3, <3>1
  <2>6. CASE Skip(d) \/ MarkSuccess(d) \/ ScheduleRetry(d) \/ Crash(d)
    <3>1. Release(d) /\ promised' = promised
      BY <2>6 DEF Skip, MarkSuccess, ScheduleRetry, Crash
    <3>2. at'[d] = "idle"
      BY <1>0, <3>1, ReleaseEffect
    <3> QED
      BY <1>3, <3>1, <3>2
  <2> QED
    BY <1>5, <2>1, <2>2, <2>3, <2>4, <2>5, <2>6 DEF DispatcherStep
<1>6. ASSUME NEW d \in Dispatchers, DispatcherStep(d) \/ Crash(d)
      PROVE  PlanIsCovered'
  <2>1. \A e \in Dispatchers : e # d => Covered(e)'
    BY <1>2, <1>6, OthersUntouched
  <2> QED
    BY <1>5, <1>6, <2>1 DEF PlanIsCovered
<1> QED
  BY <1>4, <1>5, <1>6, NextCases

-----------------------------------------------------------------------------

\* Rows come into being by an insert and never come back once purged.
LEMMA OnlyInsertCreates ==
    ASSUME TypeOK, Next, \A d \in Dispatchers : ~ Insert(d)
    PROVE  \A r \in Rows : Exists(r)' => Exists(r)
<1>0. StoreTypes /\ PassTypes /\ PassHolds
  BY TypeParts
<1>1. ASSUME NEW q \in Rows, NEW entry \in {Delivered(q), Failed(q), Retried(q)}, Mark(q, entry)
      PROVE  \A r \in Rows : Exists(r)' => Exists(r)
  <2>1. entry \in Entries
    BY <1>0, <1>1, MarkedEntries
  <2>2. \A r \in Rows : rows'[r] = IF r = q /\ Exists(q) THEN entry ELSE rows[r]
    BY <1>0, <1>1, <2>1, MarkEffect
  <2> QED
    BY <2>2 DEF Exists
<1>2. ASSUME NEW d \in Dispatchers, NEW r \in Rows, Claim(d, r)
      PROVE  \A q \in Rows : Exists(q)' => Exists(q)
  BY <1>0, <1>2 DEF StoreTypes, Entries, Claim, Claimable, Exists
<1>3. ASSUME NEW d \in Dispatchers,
             ClosePublication(d) \/ Skip(d) \/ MarkDelivered(d) \/ ScheduleRetry(d)
      PROVE  \A q \in Rows : Exists(q)' => Exists(q)
  <2>1. ClosePublication(d) \/ row[d] \in Rows
    BY <1>0, <1>3, RowFacts DEF PassHolds, Skip, MarkDelivered, ScheduleRetry
  <2> QED
    BY <1>1, <1>3, <2>1, RowFacts DEF ClosePublication, Skip, MarkDelivered, ScheduleRetry
<1>4. ASSUME NEW d \in Dispatchers,
             \/ Match(d) \/ (\E t \in Targets : LookUp(d, t)) \/ LoadTarget(d) \/ Send(d)
             \/ MarkAttempt(d) \/ MarkSuccess(d) \/ MarkFailure(d) \/ Crash(d)
      PROVE  \A q \in Rows : Exists(q)' => Exists(q)
  BY <1>4 DEF Match, LookUp, LoadTarget, Send, MarkAttempt, MarkSuccess, MarkFailure, Crash, Exists
<1>5. ASSUME NEW r \in Rows, ClaimExpires(r) \/ ClaimOverruns(r) \/ BackoffPasses(r) \/ Purge(r)
      PROVE  \A q \in Rows : Exists(q)' => Exists(q)
  BY <1>0, <1>5 DEF StoreTypes, Entries, ClaimExpires, ClaimOverruns, BackoffPasses, Purge, Exists
<1>6. ASSUME Administer
      PROVE  \A q \in Rows : Exists(q)' => Exists(q)
  BY <1>6 DEF Administer, LoadForEdit, SaveEdit, DropEdit, DeleteTarget, Exists
<1> QED
  BY <1>2, <1>3, <1>4, <1>5, <1>6 DEF Next, DispatcherStep, Administer

\* As long as the publication was not taken over from a live fan-out, one pass
\* at a time fans out, and what it is about to insert is not there.
FanOutsAlone ==
    ~ overlap =>
        /\ \A d, e \in Dispatchers :
              row[d] = Pub /\ row[e] = Pub => d = e
        /\ \A d \in Dispatchers : at[d] = "insert" => ~ Enqueued(pick[d])

LEMMA RowsStayUnique ==
    ASSUME TypeOK, FanOutsAlone, OneRowPerTarget, Next
    PROVE  FanOutsAlone' /\ OneRowPerTarget'
<1>0. StoreTypes /\ PassTypes /\ PassHolds
  BY TypeParts
<1>1. ASSUME \A r \in Rows : Exists(r)' => Exists(r), overlap' = overlap
      PROVE  OneRowPerTarget'
  BY <1>1, RowFacts DEF OneRowPerTarget
<1>2. ASSUME \A r \in Rows : Exists(r)' => Exists(r)
      PROVE  \A t : ~ Enqueued(t) => ~ (\E r \in Deliveries : TargetOf(r) = t /\ Exists(r)')
  BY <1>2, RowFacts DEF Enqueued
<1>3. CASE Surroundings
  <2>1. \A r \in Rows : Exists(r)' => Exists(r)
    <3>1. ASSUME NEW r \in Rows, ClaimExpires(r) \/ ClaimOverruns(r) \/ BackoffPasses(r) \/ Purge(r)
          PROVE  \A q \in Rows : Exists(q)' => Exists(q)
      BY <1>0, <3>1 DEF StoreTypes, Entries, ClaimExpires, ClaimOverruns, BackoffPasses, Purge, Exists
    <3>2. ASSUME Administer
          PROVE  \A q \in Rows : Exists(q)' => Exists(q)
      BY <3>2 DEF Administer, LoadForEdit, SaveEdit, DropEdit, DeleteTarget, Exists
    <3> QED
      BY <1>3, <3>1, <3>2 DEF Surroundings
  <2>2. UNCHANGED <<at, row, pick, overlap>>
    BY <1>3, PassesUntouched
  <2>3. FanOutsAlone'
    BY <1>2, <2>1, <2>2 DEF FanOutsAlone, Enqueued
  <2> QED
    BY <1>1, <2>1, <2>2, <2>3
<1>4. ASSUME NEW d \in Dispatchers, Insert(d)
      PROVE  FanOutsAlone' /\ OneRowPerTarget'
  <2> SUFFICES ASSUME ~ overlap PROVE FanOutsAlone' /\ OneRowPerTarget'
    BY <1>4 DEF Insert, FanOutsAlone, OneRowPerTarget
  <2>1. PICK r \in Deliveries : Fresh(pick[d], r) /\ rows' = [rows EXCEPT ![r] = NewEntry]
    BY <1>4 DEF Insert
  <2>2. /\ row' = row /\ at'[d] = "fanout"
        /\ \A e \in Dispatchers : e # d => at'[e] = at[e] /\ pick'[e] = pick[e]
    BY <1>0, <1>4 DEF PassTypes, Insert, Goto
  <2>3. row[d] = Pub
    BY <1>0, <1>4 DEF PassHolds, Insert
  <2>4. \A e \in Dispatchers : at'[e] # "insert"
    BY <1>0, <2>2, <2>3 DEF FanOutsAlone, PassHolds
  <2>5. ~ Enqueued(pick[d])
    BY <1>4 DEF FanOutsAlone, Insert
  <2>6. \A q \in Rows : q # r => rows'[q] = rows[q]
    BY <1>0, <2>1, RowFacts DEF StoreTypes
  <2>7. FanOutsAlone'
    BY <2>2, <2>4 DEF FanOutsAlone
  <2>8. OneRowPerTarget'
    BY <2>1, <2>5, <2>6, RowFacts DEF OneRowPerTarget, Enqueued, Exists, Fresh
  <2> QED
    BY <2>7, <2>8
<1>5. ASSUME NEW d \in Dispatchers, DispatcherStep(d) \/ Crash(d), ~ Insert(d)
      PROVE  FanOutsAlone' /\ OneRowPerTarget'
  <2>1. \A r \in Rows : Exists(r)' => Exists(r)
    <3>1. \A e \in Dispatchers : ~ Insert(e) \/ e = d
      BY <1>0, <1>5, OthersUntouched DEF PassTypes, Insert, Goto
    <3> QED
      BY <1>5, <3>1, OnlyInsertCreates
  <2>2. CASE \E r \in Rows : Claim(d, r)
    <3>1. PICK r \in Rows : Claim(d, r)
      BY <2>2
    <3>2. /\ at[d] = "idle" /\ row[d] = None /\ row'[d] = r /\ at'[d] # "insert"
          /\ overlap' = (overlap \/ (r = Pub /\ \E e \in Dispatchers : Holds(e, Pub)))
      BY <1>0, <3>1 DEF PassTypes, PassHolds, Claim, Goto
    <3>3. ~ overlap' => ~ overlap /\ (r = Pub => \A e \in Dispatchers : row[e] # Pub)
      BY <1>0, <3>2, RowFacts DEF PassHolds, Holds
    <3>4. \A e \in Dispatchers : e # d => at'[e] = at[e] /\ row'[e] = row[e] /\ pick'[e] = pick[e]
      BY <1>5, OthersUntouched
    <3>5. FanOutsAlone'
      BY <1>2, <2>1, <3>2, <3>3, <3>4 DEF FanOutsAlone, Enqueued
    <3>6. OneRowPerTarget'
      BY <2>1, <3>3, RowFacts DEF OneRowPerTarget
    <3> QED
      BY <3>5, <3>6
  <2>3. CASE ~ \E r \in Rows : Claim(d, r)
    <3>1. /\ overlap' = overlap
          /\ row'[d] = row[d] \/ row'[d] = None
      BY <1>0, <1>5, <2>3 DEF PassTypes, DispatcherStep, Match, LookUp, Insert, ClosePublication,
         LoadTarget, Skip, MarkAttempt, Send, MarkDelivered, MarkSuccess, MarkFailure,
         ScheduleRetry, Crash, Release
    <3>2. at'[d] = "insert" => ~ Enqueued(pick'[d])
      <4>1. ASSUME NEW t \in Targets, LookUp(d, t), at'[d] = "insert"
            PROVE  ~ Enqueued(pick'[d])
        BY <1>0, <4>1 DEF PassTypes, LookUp, Goto
      <4>2. ASSUME ~ \E t \in Targets : LookUp(d, t)
            PROVE  at'[d] # "insert"
        <5>1. CASE Release(d)
          BY <1>0, <5>1, ReleaseEffect
        <5>2. CASE Match(d) \/ LoadTarget(d) \/ MarkAttempt(d) \/ Send(d) \/ MarkDelivered(d)
                   \/ MarkFailure(d)
          BY <1>0, <5>2 DEF PassTypes, Match, LoadTarget, MarkAttempt, Send, Classified, MarkDelivered,
                            MarkFailure, Goto
        <5>3. ClosePublication(d) \/ Skip(d) \/ MarkSuccess(d) \/ ScheduleRetry(d) \/ Crash(d)
              => Release(d)
          BY DEF ClosePublication, Skip, MarkSuccess, ScheduleRetry, Crash
        <5> QED
          BY <1>5, <2>3, <4>2, <5>1, <5>2, <5>3 DEF DispatcherStep
      <4> QED
        BY <4>1, <4>2
    <3>3. \A e \in Dispatchers : e # d => at'[e] = at[e] /\ row'[e] = row[e] /\ pick'[e] = pick[e]
      BY <1>5, OthersUntouched
    <3>4. FanOutsAlone'
      BY <1>2, <2>1, <3>1, <3>2, <3>3, RowFacts DEF FanOutsAlone, Enqueued
    <3> QED
      BY <1>1, <2>1, <3>1, <3>4
  <2> QED
    BY <2>2, <2>3
<1> QED
  BY <1>3, <1>4, <1>5, NextCases DEF DispatcherStep

-----------------------------------------------------------------------------

\* Where a pass still has a target in memory that it will save.
Writers == {"attempt", "send", "sent", "success", "retryable", "fatal"}

\* No pass that will save a target works on one that was switched off quietly, and
\* no PUT under way would switch one on.
NoWriterOnQuietTargets ==
    /\ \A d \in Dispatchers : at[d] \in Writers => TargetOf(row[d]) \notin quietOff
    /\ \A a \in Editors : put[a] # None /\ put[a][2] = "active" => put[a][1] \notin quietOff

LEMMA QuietTargetsStayOff ==
    ASSUME TypeOK, NoWriterOnQuietTargets, OffStaysOff, Next
    PROVE  NoWriterOnQuietTargets' /\ OffStaysOff'
<1>0. StoreTypes /\ PassTypes /\ PassHolds
  BY TypeParts
<1>1. ASSUME NEW d \in Dispatchers, DispatcherStep(d) \/ Crash(d)
      PROVE  NoWriterOnQuietTargets' /\ OffStaysOff'
  <2>1. quietOff' = quietOff /\ put' = put
    BY <1>1 DEF outside, DispatcherStep, Claim, Match, LookUp, Insert, ClosePublication, LoadTarget, Skip,
       MarkAttempt, Send, MarkDelivered, MarkSuccess, MarkFailure, ScheduleRetry, Crash
  <2>2. \A e \in Dispatchers : e # d => at'[e] = at[e] /\ row'[e] = row[e]
    BY <1>1, OthersUntouched
  <2>3. \A t \in quietOff : target[t] # "active"
    BY DEF OffStaysOff
  <2>4. at'[d] \in Writers => TargetOf(row'[d]) \notin quietOff
    <3>1. CASE LoadTarget(d)
      BY <1>0, <2>3, <3>1 DEF PassTypes, LoadTarget, Goto, Writers
    <3>2. CASE MarkAttempt(d) \/ Send(d) \/ MarkDelivered(d) \/ MarkFailure(d)
      <4>1. at[d] \in Writers /\ row'[d] = row[d]
        BY <3>2 DEF MarkAttempt, Send, MarkDelivered, MarkFailure, Writers
      <4> QED
        BY <4>1 DEF NoWriterOnQuietTargets
    <3>3. CASE (\E r \in Rows : Claim(d, r)) \/ Match(d) \/ (\E t \in Targets : LookUp(d, t)) \/ Insert(d)
      BY <1>0, <3>3 DEF PassTypes, Claim, Match, LookUp, Insert, Goto, Writers
    <3>4. CASE Release(d)
      BY <1>0, <3>4, ReleaseEffect DEF Writers
    <3>5. ClosePublication(d) \/ Skip(d) \/ MarkSuccess(d) \/ ScheduleRetry(d) \/ Crash(d)
          => Release(d)
      BY DEF ClosePublication, Skip, MarkSuccess, ScheduleRetry, Crash
    <3> QED
      BY <1>1, <3>1, <3>2, <3>3, <3>4, <3>5 DEF DispatcherStep
  <2>5. NoWriterOnQuietTargets'
    BY <2>1, <2>2, <2>4 DEF NoWriterOnQuietTargets
  <2>6. CASE MarkAttempt(d) \/ MarkSuccess(d) \/ MarkFailure(d)
    <3>1. TargetOf(row[d]) \notin quietOff /\ SaveTarget(d)
      BY <2>6 DEF NoWriterOnQuietTargets, MarkAttempt, MarkSuccess, MarkFailure, Writers
    <3>2. \A t \in quietOff : target'[t] = target[t]
      BY <1>0, <3>1 DEF StoreTypes, SaveTarget
    <3> QED
      BY <2>1, <2>3, <2>5, <3>2 DEF OffStaysOff
  <2>7. CASE UNCHANGED target
    BY <2>1, <2>3, <2>5, <2>7 DEF OffStaysOff
  <2>8. MarkAttempt(d) \/ MarkSuccess(d) \/ MarkFailure(d) \/ UNCHANGED target
    BY <1>1 DEF DispatcherStep, Claim, Match, LookUp, Insert, ClosePublication, LoadTarget, Skip,
       Send, MarkDelivered, ScheduleRetry, Crash
  <2> QED
    BY <2>6, <2>7, <2>8
<1>2. ASSUME NEW r \in Rows, ClaimExpires(r) \/ ClaimOverruns(r) \/ BackoffPasses(r) \/ Purge(r)
      PROVE  NoWriterOnQuietTargets' /\ OffStaysOff'
  BY <1>2 DEF ClaimExpires, ClaimOverruns, BackoffPasses, Purge, outside, NoWriterOnQuietTargets,
             OffStaysOff
<1>3. \A d \in Dispatchers : at[d] \in Writers => at[d] # "idle" /\ row[d] # Pub
  BY <1>0, RowFacts DEF PassHolds, Writers
<1>4. \A a \in Editors : put[a] # None => put[a] \in Puts /\ put[a][1] \in Targets
  BY <1>0 DEF StoreTypes, Puts
<1>5. ASSUME NEW a \in Editors, NEW t \in Targets, NEW state \in {"active", "inactive"},
             LoadForEdit(a, t, state)
      PROVE  NoWriterOnQuietTargets' /\ OffStaysOff'
  <2>1. /\ UNCHANGED <<at, row, target>> /\ quietOff' \subseteq quietOff
        /\ state = "active" => t \notin quietOff'
        /\ put'[a] = <<t, state>> /\ \A b \in Editors : b # a => put'[b] = put[b]
    BY <1>0, <1>5 DEF StoreTypes, LoadForEdit
  <2>2. \A b \in Editors : put'[b] # None /\ put'[b][2] = "active" => put'[b][1] \notin quietOff'
    BY <2>1 DEF NoWriterOnQuietTargets
  <2> QED
    BY <2>1, <2>2 DEF NoWriterOnQuietTargets, OffStaysOff
<1>6. ASSUME NEW a \in Editors, SaveEdit(a)
      PROVE  NoWriterOnQuietTargets' /\ OffStaysOff'
  <2> DEFINE t == put[a][1]
             state == put[a][2]
  <2>1. /\ UNCHANGED <<at, row>>
        /\ \A q \in Targets : target'[q] = IF q = t THEN state ELSE target[q]
        /\ quietOff' \subseteq quietOff \cup {t}
        /\ t \in quietOff' => t \in quietOff \/ (state = "inactive" /\ Quiet(t, a))
        /\ put[a] # None
        /\ put'[a] = None /\ \A b \in Editors : b # a => put'[b] = put[b]
    BY <1>0, <1>6 DEF StoreTypes, SaveEdit
  <2>2. NoWriterOnQuietTargets'
    <3>1. CASE t \in quietOff' /\ t \notin quietOff
      BY <1>3, <2>1, <3>1 DEF Quiet, NoWriterOnQuietTargets
    <3>2. CASE ~ (t \in quietOff' /\ t \notin quietOff)
      BY <2>1, <3>2 DEF NoWriterOnQuietTargets
    <3> QED
      BY <3>1, <3>2
  <2>3. t \in quietOff' => state # "active"
    BY <2>1 DEF NoWriterOnQuietTargets
  <2>4. quietOff' \subseteq Targets
    BY <1>0, <1>4, <2>1 DEF StoreTypes
  <2>5. OffStaysOff'
    BY <2>1, <2>3, <2>4 DEF OffStaysOff
  <2> QED
    BY <2>2, <2>5
<1>7. ASSUME NEW a \in Editors, DropEdit(a)
      PROVE  NoWriterOnQuietTargets' /\ OffStaysOff'
  <2>1. /\ UNCHANGED <<at, row, target, quietOff>>
        /\ put'[a] = None /\ \A b \in Editors : b # a => put'[b] = put[b]
    BY <1>0, <1>7 DEF StoreTypes, DropEdit
  <2> QED
    BY <2>1 DEF NoWriterOnQuietTargets, OffStaysOff
<1>8. ASSUME NEW t \in Targets, DeleteTarget(t)
      PROVE  NoWriterOnQuietTargets' /\ OffStaysOff'
  <2>1. /\ UNCHANGED <<at, row, put>>
        /\ \A q \in Targets : target'[q] = IF q = t THEN "absent" ELSE target[q]
        /\ quietOff' \subseteq quietOff \cup {t}
        /\ t \in quietOff' => t \in quietOff \/ Quiet(t, None)
    BY <1>0, <1>8 DEF StoreTypes, DeleteTarget
  <2>2. NoWriterOnQuietTargets'
    <3>1. CASE t \in quietOff' /\ t \notin quietOff
      <4>1. \A b \in Editors : put[b] # None => put[b][1] # t
        BY <2>1, <3>1, OutboxAssumption DEF Quiet
      <4> QED
        BY <1>3, <2>1, <3>1, <4>1 DEF Quiet, NoWriterOnQuietTargets
    <3>2. CASE ~ (t \in quietOff' /\ t \notin quietOff)
      BY <2>1, <3>2 DEF NoWriterOnQuietTargets
    <3> QED
      BY <3>1, <3>2
  <2>3. OffStaysOff'
    BY <1>0, <2>1 DEF StoreTypes, OffStaysOff
  <2> QED
    BY <2>2, <2>3
<1> QED
  BY <1>1, <1>2, <1>5, <1>6, <1>7, <1>8, NextCases DEF Surroundings, Administer

-----------------------------------------------------------------------------

\* A row no claim on which was taken over has at most one pass on it, which
\* holds its claim until it has marked the row.
ClaimsAreTight ==
    \A r \in Rows : log[r].reclaims = 0 =>
        \A d \in Dispatchers : row[d] = r =>
            /\ \A e \in Dispatchers : row[e] = r => e = d
            /\ \/ rows[r].status = "claimed"
               \/ at[d] = "success" /\ rows[r].status \in {"delivered", "purged"}

LEMMA ClaimsStayTight ==
    ASSUME TypeOK, ClaimsAreTight, Next
    PROVE  ClaimsAreTight'
<1>0. StoreTypes /\ PassTypes /\ PassHolds
  BY TypeParts
<1> DEFINE Tight(r) == log[r].reclaims = 0 =>
             \A d \in Dispatchers : row[d] = r =>
                 /\ \A e \in Dispatchers : row[e] = r => e = d
                 /\ \/ rows[r].status = "claimed"
                    \/ at[d] = "success" /\ rows[r].status \in {"delivered", "purged"}
<1>1. ASSUME NEW r \in Rows, log'[r].reclaims = log[r].reclaims,
             rows'[r].status = rows[r].status,
             \A e \in Dispatchers : \/ row'[e] = row[e] /\ (at'[e] = at[e] \/ at[e] # "success")
                                    \/ row'[e] = None
      PROVE  Tight(r)'
  <2> SUFFICES ASSUME log'[r].reclaims = 0, NEW d \in Dispatchers, row'[d] = r
               PROVE  /\ \A e \in Dispatchers : row'[e] = r => e = d
                      /\ \/ rows'[r].status = "claimed"
                         \/ at'[d] = "success" /\ rows'[r].status \in {"delivered", "purged"}
    OBVIOUS
  <2>1. \A e \in Dispatchers : row'[e] = r => row[e] = r /\ (at'[e] = at[e] \/ at[e] # "success")
    BY <1>1, RowFacts
  <2>2. /\ \A e \in Dispatchers : row[e] = r => e = d
        /\ \/ rows[r].status = "claimed"
           \/ at[d] = "success" /\ rows[r].status \in {"delivered", "purged"}
    BY <1>1, <2>1 DEF ClaimsAreTight
  <2> QED
    BY <1>1, <2>1, <2>2
<1>2. ASSUME NEW d \in Dispatchers, NEW r \in Rows, Claim(d, r)
      PROVE  \A q \in Rows : Tight(q)'
  <2>1. /\ rows'[r].status = "claimed" /\ rows[r].status \in {"pending", "claimed"}
        /\ \A q \in Rows : q # r => rows'[q].status = rows[q].status
    BY <1>0, <1>2 DEF StoreTypes, Entries, Claim, Claimable
  <2>2. /\ \A q \in Rows : q # r => log'[q].reclaims = log[q].reclaims
        /\ rows[r].status = "pending" => log'[r].reclaims = log[r].reclaims
        /\ rows[r].status = "claimed" => log'[r].reclaims # 0
    BY <1>0, <1>2 DEF StoreTypes, Histories, Claim
  <2>3. row'[d] = r /\ row[d] = None /\ \A e \in Dispatchers : e # d => row'[e] = row[e] /\ at'[e] = at[e]
    BY <1>0, <1>2 DEF PassTypes, PassHolds, Claim, Goto
  <2>4. \A q \in Rows : q # r => Tight(q)'
    BY <2>1, <2>2, <2>3, RowFacts DEF ClaimsAreTight
  <2>5. Tight(r)'
    BY <2>1, <2>2, <2>3, RowFacts DEF ClaimsAreTight
  <2> QED
    BY <2>4, <2>5
<1>3. ASSUME NEW d \in Dispatchers,
             \/ Match(d) \/ (\E t \in Targets : LookUp(d, t)) \/ LoadTarget(d)
             \/ MarkAttempt(d) \/ Send(d) \/ MarkFailure(d)
      PROVE  \A q \in Rows : Tight(q)'
  <2>1. /\ UNCHANGED <<rows, row>>
        /\ \A e \in Dispatchers : at'[e] = at[e] \/ at[e] # "success"
    BY <1>0, <1>3 DEF PassTypes, Match, LookUp, LoadTarget, MarkAttempt, Send, MarkFailure, Goto
  <2>2. \A q \in Rows : log'[q].reclaims = log[q].reclaims
    <3>1. CASE Send(d)
      <4>1. row[d] \in Rows
        BY <1>0, <3>1, RowFacts DEF PassHolds, Send
      <4> QED
        BY <1>0, <3>1, <4>1, SendEffect
    <3>2. CASE UNCHANGED log
      BY <3>2
    <3> QED
      BY <1>3, <3>1, <3>2 DEF Match, LookUp, LoadTarget, MarkAttempt, MarkFailure
  <2> QED
    BY <1>1, <2>1, <2>2
<1>4. ASSUME NEW d \in Dispatchers, Insert(d)
      PROVE  \A q \in Rows : Tight(q)'
  <2>1. PICK r \in Deliveries : rows[r].status = "absent" /\ rows' = [rows EXCEPT ![r] = NewEntry]
    BY <1>4 DEF Insert, Fresh
  <2>2. /\ UNCHANGED <<log, row>>
        /\ \A e \in Dispatchers : at'[e] = at[e] \/ at[e] # "success"
    BY <1>0, <1>4 DEF PassTypes, Insert, Goto
  <2>3. \A q \in Rows : q # r => rows'[q] = rows[q]
    BY <1>0, <2>1, RowFacts DEF StoreTypes
  <2>4. \A q \in Rows : q # r => Tight(q)'
    BY <1>1, <2>2, <2>3
  <2>5. Tight(r)'
    BY <2>1, <2>2, RowFacts DEF ClaimsAreTight
  <2> QED
    BY <2>4, <2>5
<1>5. ASSUME NEW d \in Dispatchers,
             ClosePublication(d) \/ Skip(d) \/ MarkSuccess(d) \/ ScheduleRetry(d) \/ Crash(d)
      PROVE  \A q \in Rows : Tight(q)'
  <2>1. PICK r \in Rows : r = row[d]
    BY <1>0, <1>5, RowFacts DEF PassHolds, PassTypes, ClosePublication, Skip, MarkSuccess,
                                ScheduleRetry, Crash
  <2>2. Release(d)
    BY <1>5 DEF ClosePublication, Skip, MarkSuccess, ScheduleRetry, Crash
  <2>3. row'[d] = None /\ \A e \in Dispatchers : e # d => row'[e] = row[e] /\ at'[e] = at[e]
    BY <1>0, <2>2, ReleaseEffect DEF PassHolds
  <2>4. \A q \in Rows : log'[q].reclaims = log[q].reclaims
    BY <1>0, <1>5, <2>1 DEF StoreTypes, Histories, ClosePublication, Skip, MarkSuccess,
                            ScheduleRetry, Crash
  <2>5. \A q \in Rows : q # r => rows'[q] = rows[q]
    <3>1. CASE ClosePublication(d)
      BY <1>0, <2>1, <3>1, RowFacts, MarkedEntries, MarkEffect DEF PassHolds, ClosePublication
    <3>2. CASE Skip(d)
      BY <1>0, <2>1, <3>2, MarkedEntries, MarkEffect DEF Skip
    <3>3. CASE ScheduleRetry(d)
      BY <1>0, <2>1, <3>3, MarkedEntries, MarkEffect DEF ScheduleRetry
    <3>4. CASE MarkSuccess(d) \/ Crash(d)
      BY <3>4 DEF MarkSuccess, Crash
    <3> QED
      BY <1>5, <3>1, <3>2, <3>3, <3>4
  <2>6. \A q \in Rows : q # r => Tight(q)'
    BY <1>1, <2>3, <2>4, <2>5
  <2>7. Tight(r)'
    <3>1. log[r].reclaims = 0 => \A e \in Dispatchers : e # d => row[e] # r
      BY <2>1 DEF ClaimsAreTight
    <3> QED
      BY <2>3, <2>4, <3>1, RowFacts
  <2> QED
    BY <2>6, <2>7
<1>6. ASSUME NEW d \in Dispatchers, MarkDelivered(d)
      PROVE  \A q \in Rows : Tight(q)'
  <2>1. PICK r \in Rows : r = row[d]
    BY <1>0, <1>6, RowFacts DEF PassHolds, MarkDelivered
  <2>2. /\ \A q \in Rows : q # r => rows'[q] = rows[q]
        /\ rows'[r].status = IF Exists(r) THEN "delivered" ELSE rows[r].status
    BY <1>0, <1>6, <2>1, MarkedEntries, MarkEffect DEF MarkDelivered
  <2>3. /\ UNCHANGED <<row, log>> /\ at[d] = "sent" /\ at'[d] = "success"
        /\ \A e \in Dispatchers : e # d => at'[e] = at[e]
    BY <1>0, <1>6 DEF PassTypes, MarkDelivered, Goto
  <2>4. \A q \in Rows : q # r => Tight(q)'
    BY <1>1, <2>2, <2>3
  <2>5. Tight(r)'
    BY <2>1, <2>2, <2>3 DEF ClaimsAreTight, Exists
  <2> QED
    BY <2>4, <2>5
<1>7. CASE Surroundings
  <2>1. UNCHANGED <<at, row, log>>
    BY <1>7, PassesUntouched
  <2>2. \A q \in Rows : \/ rows'[q].status = rows[q].status
                        \/ rows[q].status = "delivered" /\ rows'[q].status = "purged"
    BY <1>0, <1>7 DEF StoreTypes, Entries, Surroundings, ClaimExpires, ClaimOverruns,
                      BackoffPasses, Purge, Administer,
                      LoadForEdit, SaveEdit, DropEdit, DeleteTarget
  <2> QED
    BY <2>1, <2>2 DEF ClaimsAreTight
<1>8. ASSUME \A q \in Rows : Tight(q)' PROVE ClaimsAreTight'
  BY <1>8 DEF ClaimsAreTight
<1> QED
  BY <1>2, <1>3, <1>4, <1>5, <1>6, <1>7, <1>8, NextCases DEF DispatcherStep

-----------------------------------------------------------------------------

\* The inductive invariant of the outbox.
OutboxInv ==
    /\ TypeOK /\ MarksAreBacked /\ SettledIsJustified
    /\ PlanIsCovered /\ FanOutIsComplete
    /\ FanOutsAlone /\ OneRowPerTarget
    /\ NoWriterOnQuietTargets /\ OffStaysOff
    /\ ClaimsAreTight

LEMMA InitOutbox == Init => OutboxInv
<1> SUFFICES ASSUME Init PROVE OutboxInv
  OBVIOUS
<1>1. TypeOK
  BY InitTypes
<1>2. \A d \in Dispatchers : at[d] = "idle" /\ row[d] = None
  BY DEF Init
<1>3. \A r \in Rows : rows[r].status = IF r = Pub THEN "pending" ELSE "absent"
  BY DEF Init, NewEntry, Unused
<1>4. MarksAreBacked /\ PlanIsCovered /\ NoWriterOnQuietTargets /\ ClaimsAreTight
  BY <1>2, RowFacts DEF Init, MarksAreBacked, PlanIsCovered, NoWriterOnQuietTargets, Writers, ClaimsAreTight
<1>5. SettledIsJustified /\ OneRowPerTarget
  BY <1>3, RowFacts DEF SettledIsJustified, OneRowPerTarget, Exists
<1>6. FanOutIsComplete /\ OffStaysOff
  BY DEF Init, FanOutIsComplete, OffStaysOff
<1>7. FanOutsAlone
  BY <1>2, RowFacts DEF FanOutsAlone
<1> QED
  BY <1>1, <1>4, <1>5, <1>6, <1>7 DEF OutboxInv

\* In every reachable state what passes are about to write is backed by what
\* happened, fan-outs cover their plan, and claims that were not taken over
\* are exclusive.
THEOREM OutboxInvariance == Spec => []OutboxInv
<1>1. OutboxInv /\ [Next]_vars => OutboxInv'
  <2> SUFFICES ASSUME OutboxInv, [Next]_vars PROVE OutboxInv'
    OBVIOUS
  <2>1. CASE Next
    BY <2>1, NextTypes, MarksStayBacked, SettlementsStayJustified, FanOutStaysComplete,
       RowsStayUnique, QuietTargetsStayOff, ClaimsStayTight DEF OutboxInv
  <2>2. CASE UNCHANGED vars
    <3>1. TypeOK'
      BY <2>2, NextTypes DEF OutboxInv
    <3>2. MarksAreBacked' /\ SettledIsJustified'
      BY <2>2 DEF OutboxInv, vars, MarksAreBacked, SettledIsJustified
    <3>3. PlanIsCovered' /\ FanOutIsComplete'
      BY <2>2 DEF OutboxInv, vars, PlanIsCovered, FanOutIsComplete, HasRow
    <3>4. FanOutsAlone' /\ OneRowPerTarget'
      BY <2>2 DEF OutboxInv, vars, FanOutsAlone, OneRowPerTarget, Enqueued, Exists
    <3>5. NoWriterOnQuietTargets' /\ OffStaysOff' /\ ClaimsAreTight'
      BY <2>2 DEF OutboxInv, vars, NoWriterOnQuietTargets, OffStaysOff, ClaimsAreTight
    <3> QED
      BY <3>1, <3>2, <3>3, <3>4, <3>5 DEF OutboxInv
  <2> QED
    BY <2>1, <2>2
<1> QED
  BY InitOutbox, <1>1, PTL DEF Spec

\* The outbox, the targets and the passes keep their types, and a pass at work
\* holds a row of its topic, whatever dies or overruns.
THEOREM OutboxTypes == Spec => []TypeOK
BY OutboxInvariance, PTL DEF OutboxInv

\* A delivery reads as delivered or failed only if that is what happened to it,
\* however many passes with stale claims mark it.
THEOREM SettlementsJustified == Spec => []SettledIsJustified
BY OutboxInvariance, PTL DEF OutboxInv

\* A closed publication has a delivery row for every target it was matched with,
\* and without two live fan-outs at once no target has two.
THEOREM FanOutsExact == Spec => []FanOutIsExact
<1>1. OutboxInv => FanOutIsExact
  BY DEF OutboxInv, FanOutIsExact
<1> QED
  BY <1>1, OutboxInvariance, PTL

\* A target switched off or deleted while no delivery and no PUT held it stays off
\* until an administrator asks to switch it on, for any number of either.
THEOREM TargetsStayOff == Spec => []OffStaysOff
BY OutboxInvariance, PTL DEF OutboxInv

\* A settled row none of whose claims was taken over is never opened again.
THEOREM SettlementsFinal == Spec => SettledIsFinal
<1> DEFINE Step == \A r \in Rows :
             rows[r].status \in {"delivered", "failed"} /\ rows'[r].status \in {"pending", "claimed"}
                => log[r].reclaims > 0
<1>1. OutboxInv /\ [Next]_vars => [Step]_vars
  <2> SUFFICES ASSUME OutboxInv, Next, NEW r \in Rows,
                      rows[r].status \in {"delivered", "failed"},
                      rows'[r].status \in {"pending", "claimed"}
               PROVE  log[r].reclaims > 0
    OBVIOUS
  <2>0. StoreTypes /\ PassTypes /\ PassHolds
    BY TypeParts DEF OutboxInv
  <2>1. log[r].reclaims \in Nat
    BY <2>0 DEF StoreTypes, Histories
  <2>2. ASSUME NEW d \in Dispatchers, ScheduleRetry(d)
        PROVE  row[d] = r /\ at[d] # "success"
    <3>1. row[d] \in Rows
      BY <2>0, <2>2, RowFacts DEF PassHolds, ScheduleRetry
    <3>2. \A q \in Rows : q # row[d] => rows'[q] = rows[q]
      BY <2>0, <2>2, <3>1, MarkedEntries, MarkEffect DEF ScheduleRetry
    <3> QED
      BY <2>2, <3>2 DEF ScheduleRetry
  <2>3. ASSUME NEW d \in Dispatchers, ~ ScheduleRetry(d), DispatcherStep(d) \/ Crash(d)
        PROVE  FALSE
    <3>1. ASSUME NEW q \in Rows, Mark(q, Delivered(q)) PROVE FALSE
      BY <2>0, <3>1, MarkedEntries, MarkEffect
    <3>2. ASSUME NEW q \in Rows, Claim(d, q) PROVE FALSE
      BY <2>0, <3>2 DEF StoreTypes, Entries, Claim, Claimable
    <3>3. CASE Insert(d)
      BY <2>0, <3>3, RowFacts DEF StoreTypes, Insert, Fresh
    <3>4. CASE ClosePublication(d)
      BY <3>1, <3>4, RowFacts DEF ClosePublication
    <3>5. CASE Skip(d) \/ MarkDelivered(d)
      <4>1. row[d] \in Rows
        BY <2>0, <3>5, RowFacts DEF PassHolds, Skip, MarkDelivered
      <4> QED
        BY <3>1, <3>5, <4>1 DEF Skip, MarkDelivered
    <3>6. CASE UNCHANGED rows
      BY <3>6
    <3> QED
      BY <2>3, <3>2, <3>3, <3>4, <3>5, <3>6
         DEF DispatcherStep, Match, LookUp, LoadTarget, MarkAttempt, Send, MarkSuccess,
             MarkFailure, Crash
  <2>4. ASSUME Surroundings PROVE FALSE
    BY <2>0, <2>4 DEF StoreTypes, Entries, Surroundings, ClaimExpires, ClaimOverruns,
                      BackoffPasses, Purge, Administer,
                      LoadForEdit, SaveEdit, DropEdit, DeleteTarget
  <2>5. PICK d \in Dispatchers : ScheduleRetry(d)
    BY <2>3, <2>4, NextCases
  <2> QED
    BY <2>1, <2>2, <2>5 DEF OutboxInv, ClaimsAreTight
<1> QED
  BY <1>1, OutboxInvariance, PTL DEF Spec, SettledIsFinal

=============================================================================
