-------------------------- MODULE AtlasApplyProofs --------------------------
(***************************************************************************)
(* Proofs about applying Atlas's deltas, for any deltas, contents, turns,  *)
(* apply requests, permissions and faults.                                 *)
(***************************************************************************)
EXTENDS AtlasApply, TLAPS

\* A review under way carries a decision.
Judged(p) == at[p] \in {"reviewed", "marking"} => verdict[p] # "none"

\* An apply past the gate holds only content that was approved.
Authorised(p) ==
    /\ at[p] \in {"writing", "binding", "reverting", "settling"} =>
          Contributions(p, ids[p]) \subseteq decisions
    /\ at[p] \in {"binding", "reverting", "settling"} => ran[p] \subseteq ids[p]

ReviewInv ==
    TypeOK /\ OnlyReviewedApplied /\ \A p \in Actors : Judged(p) /\ Authorised(p)

\* What the draft should hold.
Intended == {c \in confirmed : c[1] \notin Bindings} \cup (IF edited THEN {Edit} ELSE {})

\* The draft as an apply that holds the lock sees it.
SeesDraft(a) ==
    /\ doc[a] = Intended
    /\ at[a] \in {"locked", "gate", "writing", "settling"} => draft = doc[a]
    /\ at[a] \in {"binding", "reverting"} => draft = doc[a] \cup Documents(a)

DraftInv ==
    ~ crossed /\ ~ failed =>
        /\ lock = None => draft = Intended
        /\ at[Editor] # "idle" => lock = None /\ doc[Editor] = draft
        /\ \A a \in Appliers : lock = a => SeesDraft(a)

-----------------------------------------------------------------------------
(* The parts of the type invariant, and how requests move.                 *)

LEMMA ActorFacts ==
    /\ Turns \subseteq Actors /\ Appliers \subseteq Actors /\ Editor \in Actors
    /\ Editor \notin Turns /\ Editor \notin Appliers /\ Turns \cap Appliers = {}
    /\ None \notin Actors
BY AtlasAssumption DEF Actors

Statuses == {"proposed", "approved", "rejected", "applied"}

StoreTypes ==
    /\ deltas \in [Deltas -> Entry] /\ decisions \in SUBSET Contribution
    /\ permissions \in [Permissions -> [status : {"none", "pending", "approved", "closed"},
                                        ids : SUBSET Deltas]]
    /\ draft \in SUBSET (Contribution \cup {Edit}) /\ lock \in Appliers \cup {None}

MemoryTypes ==
    /\ at \in [Actors -> Places] /\ ids \in [Actors -> SUBSET Deltas]
    /\ verdict \in [Actors -> {"none", "approved", "rejected"}]
    /\ copy \in [Actors -> [Deltas -> Entry]]
    /\ doc \in [Actors -> SUBSET (Contribution \cup {Edit})]
    /\ ran \in [Actors -> SUBSET Bindings]

HistoryTypes ==
    /\ used \in 0 .. MaxEvents /\ failed \in BOOLEAN
    /\ done \in SUBSET Contribution /\ confirmed \in SUBSET Contribution
    /\ standing \in SUBSET Deltas
    /\ approvals \in [Deltas -> Nat] /\ provisioned \in [Deltas -> Nat]
    /\ edited \in BOOLEAN /\ stale \in BOOLEAN /\ crossed \in BOOLEAN

LockHeld(p) == at[p] \in UnderLock <=> lock = p

LEMMA Parts ==
    TypeOK <=> StoreTypes /\ MemoryTypes /\ HistoryTypes /\ \A p \in Actors : LockHeld(p)
BY DEF TypeOK, StoreTypes, MemoryTypes, HistoryTypes, LockHeld

\* What p's request has in memory, and that the others' is as it was.
Keeps(q) ==
    /\ at'[q] = at[q] /\ ids'[q] = ids[q] /\ verdict'[q] = verdict[q]
    /\ copy'[q] = copy[q] /\ doc'[q] = doc[q] /\ ran'[q] = ran[q]

OthersKeep(p) == \A q \in Actors \ {p} : Keeps(q)

\* How p's step may change the lock.
LockStep(p) ==
    \/ lock' = lock /\ (at'[p] \in UnderLock <=> at[p] \in UnderLock)
    \/ lock = None /\ lock' = p /\ at'[p] \in UnderLock
    \/ lock' = (IF lock = p THEN None ELSE lock) /\ at'[p] \notin UnderLock

LEMMA StepKeepsInv ==
    ASSUME ReviewInv, NEW p \in Actors, StoreTypes', MemoryTypes', HistoryTypes', OthersKeep(p),
           decisions \subseteq decisions', done' \subseteq decisions',
           LockStep(p), Judged(p)', Authorised(p)'
    PROVE  ReviewInv'
<1>1. \A q \in Actors : LockHeld(q)
  BY Parts DEF ReviewInv
<1>2. \A q \in Actors : LockHeld(q)'
  BY <1>1, ActorFacts DEF LockHeld, LockStep, OthersKeep, Keeps
<1>3. TypeOK'
  BY <1>2, Parts DEF TypeOK, StoreTypes, MemoryTypes, HistoryTypes, LockHeld
<1>4. \A q \in Actors \ {p} : Judged(q)' /\ Authorised(q)'
  <2> SUFFICES ASSUME NEW q \in Actors \ {p} PROVE Judged(q)' /\ Authorised(q)'
    OBVIOUS
  <2>1. Keeps(q) /\ Judged(q) /\ Authorised(q)
    BY DEF OthersKeep, ReviewInv
  <2>2. Contributions(q, ids[q])' = Contributions(q, ids[q])
    BY <2>1 DEF Contributions, Keeps
  <2> QED
    BY <2>1, <2>2 DEF Judged, Authorised, Keeps
<1> QED
  BY <1>3, <1>4 DEF ReviewInv, OnlyReviewedApplied

LEMMA LeaveEffect ==
    ASSUME MemoryTypes, NEW p \in Actors, Leave(p)
    PROVE  MemoryTypes' /\ at'[p] = "idle" /\ OthersKeep(p) /\ Judged(p)' /\ Authorised(p)'
<1>1. at' \in [Actors -> Places] /\ at'[p] = "idle"
  BY DEF Leave, Goto, MemoryTypes, Places
<1>2. /\ ids' \in [Actors -> SUBSET Deltas] /\ verdict' \in [Actors -> {"none", "approved", "rejected"}]
      /\ doc' \in [Actors -> SUBSET (Contribution \cup {Edit})] /\ ran' \in [Actors -> SUBSET Bindings]
  BY DEF Leave, MemoryTypes
<1>3. copy' \in [Actors -> [Deltas -> Entry]]
  BY DEF Leave, MemoryTypes, NoDeltas, Entry
<1>4. OthersKeep(p)
  BY DEF Leave, Goto, OthersKeep, Keeps, MemoryTypes
<1> QED
  BY <1>1, <1>2, <1>3, <1>4 DEF MemoryTypes, Judged, Authorised

LEMMA SetStatusesType ==
    ASSUME StoreTypes, NEW S, NEW status \in Statuses, SetStatuses(S, status)
    PROVE  deltas' \in [Deltas -> Entry]
<1>1. ASSUME NEW d \in Existing(deltas) PROVE [deltas[d] EXCEPT !.status = status] \in Entry
  BY DEF StoreTypes, Existing, Entry, Missing, Statuses
<1> QED
  BY <1>1 DEF SetStatuses, StoreTypes, Existing

LEMMA ProposalType ==
    ASSUME NEW content \in Proposals, NEW d \in DOMAIN content
    PROVE  d \in Deltas /\ Proposed(content, d) \in Entry
<1>1. PICK S \in SUBSET Deltas : content \in [S -> Versions]
  BY AtlasAssumption
<1> QED
  BY <1>1 DEF Proposed, Entry

LEMMA InitInv == Init => ReviewInv
<1> SUFFICES ASSUME Init PROVE ReviewInv
  OBVIOUS
<1>1. StoreTypes
  BY DEF Init, StoreTypes, NoDeltas, Entry
<1>2. MemoryTypes
  BY DEF Init, MemoryTypes, NoDeltas, Entry, Places
<1>3. HistoryTypes
  <2>1. used \in 0 .. MaxEvents
    BY AtlasAssumption DEF Init
  <2>2. approvals \in [Deltas -> Nat] /\ provisioned \in [Deltas -> Nat]
    BY DEF Init
  <2> QED
    BY <2>1, <2>2, Zenon DEF Init, HistoryTypes
<1>4. \A p \in Actors : LockHeld(p) /\ Judged(p) /\ Authorised(p)
  BY ActorFacts DEF Init, LockHeld, UnderLock, Judged, Authorised
<1> QED
  BY <1>1, <1>2, <1>3, <1>4, Parts DEF ReviewInv, OnlyReviewedApplied, Init

-----------------------------------------------------------------------------
(* Each operation preserves the invariant.                                 *)

Quiet == UNCHANGED <<store, history>>

\* A step of p that writes neither table nor history.
LEMMA QuietStep ==
    ASSUME ReviewInv, NEW p \in Actors, Quiet, used' \in 0 .. MaxEvents, failed' \in BOOLEAN,
           MemoryTypes', OthersKeep(p), at[p] \notin UnderLock, at'[p] \notin UnderLock,
           Judged(p)', Authorised(p)'
    PROVE  ReviewInv'
<1>1. StoreTypes' /\ HistoryTypes'
  BY Parts, Zenon DEF ReviewInv, Quiet, store, history, StoreTypes, HistoryTypes
<1> QED
  BY <1>1, StepKeepsInv DEF Quiet, store, history, ReviewInv, OnlyReviewedApplied, LockStep

LEMMA UsedOnce ==
    ASSUME ReviewInv, used < MaxEvents, used' = used + 1
    PROVE  used' \in 0 .. MaxEvents
BY Parts, AtlasAssumption DEF ReviewInv, HistoryTypes

LEMMA GenerateInv ==
    ASSUME ReviewInv, NEW t \in Turns, NEW content \in Proposals, Generate(t, content)
    PROVE  ReviewInv'
<1>1. MemoryTypes /\ HistoryTypes /\ t \in Actors
  BY Parts, ActorFacts DEF ReviewInv
<1>2. copy'[t] \in [Deltas -> Entry]
  BY <1>1, ProposalType DEF Generate, MemoryTypes, Entry
<1>3. MemoryTypes'
  BY <1>1, <1>2 DEF Generate, Goto, MemoryTypes, Places
<1>4. OthersKeep(t) /\ at'[t] \in {"listed", "proposed"}
  BY <1>1 DEF Generate, Goto, MemoryTypes, OthersKeep, Keeps
<1>5. Quiet /\ at[t] = "idle" /\ failed' \in BOOLEAN
  BY <1>1, Zenon DEF Generate, Quiet, HistoryTypes
<1> QED
  BY <1>1, <1>3, <1>4, <1>5, QuietStep, UsedOnce DEF Generate, Judged, Authorised, UnderLock

LEMMA MergedType ==
    ASSUME StoreTypes, NEW new \in [Deltas -> Entry]
    PROVE  Merged(new) \in [Deltas -> Entry]
BY DEF Merged, StoreTypes, Entry

LEMMA LoadStoredInv ==
    ASSUME ReviewInv, NEW t \in Turns, LoadStored(t)
    PROVE  ReviewInv'
<1>1. MemoryTypes /\ HistoryTypes /\ StoreTypes /\ t \in Actors
  BY Parts, ActorFacts DEF ReviewInv
<1>2. Merged(copy[t]) \in [Deltas -> Entry]
  BY <1>1, MergedType DEF MemoryTypes
<1>3. MemoryTypes'
  BY <1>1, <1>2 DEF LoadStored, Goto, MemoryTypes, Places
<1>4. OthersKeep(t) /\ at'[t] \in {"merged", "mergedAgain"}
  BY <1>1 DEF LoadStored, Goto, MemoryTypes, OthersKeep, Keeps
<1>5. Quiet /\ used' \in 0 .. MaxEvents /\ failed' \in BOOLEAN /\ at[t] \in {"proposed", "again"}
  BY <1>1, Zenon DEF LoadStored, Quiet, HistoryTypes
<1> QED
  BY <1>1, <1>3, <1>4, <1>5, QuietStep DEF Judged, Authorised, UnderLock

LEMMA AddDependenciesInv ==
    ASSUME ReviewInv, NEW t \in Turns, NEW content \in Proposals, NEW valid \in SUBSET Deltas,
           AddDependencies(t, content, valid)
    PROVE  ReviewInv'
<1>1. MemoryTypes /\ HistoryTypes /\ StoreTypes /\ t \in Actors
  BY Parts, ActorFacts DEF ReviewInv
<1>2. copy'[t] \in [Deltas -> Entry]
  BY <1>1, ProposalType DEF AddDependencies, MemoryTypes, StoreTypes, Entry
<1>3. MemoryTypes'
  BY <1>1, <1>2 DEF AddDependencies, Goto, MemoryTypes, Places
<1>4. OthersKeep(t) /\ at'[t] = "again"
  BY <1>1 DEF AddDependencies, Goto, MemoryTypes, OthersKeep, Keeps
<1>5. Quiet /\ used' \in 0 .. MaxEvents /\ failed' \in BOOLEAN /\ at[t] = "listed"
  BY <1>1, Zenon DEF AddDependencies, Quiet, HistoryTypes
<1> QED
  BY <1>1, <1>3, <1>4, <1>5, QuietStep DEF Judged, Authorised, UnderLock

LEMMA LoadReviewedInv ==
    ASSUME ReviewInv, NEW t \in Turns, NEW S \in Batches, NEW v \in {"approved", "rejected"},
           LoadReviewed(t, S, v)
    PROVE  ReviewInv'
<1>1. MemoryTypes /\ HistoryTypes /\ StoreTypes /\ t \in Actors /\ S \in SUBSET Deltas
  BY Parts, ActorFacts, AtlasAssumption DEF ReviewInv
<1>2. MemoryTypes'
  BY <1>1 DEF LoadReviewed, Goto, MemoryTypes, StoreTypes, Places
<1>3. OthersKeep(t) /\ at'[t] = "reviewed" /\ verdict'[t] = v
  BY <1>1 DEF LoadReviewed, Goto, MemoryTypes, OthersKeep, Keeps
<1>4. Quiet /\ failed' \in BOOLEAN /\ at[t] = "idle"
  BY <1>1, Zenon DEF LoadReviewed, Quiet, HistoryTypes
<1> QED
  BY <1>1, <1>2, <1>3, <1>4, QuietStep, UsedOnce DEF LoadReviewed, Judged, Authorised, UnderLock

LEMMA StartApplyInv ==
    ASSUME ReviewInv, NEW a \in Appliers, NEW S \in Batches, StartApply(a, S)
    PROVE  ReviewInv'
<1>1. MemoryTypes /\ HistoryTypes /\ a \in Actors /\ S \in SUBSET Deltas
  BY Parts, ActorFacts, AtlasAssumption DEF ReviewInv
<1>2. MemoryTypes'
  BY <1>1 DEF StartApply, Goto, MemoryTypes, Places
<1>3. OthersKeep(a) /\ at'[a] = "finding"
  BY <1>1 DEF StartApply, Goto, MemoryTypes, OthersKeep, Keeps
<1>4. Quiet /\ failed' \in BOOLEAN /\ at[a] = "idle"
  BY <1>1, Zenon DEF StartApply, Quiet, HistoryTypes
<1> QED
  BY <1>1, <1>2, <1>3, <1>4, QuietStep, UsedOnce DEF StartApply, Judged, Authorised, UnderLock

LEMMA QuietLeaveInv ==
    ASSUME ReviewInv, NEW p \in Actors, Leave(p), UNCHANGED <<store, used, failed, history>>,
           at[p] \notin UnderLock
    PROVE  ReviewInv'
<1>1. MemoryTypes /\ HistoryTypes
  BY Parts DEF ReviewInv
<1>2. Quiet /\ used' \in 0 .. MaxEvents /\ failed' \in BOOLEAN
  BY <1>1, Zenon DEF Quiet, HistoryTypes
<1> QED
  BY <1>1, <1>2, LeaveEffect, QuietStep DEF UnderLock

LEMMA FindPermissionInv ==
    ASSUME ReviewInv, NEW a \in Appliers, FindPermission(a)
    PROVE  ReviewInv'
<1>1. MemoryTypes /\ HistoryTypes /\ a \in Actors
  BY Parts, ActorFacts DEF ReviewInv
<1>2. CASE Leave(a)
  BY <1>1, <1>2, QuietLeaveInv DEF FindPermission, UnderLock
<1>3. CASE Goto(a, "permitted") /\ UNCHANGED memory
  <2>1. MemoryTypes' /\ OthersKeep(a) /\ at'[a] = "permitted"
    BY <1>1, <1>3 DEF Goto, memory, MemoryTypes, Places, OthersKeep, Keeps
  <2>2. Quiet /\ used' \in 0 .. MaxEvents /\ failed' \in BOOLEAN /\ at[a] = "finding"
    BY <1>1, Zenon DEF FindPermission, Quiet, HistoryTypes
  <2> QED
    BY <1>1, <2>1, <2>2, QuietStep DEF Judged, Authorised, UnderLock
<1> QED
  BY <1>2, <1>3 DEF FindPermission

LEMMA ReplaceInv ==
    ASSUME ReviewInv, NEW t \in Turns, Replace(t)
    PROVE  ReviewInv'
<1>1. MemoryTypes /\ HistoryTypes /\ StoreTypes /\ t \in Actors
  BY Parts, ActorFacts DEF ReviewInv
<1>2. deltas' \in [Deltas -> Entry]
  BY <1>1 DEF Replace, MemoryTypes
<1>3. StoreTypes'
  BY <1>1, <1>2, Zenon DEF Replace, StoreTypes
<1>4. standing' \in SUBSET Deltas
  BY <1>1 DEF Replace, HistoryTypes
<1>5. HistoryTypes'
  BY <1>1, <1>4, Zenon DEF Replace, HistoryTypes
<1>6. at[t] \in {"merged", "mergedAgain"} /\ lock' = lock /\ decisions' = decisions /\ done' = done
  BY DEF Replace
<1>7. MemoryTypes' /\ OthersKeep(t) /\ at'[t] \in {"listed", "idle"}
  <2>1. CASE at[t] = "mergedAgain"
    BY <1>1, <2>1, LeaveEffect DEF Replace
  <2>2. CASE at[t] = "merged"
    <3>1. NoDeltas \in [Deltas -> Entry]
      BY DEF NoDeltas, Entry
    <3>2. MemoryTypes'
      BY <1>1, <2>2, <3>1 DEF Replace, Goto, MemoryTypes, Places
    <3> QED
      BY <1>1, <2>2, <3>2 DEF Replace, Goto, MemoryTypes, OthersKeep, Keeps
  <2> QED
    BY <1>6, <2>1, <2>2
<1> QED
  BY <1>1, <1>3, <1>5, <1>6, <1>7, StepKeepsInv
  DEF LockStep, Judged, Authorised, UnderLock, ReviewInv, OnlyReviewedApplied

LEMMA SaveDecisionsInv ==
    ASSUME ReviewInv, NEW t \in Turns, SaveDecisions(t)
    PROVE  ReviewInv'
<1>1. MemoryTypes /\ HistoryTypes /\ StoreTypes /\ t \in Actors
  BY Parts, ActorFacts DEF ReviewInv
<1>2. \A d \in ids[t] \cap Existing(copy[t]) : <<d, copy[t][d].content>> \in Contribution
  BY <1>1 DEF MemoryTypes, Existing, Entry, Missing, Contribution
<1>3. decisions' \in SUBSET Contribution /\ decisions \subseteq decisions'
  BY <1>1, <1>2 DEF SaveDecisions, StoreTypes
<1>4. StoreTypes' /\ HistoryTypes'
  BY <1>1, <1>3, Zenon DEF SaveDecisions, StoreTypes, HistoryTypes, history
<1>5. NoDeltas \in [Deltas -> Entry]
  BY DEF NoDeltas, Entry
<1>6. MemoryTypes'
  BY <1>1, <1>5 DEF SaveDecisions, Goto, MemoryTypes, Places
<1>7. OthersKeep(t) /\ at'[t] = "marking" /\ verdict'[t] = verdict[t] /\ at[t] = "reviewed" /\ lock' = lock
  BY <1>1 DEF SaveDecisions, Goto, MemoryTypes, OthersKeep, Keeps
<1>8. done' \subseteq decisions'
  BY <1>3, Zenon DEF SaveDecisions, history, ReviewInv, OnlyReviewedApplied
<1> QED
  BY <1>1, <1>3, <1>4, <1>6, <1>7, <1>8, StepKeepsInv
  DEF LockStep, Judged, Authorised, UnderLock, ReviewInv

LEMMA MarkReviewedInv ==
    ASSUME ReviewInv, NEW t \in Turns, MarkReviewed(t)
    PROVE  ReviewInv'
<1>1. MemoryTypes /\ HistoryTypes /\ StoreTypes /\ t \in Actors /\ Judged(t)
  BY Parts, ActorFacts DEF ReviewInv
<1>2. verdict[t] \in Statuses /\ at[t] = "marking"
  BY <1>1 DEF MarkReviewed, Judged, MemoryTypes, Statuses
<1>3. deltas' \in [Deltas -> Entry]
  BY <1>1, <1>2, SetStatusesType DEF MarkReviewed
<1>4. StoreTypes'
  BY <1>1, <1>3, Zenon DEF MarkReviewed, StoreTypes
<1>5. standing' \in SUBSET Deltas /\ approvals' \in [Deltas -> Nat]
  BY <1>1 DEF MarkReviewed, HistoryTypes, MemoryTypes
<1>6. stale' \in BOOLEAN
  BY <1>1 DEF MarkReviewed, SetStatuses, HistoryTypes
<1>7. HistoryTypes'
  BY <1>1, <1>5, <1>6, Zenon DEF MarkReviewed, HistoryTypes
<1>8. Leave(t) /\ lock' = lock /\ decisions' = decisions /\ done' = done
  BY DEF MarkReviewed
<1> QED
  BY <1>1, <1>2, <1>4, <1>7, <1>8, LeaveEffect, StepKeepsInv
  DEF LockStep, UnderLock, ReviewInv, OnlyReviewedApplied

\* A step that only touches the permission table.
LEMMA PermissionInv ==
    ASSUME ReviewInv,
           permissions' \in [Permissions -> [status : {"none", "pending", "approved", "closed"},
                                             ids : SUBSET Deltas]],
           UNCHANGED <<deltas, decisions, draft, lock, at, memory, used, failed, history>>
    PROVE  ReviewInv'
<1>1. MemoryTypes /\ HistoryTypes /\ StoreTypes /\ Editor \in Actors
  BY Parts, ActorFacts DEF ReviewInv
<1>2. StoreTypes' /\ HistoryTypes' /\ MemoryTypes'
  BY <1>1, Zenon DEF StoreTypes, HistoryTypes, MemoryTypes, history, memory
<1>3. OthersKeep(Editor) /\ LockStep(Editor) /\ decisions' = decisions /\ done' = done
  BY DEF OthersKeep, Keeps, LockStep, memory, history
<1>4. Judged(Editor)' /\ Authorised(Editor)'
  <2>1. Judged(Editor) /\ Authorised(Editor)
    BY <1>1 DEF ReviewInv
  <2>2. Contributions(Editor, ids[Editor])' = Contributions(Editor, ids[Editor])
    BY DEF Contributions, memory
  <2> QED
    BY <2>1, <2>2 DEF Judged, Authorised, memory
<1> QED
  BY <1>1, <1>2, <1>3, <1>4, StepKeepsInv DEF ReviewInv, OnlyReviewedApplied

LEMMA PermissionsInv ==
    ASSUME ReviewInv, NEW p \in Permissions,
           \/ \E S \in Batches : AskPermission(p, S)
           \/ \E approved \in BOOLEAN : DecidePermission(p, approved)
           \/ PermissionExpires(p)
    PROVE  ReviewInv'
<1>1. StoreTypes
  BY Parts DEF ReviewInv
<1>2. CASE \E S \in Batches : AskPermission(p, S)
  BY <1>1, <1>2, AtlasAssumption, PermissionInv DEF AskPermission, StoreTypes
<1>3. CASE \E approved \in BOOLEAN : DecidePermission(p, approved)
  BY <1>1, <1>3, PermissionInv DEF DecidePermission, StoreTypes, Closed
<1>4. CASE PermissionExpires(p)
  BY <1>1, <1>4, PermissionInv DEF PermissionExpires, StoreTypes, Closed
<1> QED
  BY <1>2, <1>3, <1>4

LEMMA LockAndLoadInv ==
    ASSUME ReviewInv, NEW a \in Appliers, LockAndLoad(a)
    PROVE  ReviewInv'
<1>1. MemoryTypes /\ HistoryTypes /\ StoreTypes /\ a \in Actors
  BY Parts, ActorFacts DEF ReviewInv
<1>2. lock' \in Appliers \cup {None} /\ crossed' \in BOOLEAN
  BY <1>1 DEF LockAndLoad, HistoryTypes
<1>3. StoreTypes' /\ HistoryTypes'
  BY <1>1, <1>2, Zenon DEF LockAndLoad, StoreTypes, HistoryTypes
<1>4. MemoryTypes'
  BY <1>1 DEF LockAndLoad, Goto, MemoryTypes, StoreTypes, Places
<1>5. OthersKeep(a) /\ at'[a] = "locked" /\ LockStep(a) /\ decisions' = decisions /\ done' = done
  BY <1>1 DEF LockAndLoad, Goto, MemoryTypes, OthersKeep, Keeps, LockStep, UnderLock
<1> QED
  BY <1>1, <1>3, <1>4, <1>5, StepKeepsInv DEF Judged, Authorised, ReviewInv, OnlyReviewedApplied

LEMMA LoadDeltasInv ==
    ASSUME ReviewInv, NEW a \in Appliers, LoadDeltas(a)
    PROVE  ReviewInv'
<1>1. MemoryTypes /\ HistoryTypes /\ StoreTypes /\ a \in Actors
  BY Parts, ActorFacts DEF ReviewInv
<1>2. StoreTypes' /\ HistoryTypes' /\ lock' = lock /\ decisions' = decisions /\ done' = done
  BY <1>1, Zenon DEF LoadDeltas, store, history, StoreTypes, HistoryTypes
<1>3. MemoryTypes'
  BY <1>1 DEF LoadDeltas, Goto, MemoryTypes, StoreTypes, Places
<1>4. OthersKeep(a) /\ at'[a] = "gate" /\ at[a] = "locked"
  BY <1>1 DEF LoadDeltas, Goto, MemoryTypes, OthersKeep, Keeps
<1> QED
  BY <1>1, <1>2, <1>3, <1>4, StepKeepsInv
  DEF LockStep, UnderLock, Judged, Authorised, ReviewInv, OnlyReviewedApplied

\* p's request ends and gives the lock up.
LEMMA UnlockInv ==
    ASSUME ReviewInv, NEW p \in Actors, Unlock(p), deltas' \in [Deltas -> Entry],
           HistoryTypes', done' = done, UNCHANGED <<decisions, permissions, draft>>
    PROVE  ReviewInv'
<1>1. MemoryTypes /\ StoreTypes
  BY Parts DEF ReviewInv
<1>2. lock' \in Appliers \cup {None} /\ lock' = IF lock = p THEN None ELSE lock
  BY <1>1 DEF Unlock, StoreTypes
<1>3. StoreTypes'
  BY <1>1, <1>2, Zenon DEF StoreTypes
<1> QED
  BY <1>1, <1>2, <1>3, LeaveEffect, StepKeepsInv
  DEF Unlock, LockStep, UnderLock, ReviewInv, OnlyReviewedApplied

LEMMA NothingToDoInv ==
    ASSUME ReviewInv, NEW a \in Appliers, NothingToDo(a)
    PROVE  ReviewInv'
<1>1. HistoryTypes /\ StoreTypes /\ a \in Actors
  BY Parts, ActorFacts DEF ReviewInv
<1>2. HistoryTypes' /\ done' = done /\ deltas' \in [Deltas -> Entry]
  BY <1>1, Zenon DEF NothingToDo, history, HistoryTypes, StoreTypes
<1> QED
  BY <1>1, <1>2, UnlockInv DEF NothingToDo

LEMMA CrashInv ==
    ASSUME ReviewInv, NEW p \in Actors, Crash(p)
    PROVE  ReviewInv'
<1>1. HistoryTypes /\ StoreTypes
  BY Parts DEF ReviewInv
<1>2. used' \in 0 .. MaxEvents /\ failed' \in BOOLEAN
  BY UsedOnce DEF Crash
<1>3. HistoryTypes' /\ done' = done /\ deltas' \in [Deltas -> Entry]
  BY <1>1, <1>2, Zenon DEF Crash, history, HistoryTypes, StoreTypes
<1> QED
  BY <1>3, UnlockInv DEF Crash

LEMMA PassGateInv ==
    ASSUME ReviewInv, NEW a \in Appliers, PassGate(a)
    PROVE  ReviewInv'
<1>1. MemoryTypes /\ HistoryTypes /\ StoreTypes /\ a \in Actors
  BY Parts, ActorFacts DEF ReviewInv
<1>2. HistoryTypes' /\ done' = done /\ deltas' \in [Deltas -> Entry]
  BY <1>1, Zenon DEF PassGate, history, HistoryTypes, StoreTypes
<1>3. CASE Unlock(a)
  BY <1>1, <1>2, <1>3, UnlockInv DEF PassGate
<1>4. CASE Cleared(a) /\ Goto(a, "writing") /\ UNCHANGED <<lock, memory>>
  <2>1. StoreTypes'
    BY <1>1, <1>4, Zenon DEF PassGate, StoreTypes
  <2>2. MemoryTypes' /\ OthersKeep(a) /\ at'[a] = "writing"
    BY <1>1, <1>4 DEF Goto, memory, MemoryTypes, Places, OthersKeep, Keeps
  <2>3. Contributions(a, ids[a])' \subseteq decisions'
    <3>2. Contributions(a, ids[a]) \subseteq decisions
      BY <1>4 DEF Cleared, Contributions
    <3> QED
      BY <1>4, <3>2 DEF PassGate, Contributions, memory
  <2> QED
    BY <1>1, <1>2, <1>4, <2>1, <2>2, <2>3, StepKeepsInv
    DEF PassGate, LockStep, UnderLock, Judged, Authorised, ReviewInv, OnlyReviewedApplied
<1> QED
  BY <1>3, <1>4 DEF PassGate

\* What an apply past the gate contributes is content, and was approved.
LEMMA ContributionFacts ==
    ASSUME ReviewInv, NEW a \in Appliers, at[a] \in {"writing", "binding", "reverting", "settling"},
           NEW S \in SUBSET ids[a]
    PROVE  Contributions(a, S) \subseteq decisions /\ Contributions(a, S) \in SUBSET Contribution
<1>1. Authorised(a) /\ StoreTypes
  BY Parts, ActorFacts DEF ReviewInv
<1> QED
  BY <1>1 DEF Authorised, Contributions, StoreTypes

LEMMA WriteDraftInv ==
    ASSUME ReviewInv, NEW a \in Appliers, WriteDraft(a)
    PROVE  ReviewInv'
<1>1. MemoryTypes /\ HistoryTypes /\ StoreTypes /\ a \in Actors /\ Authorised(a)
  BY Parts, ActorFacts DEF ReviewInv
<1>2. Documents(a) \subseteq decisions /\ Documents(a) \in SUBSET Contribution
  BY ContributionFacts DEF WriteDraft, Documents
<1>3. draft' \in SUBSET (Contribution \cup {Edit}) /\ done' \in SUBSET Contribution
  BY <1>1, <1>2 DEF WriteDraft, MemoryTypes, HistoryTypes
<1>4. StoreTypes' /\ HistoryTypes'
  BY <1>1, <1>3, Zenon DEF WriteDraft, StoreTypes, HistoryTypes
<1>5. /\ MemoryTypes' /\ OthersKeep(a) /\ at'[a] = "binding" /\ at[a] = "writing" /\ lock' = lock
      /\ ran'[a] = {}
  BY <1>1 DEF WriteDraft, Goto, MemoryTypes, Places, OthersKeep, Keeps
<1>6. done' \subseteq decisions' /\ decisions' = decisions
  BY <1>2 DEF WriteDraft, ReviewInv, OnlyReviewedApplied
<1>7. Authorised(a)'
  BY <1>1, <1>5, <1>6 DEF WriteDraft, Authorised, Contributions
<1> QED
  BY <1>1, <1>4, <1>5, <1>6, <1>7, StepKeepsInv DEF LockStep, UnderLock, Judged

LEMMA BindInv ==
    ASSUME ReviewInv, NEW a \in Appliers, NEW d \in Bindings, Bind(a, d)
    PROVE  ReviewInv'
<1>1. MemoryTypes /\ HistoryTypes /\ StoreTypes /\ a \in Actors /\ Authorised(a) /\ d \in Deltas
  BY Parts, ActorFacts, AtlasAssumption DEF ReviewInv
<1>2. /\ Contributions(a, {d}) \subseteq decisions /\ Contributions(a, {d}) \in SUBSET Contribution
      /\ d \in ids[a]
  BY ContributionFacts DEF Bind, Unbound
<1>3. done' \in SUBSET Contribution /\ provisioned' \in [Deltas -> Nat]
  <2>1. done \in SUBSET Contribution /\ provisioned \in [Deltas -> Nat]
    BY <1>1 DEF HistoryTypes
  <2>2. provisioned' = [provisioned EXCEPT ![d] = provisioned[d] + 1]
        /\ done' = done \cup Contributions(a, {d})
    BY DEF Bind
  <2> QED
    BY <1>1, <1>2, <2>1, <2>2
<1>4. StoreTypes' /\ HistoryTypes'
  BY <1>1, <1>3, Zenon DEF Bind, StoreTypes, HistoryTypes, store
<1>5. ran' \in [Actors -> SUBSET Bindings] /\ ran'[a] = ran[a] \cup {d}
      /\ \A q \in Actors \ {a} : ran'[q] = ran[q]
  BY <1>1 DEF Bind, MemoryTypes
<1>6. MemoryTypes'
  BY <1>1, <1>5 DEF Bind, MemoryTypes
<1>7. OthersKeep(a) /\ at'[a] = "binding" /\ at[a] = "binding" /\ lock' = lock
  BY <1>5 DEF Bind, store, OthersKeep, Keeps
<1>8. done' \subseteq decisions' /\ decisions' = decisions
  BY <1>2 DEF Bind, store, ReviewInv, OnlyReviewedApplied
<1>9. Authorised(a)'
  BY <1>1, <1>2, <1>5, <1>7, <1>8 DEF Bind, Authorised, Contributions
<1> QED
  BY <1>1, <1>4, <1>6, <1>7, <1>8, <1>9, StepKeepsInv DEF LockStep, UnderLock, Judged

\* An apply goes on under the lock; only the draft may be written.
LEMMA GoOnInv ==
    ASSUME ReviewInv, NEW a \in Appliers, NEW place \in {"reverting", "settling"},
           at[a] \in {"binding", "reverting"}, Goto(a, place),
           draft' \in SUBSET (Contribution \cup {Edit}), used' \in 0 .. MaxEvents, failed' \in BOOLEAN,
           UNCHANGED <<deltas, decisions, permissions, lock, memory, history>>
    PROVE  ReviewInv'
<1>1. MemoryTypes /\ HistoryTypes /\ StoreTypes /\ a \in Actors /\ Authorised(a)
  BY Parts, ActorFacts DEF ReviewInv
<1>2. StoreTypes' /\ HistoryTypes' /\ done' = done
  BY <1>1, Zenon DEF StoreTypes, HistoryTypes, history
<1>3. MemoryTypes' /\ OthersKeep(a) /\ at'[a] = place
  BY <1>1 DEF Goto, memory, MemoryTypes, Places, OthersKeep, Keeps
<1>4. Authorised(a)'
  BY <1>1, <1>3 DEF memory, Authorised, Contributions
<1> QED
  BY <1>1, <1>2, <1>3, <1>4, StepKeepsInv
  DEF LockStep, UnderLock, Judged, ReviewInv, OnlyReviewedApplied

LEMMA RevertingInv ==
    ASSUME ReviewInv, NEW a \in Appliers, BindRaises(a) \/ Revert(a) \/ RevertRaises(a)
    PROVE  ReviewInv'
<1>1. /\ draft \in SUBSET (Contribution \cup {Edit}) /\ doc[a] \in SUBSET (Contribution \cup {Edit})
      /\ used \in 0 .. MaxEvents /\ failed \in BOOLEAN
  BY Parts, ActorFacts DEF ReviewInv, StoreTypes, MemoryTypes, HistoryTypes
<1>2. CASE BindRaises(a)
  BY <1>1, <1>2, GoOnInv DEF BindRaises, store
<1>3. CASE Revert(a)
  BY <1>1, <1>3, GoOnInv DEF Revert
<1>4. CASE RevertRaises(a)
  BY <1>1, <1>4, UsedOnce, GoOnInv DEF RevertRaises, store
<1> QED
  BY <1>2, <1>3, <1>4

LEMMA MarkExecutedInv ==
    ASSUME ReviewInv, NEW a \in Appliers, MarkExecuted(a)
    PROVE  ReviewInv'
<1>1. HistoryTypes /\ StoreTypes /\ a \in Actors /\ Authorised(a)
  BY Parts, ActorFacts DEF ReviewInv
<1>2. deltas' \in [Deltas -> Entry] /\ stale' \in BOOLEAN
  <2>1. CASE ran[a] = {}
    BY <1>1, <2>1 DEF MarkExecuted, StoreTypes, HistoryTypes
  <2>2. CASE ran[a] # {}
    BY <1>1, <2>2, SetStatusesType DEF MarkExecuted, SetStatuses, Statuses, HistoryTypes
  <2> QED
    BY <2>1, <2>2
<1>3. confirmed' \in SUBSET Contribution
  BY <1>1, ContributionFacts DEF MarkExecuted, HistoryTypes, Authorised
<1>4. HistoryTypes' /\ done' = done
  BY <1>1, <1>2, <1>3, Zenon DEF MarkExecuted, HistoryTypes
<1> QED
  BY <1>1, <1>2, <1>4, UnlockInv DEF MarkExecuted

LEMMA MarkAppliedInv ==
    ASSUME ReviewInv, NEW a \in Appliers, MarkApplied(a)
    PROVE  ReviewInv'
<1>1. HistoryTypes /\ StoreTypes /\ a \in Actors /\ Authorised(a)
  BY Parts, ActorFacts DEF ReviewInv
<1>2. deltas' \in [Deltas -> Entry] /\ stale' \in BOOLEAN
  BY <1>1, SetStatusesType DEF MarkApplied, SetStatuses, Statuses, HistoryTypes
<1>3. confirmed' \in SUBSET Contribution
  BY <1>1, ContributionFacts DEF MarkApplied, HistoryTypes
<1>4. HistoryTypes' /\ done' = done
  BY <1>1, <1>2, <1>3, Zenon DEF MarkApplied, HistoryTypes
<1> QED
  BY <1>1, <1>2, <1>4, UnlockInv DEF MarkApplied

LEMMA OpenDraftInv == ReviewInv /\ OpenDraft => ReviewInv'
<1> SUFFICES ASSUME ReviewInv, OpenDraft PROVE ReviewInv'
  OBVIOUS
<1>1. MemoryTypes /\ HistoryTypes /\ StoreTypes /\ Editor \in Actors
  BY Parts, ActorFacts DEF ReviewInv
<1>2. used' \in 0 .. MaxEvents /\ crossed' \in BOOLEAN
  BY <1>1, UsedOnce DEF OpenDraft, HistoryTypes
<1>3. StoreTypes' /\ HistoryTypes' /\ lock' = lock /\ decisions' = decisions /\ done' = done
  BY <1>1, <1>2, Zenon DEF OpenDraft, store, StoreTypes, HistoryTypes
<1>4. MemoryTypes' /\ OthersKeep(Editor) /\ at'[Editor] = "editing" /\ at[Editor] = "idle"
  BY <1>1 DEF OpenDraft, Goto, MemoryTypes, StoreTypes, Places, OthersKeep, Keeps
<1> QED
  BY <1>1, <1>3, <1>4, StepKeepsInv
  DEF LockStep, UnderLock, Judged, Authorised, ReviewInv, OnlyReviewedApplied

LEMMA SaveDraftInv == ReviewInv /\ SaveDraft => ReviewInv'
<1> SUFFICES ASSUME ReviewInv, SaveDraft PROVE ReviewInv'
  OBVIOUS
<1>1. MemoryTypes /\ HistoryTypes /\ StoreTypes /\ Editor \in Actors
  BY Parts, ActorFacts DEF ReviewInv
<1>2. draft' \in SUBSET (Contribution \cup {Edit}) /\ edited' \in BOOLEAN
  BY <1>1 DEF SaveDraft, MemoryTypes
<1>3. StoreTypes' /\ HistoryTypes' /\ lock' = lock /\ decisions' = decisions /\ done' = done
  BY <1>1, <1>2, Zenon DEF SaveDraft, StoreTypes, HistoryTypes
<1> QED
  BY <1>1, <1>3, LeaveEffect, StepKeepsInv
  DEF SaveDraft, LockStep, UnderLock, ReviewInv, OnlyReviewedApplied

LEMMA NextInv == ReviewInv /\ [Next]_vars => ReviewInv'
<1> SUFFICES ASSUME ReviewInv, [Next]_vars PROVE ReviewInv'
  OBVIOUS
<1>1. ASSUME NEW t \in Turns, ProposalStep(t) PROVE ReviewInv'
  <2>1. CASE NoDependencies(t)
    BY <2>1, ActorFacts, QuietLeaveInv DEF NoDependencies, UnderLock
  <2> QED
    BY <1>1, <2>1, GenerateInv, LoadStoredInv, ReplaceInv, AddDependenciesInv DEF ProposalStep
<1>2. ASSUME NEW t \in Turns, ReviewStep(t) PROVE ReviewInv'
  BY <1>2, LoadReviewedInv, SaveDecisionsInv, MarkReviewedInv DEF ReviewStep
<1>3. ASSUME NEW a \in Appliers, ApplyStep(a) PROVE ReviewInv'
  <2>1. CASE LockTaken(a)
    BY <2>1, ActorFacts, QuietLeaveInv DEF LockTaken, UnderLock
  <2> QED
    BY <1>3, <2>1, FindPermissionInv, LockAndLoadInv, LoadDeltasInv, NothingToDoInv, PassGateInv,
       WriteDraftInv, BindInv, RevertingInv, MarkExecutedInv, MarkAppliedInv DEF ApplyStep
<1>4. CASE UNCHANGED vars
  <2>1. Editor \in Actors /\ permissions' \in [Permissions -> [status : {"none", "pending", "approved", "closed"},
                                                              ids : SUBSET Deltas]]
    BY <1>4, ActorFacts, Parts DEF ReviewInv, StoreTypes, vars
  <2> QED
    BY <1>4, <2>1, PermissionInv DEF vars, memory, history
<1> QED
  BY <1>1, <1>2, <1>3, <1>4, PermissionsInv, StartApplyInv, OpenDraftInv, SaveDraftInv, CrashInv DEF Next

\* The invariant that carries the proofs: types, lock, and that an apply past
\* the gate holds approved content only.
THEOREM ReviewInvariance == Spec => []ReviewInv
BY InitInv, NextInv, PTL DEF Spec

\* The tables and the requests keep their types, and exactly the apply under way holds the lock.
THEOREM AtlasTypes == Spec => []TypeOK
<1>1. ReviewInv => TypeOK
  BY DEF ReviewInv
<1> QED
  BY <1>1, ReviewInvariance, PTL

\* Nothing is applied that was not approved with that content, whatever is
\* proposed anew meanwhile, however many turns and applies there are.
THEOREM OnlyReviewed == Spec => []OnlyReviewedApplied
<1>1. ReviewInv => OnlyReviewedApplied
  BY DEF ReviewInv
<1> QED
  BY <1>1, ReviewInvariance, PTL

-----------------------------------------------------------------------------
(* The draft.                                                              *)

\* A step of a request that neither holds the lock nor edits the draft.
LEMMA BystanderDraft ==
    ASSUME ReviewInv, DraftInv, NEW p \in Actors, p # Editor, at[p] \notin UnderLock, OthersKeep(p),
           UNCHANGED <<draft, lock, confirmed, edited, failed, crossed>>
    PROVE  DraftInv'
<1>1. lock # p /\ at'[Editor] = at[Editor] /\ doc'[Editor] = doc[Editor] /\ Intended' = Intended
  BY ActorFacts, Parts DEF ReviewInv, LockHeld, OthersKeep, Keeps, Intended
<1>2. ASSUME NEW a \in Appliers, lock = a, SeesDraft(a) PROVE SeesDraft(a)'
  <2>1. Keeps(a)
    BY <1>1, <1>2, ActorFacts DEF OthersKeep
  <2>2. Documents(a)' = Documents(a)
    BY <2>1 DEF Documents, Contributions, Keeps
  <2> QED
    BY <1>1, <1>2, <2>1, <2>2 DEF SeesDraft, Keeps
<1> QED
  BY <1>1, <1>2 DEF DraftInv

LEMMA LeaveKeeps ==
    ASSUME MemoryTypes, NEW p \in Actors, Leave(p)
    PROVE  OthersKeep(p)
BY LeaveEffect

LEMMA TurnDraft ==
    ASSUME ReviewInv, DraftInv, NEW t \in Turns, ProposalStep(t) \/ ReviewStep(t)
    PROVE  DraftInv'
<1>1. MemoryTypes /\ t \in Actors /\ t # Editor
  BY Parts, ActorFacts DEF ReviewInv
<1>2. ASSUME NEW content \in Proposals, Generate(t, content) PROVE DraftInv'
  <2>1. OthersKeep(t) /\ at[t] \notin UnderLock
    BY <1>1, <1>2 DEF Generate, Goto, MemoryTypes, OthersKeep, Keeps, UnderLock
  <2> QED
    BY <1>1, <1>2, <2>1, BystanderDraft DEF Generate, store, history
<1>3. CASE LoadStored(t)
  <2>1. OthersKeep(t) /\ at[t] \notin UnderLock
    BY <1>1, <1>3 DEF LoadStored, Goto, MemoryTypes, OthersKeep, Keeps, UnderLock
  <2> QED
    BY <1>1, <1>3, <2>1, BystanderDraft DEF LoadStored, store, history
<1>4. CASE Replace(t)
  <2>1. CASE Leave(t)
    BY <1>1, <1>4, <2>1, LeaveKeeps, BystanderDraft DEF Replace, UnderLock
  <2>2. CASE ~ Leave(t)
    <3>1. OthersKeep(t) /\ at[t] \notin UnderLock
      BY <1>1, <1>4, <2>2 DEF Replace, Goto, MemoryTypes, OthersKeep, Keeps, UnderLock
    <3> QED
      BY <1>1, <1>4, <3>1, BystanderDraft DEF Replace
  <2> QED
    BY <2>1, <2>2
<1>5. ASSUME NEW content \in Proposals, NEW valid \in SUBSET Deltas, AddDependencies(t, content, valid)
      PROVE  DraftInv'
  <2>1. OthersKeep(t) /\ at[t] \notin UnderLock
    BY <1>1, <1>5 DEF AddDependencies, Goto, MemoryTypes, OthersKeep, Keeps, UnderLock
  <2> QED
    BY <1>1, <1>5, <2>1, BystanderDraft DEF AddDependencies, store, history
<1>6. CASE NoDependencies(t)
  BY <1>1, <1>6, LeaveKeeps, BystanderDraft DEF NoDependencies, UnderLock, store, history
<1>7. ASSUME NEW S \in Batches, NEW v \in {"approved", "rejected"}, LoadReviewed(t, S, v) PROVE DraftInv'
  <2>1. OthersKeep(t) /\ at[t] \notin UnderLock
    BY <1>1, <1>7 DEF LoadReviewed, Goto, MemoryTypes, OthersKeep, Keeps, UnderLock
  <2> QED
    BY <1>1, <1>7, <2>1, BystanderDraft DEF LoadReviewed, store, history
<1>8. CASE SaveDecisions(t)
  <2>1. OthersKeep(t) /\ at[t] \notin UnderLock
    BY <1>1, <1>8 DEF SaveDecisions, Goto, MemoryTypes, OthersKeep, Keeps, UnderLock
  <2> QED
    BY <1>1, <1>8, <2>1, BystanderDraft DEF SaveDecisions, history
<1>9. CASE MarkReviewed(t)
  BY <1>1, <1>9, LeaveKeeps, BystanderDraft DEF MarkReviewed, UnderLock
<1> QED
  BY <1>2, <1>3, <1>4, <1>5, <1>6, <1>7, <1>8, <1>9 DEF ProposalStep, ReviewStep

\* A step that changes no request, nor the draft and what it should be.
LEMMA StillDraft ==
    ASSUME DraftInv, UNCHANGED <<draft, lock, confirmed, edited, failed, crossed, at, memory>>
    PROVE  DraftInv'
<1>1. Intended' = Intended /\ \A a \in Appliers : SeesDraft(a)' <=> SeesDraft(a)
  BY DEF Intended, SeesDraft, Documents, Contributions, memory
<1> QED
  BY <1>1 DEF DraftInv, memory

\* The apply that holds the lock sees the draft.
LEMMA UnderWay ==
    ASSUME ReviewInv, DraftInv, NEW a \in Appliers, at[a] \in UnderLock
    PROVE  lock = a /\ (~ crossed /\ ~ failed => at[Editor] = "idle" /\ SeesDraft(a))
<1>1. lock = a /\ lock # None
  BY Parts, ActorFacts DEF ReviewInv, LockHeld
<1> QED
  BY <1>1 DEF DraftInv

LEMMA HolderDraft ==
    ASSUME ReviewInv, DraftInv, NEW a \in Appliers, at[a] \in UnderLock, OthersKeep(a),
           UNCHANGED <<lock, failed, crossed>>,
           ~ crossed /\ ~ failed => SeesDraft(a)'
    PROVE  DraftInv'
<1>1. lock' = a /\ a # None /\ at'[Editor] = at[Editor]
  BY UnderWay, ActorFacts DEF OthersKeep, Keeps
<1> QED
  BY <1>1, UnderWay DEF DraftInv

LEMMA ReleaseDraft ==
    ASSUME ReviewInv, DraftInv, NEW a \in Appliers, at[a] \in UnderLock, Unlock(a),
           UNCHANGED <<failed, crossed>>,
           ~ crossed /\ ~ failed => draft' = Intended'
    PROVE  DraftInv'
<1>1. lock' = None /\ at'[Editor] = at[Editor] /\ \A b \in Appliers : b # None
  BY UnderWay, ActorFacts, LeaveKeeps, Parts DEF ReviewInv, Unlock, OthersKeep, Keeps
<1> QED
  BY <1>1, UnderWay DEF DraftInv

LEMMA ApplyDraft ==
    ASSUME ReviewInv, DraftInv, NEW a \in Appliers, ApplyStep(a)
    PROVE  DraftInv'
<1>1. MemoryTypes /\ a \in Actors /\ a # Editor /\ Authorised(a)
  BY Parts, ActorFacts DEF ReviewInv
<1>2. CASE FindPermission(a)
  <2>1. OthersKeep(a) /\ at[a] \notin UnderLock
    <3>1. CASE Leave(a)
      BY <1>1, <1>2, <3>1, LeaveKeeps DEF FindPermission, UnderLock
    <3>2. CASE ~ Leave(a)
      BY <1>1, <1>2, <3>2 DEF FindPermission, Goto, memory, MemoryTypes, OthersKeep, Keeps, UnderLock
    <3> QED
      BY <3>1, <3>2
  <2> QED
    BY <1>1, <1>2, <2>1, BystanderDraft DEF FindPermission, store, history
<1>3. CASE LockAndLoad(a)
  <2>1. OthersKeep(a) /\ at'[a] = "locked" /\ doc'[a] = draft
    BY <1>1, <1>3 DEF LockAndLoad, Goto, MemoryTypes, OthersKeep, Keeps
  <2>2. at'[Editor] = at[Editor] /\ Intended' = Intended /\ lock' = a /\ lock = None /\ a # None
    BY <1>1, <1>3, <2>1, ActorFacts DEF LockAndLoad, OthersKeep, Keeps, Intended
  <2>3. ~ crossed' /\ ~ failed' => ~ crossed /\ ~ failed /\ at[Editor] = "idle"
    BY <1>3 DEF LockAndLoad
  <2> QED
    BY <1>3, <2>1, <2>2, <2>3 DEF LockAndLoad, DraftInv, SeesDraft
<1>4. CASE LockTaken(a)
  BY <1>1, <1>4, LeaveKeeps, BystanderDraft DEF LockTaken, UnderLock, store, history
<1>5. CASE LoadDeltas(a)
  <2>1. OthersKeep(a) /\ at'[a] = "gate" /\ at[a] = "locked"
    BY <1>1, <1>5 DEF LoadDeltas, Goto, MemoryTypes, OthersKeep, Keeps
  <2>2. ~ crossed /\ ~ failed => SeesDraft(a)'
    BY <1>5, <2>1, UnderWay DEF LoadDeltas, UnderLock, SeesDraft, Intended, store, history
  <2> QED
    BY <1>5, <2>1, <2>2, HolderDraft DEF LoadDeltas, UnderLock, store, history
<1>6. CASE NothingToDo(a)
  <2>1. ~ crossed /\ ~ failed => draft' = Intended'
    BY <1>6, UnderWay DEF NothingToDo, UnderLock, SeesDraft, Intended, history
  <2> QED
    BY <1>6, <2>1, ReleaseDraft DEF NothingToDo, UnderLock, history
<1>7. CASE PassGate(a)
  <2>1. CASE Unlock(a)
    <3>1. ~ crossed /\ ~ failed => draft' = Intended'
      BY <1>7, UnderWay DEF PassGate, UnderLock, SeesDraft, Intended, history
    <3> QED
      BY <1>7, <2>1, <3>1, ReleaseDraft DEF PassGate, UnderLock, history
  <2>2. CASE Goto(a, "writing") /\ UNCHANGED <<lock, memory>>
    <3>1. OthersKeep(a) /\ at'[a] = "writing" /\ at[a] = "gate"
      BY <1>1, <1>7, <2>2 DEF PassGate, Goto, memory, MemoryTypes, OthersKeep, Keeps
    <3>2. ~ crossed /\ ~ failed => SeesDraft(a)'
      BY <1>7, <2>2, <3>1, UnderWay DEF PassGate, UnderLock, SeesDraft, Intended, memory, history
    <3> QED
      BY <1>7, <2>2, <3>1, <3>2, HolderDraft DEF PassGate, UnderLock, history
  <2> QED
    BY <1>7, <2>1, <2>2 DEF PassGate
<1>8. CASE WriteDraft(a)
  <2>1. OthersKeep(a) /\ at'[a] = "binding" /\ at[a] = "writing"
    BY <1>1, <1>8 DEF WriteDraft, Goto, MemoryTypes, OthersKeep, Keeps
  <2>2. Documents(a)' = Documents(a) /\ Intended' = Intended
    BY <1>8 DEF WriteDraft, Documents, Contributions, Intended
  <2>3. ~ crossed /\ ~ failed => SeesDraft(a)'
    BY <1>8, <2>1, <2>2, UnderWay DEF WriteDraft, UnderLock, SeesDraft
  <2> QED
    BY <1>8, <2>1, <2>3, HolderDraft DEF WriteDraft, UnderLock
<1>9. ASSUME NEW d \in Bindings, Bind(a, d) PROVE DraftInv'
  <2>1. OthersKeep(a) /\ at'[a] = at[a] /\ at[a] = "binding"
    BY <1>1, <1>9 DEF Bind, MemoryTypes, OthersKeep, Keeps
  <2>2. Documents(a)' = Documents(a) /\ Intended' = Intended
    BY <1>9 DEF Bind, Documents, Contributions, Intended
  <2>3. ~ crossed /\ ~ failed => SeesDraft(a)'
    BY <1>9, <2>1, <2>2, UnderWay DEF Bind, UnderLock, SeesDraft, store
  <2> QED
    BY <1>9, <2>1, <2>3, HolderDraft DEF Bind, UnderLock, store
<1>10. CASE BindRaises(a)
  <2>1. OthersKeep(a) /\ at'[a] = "reverting" /\ at[a] = "binding"
    BY <1>1, <1>10 DEF BindRaises, Goto, memory, MemoryTypes, OthersKeep, Keeps
  <2>2. Documents(a)' = Documents(a) /\ Intended' = Intended
    BY <1>10 DEF BindRaises, Documents, Contributions, Intended, memory, history
  <2>3. ~ crossed /\ ~ failed => SeesDraft(a)'
    BY <1>10, <2>1, <2>2, UnderWay DEF BindRaises, UnderLock, SeesDraft, store, memory
  <2> QED
    BY <1>10, <2>1, <2>3, HolderDraft DEF BindRaises, UnderLock, store, history
<1>11. CASE Revert(a)
  <2>1. OthersKeep(a) /\ at'[a] = "settling" /\ at[a] = "reverting"
    BY <1>1, <1>11 DEF Revert, Goto, memory, MemoryTypes, OthersKeep, Keeps
  <2>2. Intended' = Intended
    BY <1>11 DEF Revert, Intended, history
  <2>3. ~ crossed /\ ~ failed => SeesDraft(a)'
    BY <1>11, <2>1, <2>2, UnderWay DEF Revert, UnderLock, SeesDraft, memory
  <2> QED
    BY <1>11, <2>1, <2>3, HolderDraft DEF Revert, UnderLock, history
<1>12. CASE RevertRaises(a)
  BY <1>12 DEF RevertRaises, DraftInv
<1>13. CASE MarkExecuted(a)
  <2>1. ran[a] \subseteq Bindings /\ at[a] = "settling"
    BY <1>1, <1>13 DEF MarkExecuted, MemoryTypes
  <2>2. Intended' = Intended
    BY <1>13, <2>1 DEF MarkExecuted, Intended, Contributions
  <2>3. ~ crossed /\ ~ failed => draft' = Intended'
    BY <1>13, <2>1, <2>2, UnderWay DEF MarkExecuted, UnderLock, SeesDraft
  <2> QED
    BY <1>13, <2>1, <2>3, ReleaseDraft DEF MarkExecuted, UnderLock
<1>14. CASE MarkApplied(a)
  <2>1. Intended' = Intended \cup Documents(a) /\ at[a] = "binding"
    BY <1>14 DEF MarkApplied, Intended, Documents, Contributions
  <2>2. ~ crossed /\ ~ failed => draft' = Intended'
    BY <1>14, <2>1, UnderWay DEF MarkApplied, UnderLock, SeesDraft
  <2> QED
    BY <1>14, <2>1, <2>2, ReleaseDraft DEF MarkApplied, UnderLock
<1> QED
  BY <1>2, <1>3, <1>4, <1>5, <1>6, <1>7, <1>8, <1>9, <1>10, <1>11, <1>12, <1>13, <1>14 DEF ApplyStep

LEMMA DraftNext == ReviewInv /\ DraftInv /\ [Next]_vars => DraftInv'
<1> SUFFICES ASSUME ReviewInv, DraftInv, [Next]_vars PROVE DraftInv'
  OBVIOUS
<1>1. MemoryTypes
  BY Parts DEF ReviewInv
<1>2. ASSUME NEW p \in Permissions,
             \/ \E S \in Batches : AskPermission(p, S)
             \/ \E approved \in BOOLEAN : DecidePermission(p, approved)
             \/ PermissionExpires(p)
      PROVE  DraftInv'
  BY <1>2, StillDraft DEF AskPermission, DecidePermission, PermissionExpires, history
<1>3. ASSUME NEW a \in Appliers, NEW S \in Batches, StartApply(a, S) PROVE DraftInv'
  <2>1. OthersKeep(a) /\ at[a] \notin UnderLock /\ a \in Actors /\ a # Editor
    BY <1>1, <1>3, ActorFacts DEF StartApply, Goto, MemoryTypes, OthersKeep, Keeps, UnderLock
  <2> QED
    BY <1>3, <2>1, BystanderDraft DEF StartApply, store, history
<1>4. CASE OpenDraft
  <2>1. OthersKeep(Editor) /\ doc'[Editor] = draft
    BY <1>1, <1>4, ActorFacts DEF OpenDraft, Goto, MemoryTypes, OthersKeep, Keeps
  <2>2. Intended' = Intended /\ \A a \in Appliers : a # None
    BY <1>4, ActorFacts DEF OpenDraft, Intended
  <2> QED
    BY <1>4, <2>1, <2>2 DEF OpenDraft, store, DraftInv
<1>5. CASE SaveDraft
  <2>1. at'[Editor] = "idle" /\ \A a \in Appliers : a # None
    BY <1>1, <1>5, ActorFacts, LeaveEffect DEF SaveDraft
  <2>2. Intended' = Intended \cup {Edit}
    BY <1>5 DEF SaveDraft, Intended
  <2>3. ~ crossed /\ ~ failed => lock = None /\ draft' = Intended'
    BY <1>5, <2>2 DEF SaveDraft, DraftInv
  <2> QED
    BY <1>5, <2>1, <2>3 DEF SaveDraft, DraftInv
<1>6. ASSUME NEW p \in Actors, Crash(p) PROVE DraftInv'
  BY <1>6 DEF Crash, DraftInv
<1>7. CASE UNCHANGED vars
  BY <1>7, StillDraft DEF vars, memory
<1> QED
  BY <1>2, <1>3, <1>4, <1>5, <1>6, <1>7, TurnDraft, ApplyDraft DEF Next

LEMMA DraftInit == Init => DraftInv
BY ActorFacts DEF Init, DraftInv, Intended

\* Between applies the draft is what was edited and what was marked applied,
\* unless an edit overlapped an apply or a request or a revert failed.
THEOREM DraftStaysTrue == Spec => []DraftIsTrue
<1>1. DraftInv => DraftIsTrue
  BY DEF DraftInv, DraftIsTrue, Intended
<1> QED
  BY <1>1, DraftInit, DraftNext, ReviewInvariance, PTL DEF Spec

-----------------------------------------------------------------------------
(* Approvals stand.                                                        *)

\* What a turn's copy of the changes, which will replace the stored ones, says
\* of a delta that stands approved.
CopyHonours(t, d) ==
    /\ at[t] = "merged" => copy[t][d].status \in {"proposed", "approved", "applied"}
    /\ at[t] = "again" => copy[t][d].status \in {"absent", "approved", "applied"}
    /\ at[t] = "mergedAgain" => copy[t][d].status \in {"approved", "applied"}

\* A turn that has not loaded the stored changes holds its own proposals only.
FreshCopy(t) == at[t] = "proposed" => \A d \in Deltas : copy[t][d].status \in {"absent", "proposed"}

StandingInv ==
    /\ \A t \in Turns : FreshCopy(t)
    /\ ~ stale => \A d \in standing : /\ deltas[d].status \in {"approved", "applied"}
                                      /\ \A t \in Turns : CopyHonours(t, d)

\* A step of p leaves the other requests alone.
LEMMA TurnKeeps ==
    ASSUME MemoryTypes, NEW t \in Turns, ProposalStep(t) \/ ReviewStep(t)
    PROVE  OthersKeep(t)
<1>1. t \in Actors
  BY ActorFacts
<1>2. ASSUME Leave(t) PROVE OthersKeep(t)
  BY <1>1, <1>2, LeaveKeeps
<1>3. ASSUME NEW content \in Proposals, Generate(t, content) PROVE OthersKeep(t)
  BY <1>1, <1>3 DEF Generate, Goto, MemoryTypes, OthersKeep, Keeps
<1>4. ASSUME LoadStored(t) PROVE OthersKeep(t)
  BY <1>1, <1>4 DEF LoadStored, Goto, MemoryTypes, OthersKeep, Keeps
<1>5. ASSUME Replace(t) PROVE OthersKeep(t)
  BY <1>1, <1>2, <1>5 DEF Replace, Goto, MemoryTypes, OthersKeep, Keeps
<1>6. ASSUME NEW content \in Proposals, NEW valid \in SUBSET Deltas, AddDependencies(t, content, valid)
      PROVE  OthersKeep(t)
  BY <1>1, <1>6 DEF AddDependencies, Goto, MemoryTypes, OthersKeep, Keeps
<1>7. ASSUME NEW S \in Batches, NEW v \in {"approved", "rejected"}, LoadReviewed(t, S, v)
      PROVE  OthersKeep(t)
  BY <1>1, <1>7 DEF LoadReviewed, Goto, MemoryTypes, OthersKeep, Keeps
<1>8. ASSUME SaveDecisions(t) PROVE OthersKeep(t)
  BY <1>1, <1>8 DEF SaveDecisions, Goto, MemoryTypes, OthersKeep, Keeps
<1>9. ASSUME NoDependencies(t) \/ MarkReviewed(t) PROVE OthersKeep(t)
  BY <1>2, <1>9 DEF NoDependencies, MarkReviewed
<1> QED
  BY <1>3, <1>4, <1>5, <1>6, <1>7, <1>8, <1>9 DEF ProposalStep, ReviewStep

LEMMA ApplyKeeps ==
    ASSUME MemoryTypes, NEW a \in Appliers, ApplyStep(a) \/ \E S \in Batches : StartApply(a, S)
    PROVE  OthersKeep(a)
<1>1. a \in Actors
  BY ActorFacts
<1>2. ASSUME Leave(a) PROVE OthersKeep(a)
  BY <1>1, <1>2, LeaveKeeps
<1>3. ASSUME NEW place, Goto(a, place), UNCHANGED memory PROVE OthersKeep(a)
  BY <1>1, <1>3 DEF Goto, memory, MemoryTypes, OthersKeep, Keeps
<1>4. ASSUME NEW S \in Batches, StartApply(a, S) PROVE OthersKeep(a)
  BY <1>1, <1>4 DEF StartApply, Goto, MemoryTypes, OthersKeep, Keeps
<1>5. ASSUME LockAndLoad(a) PROVE OthersKeep(a)
  BY <1>1, <1>5 DEF LockAndLoad, Goto, MemoryTypes, OthersKeep, Keeps
<1>6. ASSUME LoadDeltas(a) PROVE OthersKeep(a)
  BY <1>1, <1>6 DEF LoadDeltas, Goto, MemoryTypes, OthersKeep, Keeps
<1>7. ASSUME WriteDraft(a) PROVE OthersKeep(a)
  BY <1>1, <1>7 DEF WriteDraft, Goto, MemoryTypes, OthersKeep, Keeps
<1>8. ASSUME NEW d \in Bindings, Bind(a, d) PROVE OthersKeep(a)
  BY <1>1, <1>8 DEF Bind, MemoryTypes, OthersKeep, Keeps
<1>9. ASSUME \/ FindPermission(a) \/ PassGate(a) \/ BindRaises(a) \/ Revert(a) \/ RevertRaises(a)
             \/ LockTaken(a) \/ NothingToDo(a) \/ MarkExecuted(a) \/ MarkApplied(a)
      PROVE  OthersKeep(a)
  BY <1>2, <1>3, <1>9 DEF FindPermission, PassGate, BindRaises, Revert, RevertRaises,
     LockTaken, NothingToDo, MarkExecuted, MarkApplied, Unlock
<1> QED
  BY <1>4, <1>5, <1>6, <1>7, <1>8, <1>9 DEF ApplyStep

\* A step of p: a delta comes to stand only while no other turn is replacing.
LEMMA StandingStep ==
    ASSUME StandingInv, NEW p \in Actors, OthersKeep(p), stale => stale',
           p \in Turns => FreshCopy(p)',
           ~ stale' => \A d \in standing' : /\ deltas'[d].status \in {"approved", "applied"}
                                            /\ p \in Turns => CopyHonours(p, d)',
           ~ stale' => standing' \subseteq standing \/ \A t \in Turns : ~ Replacing(t)
    PROVE  StandingInv'
<1>1. ASSUME NEW t \in Turns PROVE FreshCopy(t)'
  BY <1>1, ActorFacts DEF StandingInv, OthersKeep, Keeps, FreshCopy
<1>2. ASSUME ~ stale', NEW d \in standing', NEW t \in Turns PROVE CopyHonours(t, d)'
  <2>1. CASE t = p
    BY <1>2, <2>1
  <2>2. CASE t # p
    <3>1. Keeps(t)
      BY <2>2, ActorFacts DEF OthersKeep
    <3>2. CopyHonours(t, d) \/ ~ Replacing(t)
      BY <1>2 DEF StandingInv
    <3> QED
      BY <3>1, <3>2 DEF Keeps, CopyHonours, Replacing
  <2> QED
    BY <2>1, <2>2
<1> QED
  BY <1>1, <1>2 DEF StandingInv

\* A step of an apply or of the editor, or a request that ends, which changes
\* statuses to applied only.
LEMMA StandingBystander ==
    ASSUME StandingInv, NEW p \in Actors, OthersKeep(p), p \in Turns => at'[p] = "idle",
           standing' = standing, stale => stale',
           \A d \in standing : deltas'[d].status \in {deltas[d].status, "applied"}
    PROVE  StandingInv'
BY StandingStep DEF StandingInv, FreshCopy, CopyHonours

LEMMA StandingTurn ==
    ASSUME ReviewInv, StandingInv, NEW t \in Turns, ProposalStep(t) \/ ReviewStep(t)
    PROVE  StandingInv'
<1>1. MemoryTypes /\ StoreTypes /\ HistoryTypes /\ t \in Actors
  BY Parts, ActorFacts DEF ReviewInv
<1>2. OthersKeep(t)
  BY <1>1, TurnKeeps
<1>3. ASSUME NEW content \in Proposals, Generate(t, content) PROVE StandingInv'
  <2>1. /\ at'[t] \in {"listed", "proposed"} /\ deltas' = deltas /\ standing' = standing /\ stale' = stale
        /\ copy'[t] = [d \in Deltas |-> IF d \in DOMAIN content THEN Proposed(content, d) ELSE Missing]
    BY <1>1, <1>3 DEF Generate, Goto, MemoryTypes, store, history
  <2>2. FreshCopy(t)' /\ \A d \in standing : CopyHonours(t, d)'
    BY <2>1 DEF FreshCopy, CopyHonours, Proposed, Missing
  <2> QED
    BY <1>1, <1>2, <2>1, <2>2, StandingStep DEF StandingInv
<1>4. CASE LoadStored(t)
  <2>1. /\ deltas' = deltas /\ standing' = standing /\ stale' = stale
        /\ copy'[t] = Merged(copy[t])
        /\ \/ at[t] = "proposed" /\ at'[t] = "merged"
           \/ at[t] = "again" /\ at'[t] = "mergedAgain"
    BY <1>1, <1>4 DEF LoadStored, Goto, MemoryTypes, store, history
  <2>2. \A d \in Deltas : copy'[t][d] = IF copy[t][d].status # "absent" THEN copy[t][d]
                                        ELSE IF deltas[d].status \in {"approved", "applied"} THEN deltas[d]
                                        ELSE Missing
    BY <2>1 DEF Merged, Existing
  <2>3. standing \in SUBSET Deltas
    BY <1>1 DEF HistoryTypes
  <2>4. FreshCopy(t)'
    BY <2>1 DEF FreshCopy
  <2>5. ~ stale => \A d \in standing : CopyHonours(t, d)'
    <3> SUFFICES ASSUME ~ stale, NEW d \in standing PROVE CopyHonours(t, d)'
      OBVIOUS
    <3>1. deltas[d].status \in {"approved", "applied"} /\ CopyHonours(t, d) /\ FreshCopy(t) /\ d \in Deltas
      BY <2>3 DEF StandingInv
    <3> QED
      BY <2>1, <2>2, <3>1 DEF FreshCopy, CopyHonours
  <2> QED
    BY <1>1, <1>2, <2>1, <2>4, <2>5, StandingStep DEF StandingInv
<1>5. CASE Replace(t)
  <2>1. deltas' = copy[t] /\ stale' = stale /\ at'[t] \in {"listed", "idle"}
    BY <1>1, <1>5, LeaveEffect DEF Replace, Goto, MemoryTypes
  <2>2. /\ at[t] \in {"merged", "mergedAgain"} /\ standing \in SUBSET Deltas
        /\ standing' = IF at[t] = "merged"
                       THEN standing \ {d \in Deltas : copy[t][d].status = "proposed"} ELSE standing
    BY <1>1, <1>5 DEF Replace, HistoryTypes
  <2>3. standing' \subseteq standing
    BY <2>2
  <2>4. ~ stale => \A d \in standing' : copy[t][d].status \in {"approved", "applied"}
    BY <2>2 DEF StandingInv, CopyHonours
  <2>5. FreshCopy(t)' /\ \A d \in standing' : CopyHonours(t, d)'
    BY <2>1 DEF FreshCopy, CopyHonours
  <2> QED
    BY <1>1, <1>2, <2>1, <2>3, <2>4, <2>5, StandingStep
<1>6. ASSUME NEW content \in Proposals, NEW valid \in SUBSET Deltas, AddDependencies(t, content, valid)
      PROVE  StandingInv'
  <2>1. /\ at'[t] = "again" /\ deltas' = deltas /\ standing' = standing /\ stale' = stale
        /\ copy'[t] = [d \in Deltas |-> IF d \in DOMAIN content THEN Proposed(content, d)
                                        ELSE IF d \in valid THEN deltas[d] ELSE Missing]
        /\ DOMAIN content \cap Existing(deltas) = {}
    BY <1>1, <1>6 DEF AddDependencies, Goto, MemoryTypes, store, history
  <2>2. FreshCopy(t)'
    BY <2>1 DEF FreshCopy
  <2>3. ~ stale => \A d \in standing : CopyHonours(t, d)'
    <3> SUFFICES ASSUME ~ stale, NEW d \in standing PROVE CopyHonours(t, d)'
      OBVIOUS
    <3>1. deltas[d].status \in {"approved", "applied"} /\ d \in Deltas
      BY <1>1 DEF StandingInv, HistoryTypes
    <3>2. d \notin DOMAIN content
      BY <2>1, <3>1 DEF Existing
    <3> QED
      BY <2>1, <3>1, <3>2 DEF CopyHonours, Missing
  <2> QED
    BY <1>1, <1>2, <2>1, <2>2, <2>3, StandingStep DEF StandingInv
<1>7. CASE NoDependencies(t)
  BY <1>1, <1>2, <1>7, LeaveEffect, StandingBystander DEF NoDependencies, store, history
<1>8. ASSUME NEW S \in Batches, NEW v \in {"approved", "rejected"}, LoadReviewed(t, S, v)
      PROVE  StandingInv'
  <2>1. at'[t] = "reviewed" /\ deltas' = deltas /\ standing' = standing /\ stale' = stale
    BY <1>1, <1>8 DEF LoadReviewed, Goto, MemoryTypes, store, history
  <2> QED
    BY <1>1, <1>2, <2>1, StandingStep DEF StandingInv, FreshCopy, CopyHonours
<1>9. CASE SaveDecisions(t)
  <2>1. at'[t] = "marking" /\ deltas' = deltas /\ standing' = standing /\ stale' = stale
    BY <1>1, <1>9 DEF SaveDecisions, Goto, MemoryTypes, history
  <2> QED
    BY <1>1, <1>2, <2>1, StandingStep DEF StandingInv, FreshCopy, CopyHonours
<1>10. CASE MarkReviewed(t)
  <2> DEFINE S == ids[t] \cap Existing(deltas)
  <2>1. /\ at'[t] = "idle" /\ (stale => stale') /\ (~ stale' => ~ stale /\ \A u \in Turns : ~ Replacing(u))
    BY <1>1, <1>10, LeaveEffect DEF MarkReviewed, SetStatuses
  <2>2. /\ verdict[t] = "approved" => standing' = standing \cup S
        /\ verdict[t] # "approved" => standing' = standing \ S
    BY <1>10 DEF MarkReviewed
  <2>3. standing' \in SUBSET Deltas /\ S \in SUBSET Deltas
    BY <1>1, <2>2 DEF HistoryTypes, Existing
  <2>4. \A d \in Deltas : deltas'[d].status = IF d \in S THEN verdict[t] ELSE deltas[d].status
    <3>1. \A d \in Existing(deltas) : [deltas[d] EXCEPT !.status = verdict[t]].status = verdict[t]
      BY <1>1 DEF StoreTypes, Existing, Entry, Missing
    <3> QED
      BY <1>10, <3>1 DEF MarkReviewed, SetStatuses
  <2>5. ~ stale' => \A d \in standing' : deltas'[d].status \in {"approved", "applied"}
    BY <2>1, <2>2, <2>3, <2>4 DEF StandingInv
  <2>6. FreshCopy(t)' /\ \A d \in standing' : CopyHonours(t, d)'
    BY <2>1 DEF FreshCopy, CopyHonours
  <2> QED
    BY <1>1, <1>2, <2>1, <2>5, <2>6, StandingStep
<1> QED
  BY <1>3, <1>4, <1>5, <1>6, <1>7, <1>8, <1>9, <1>10 DEF ProposalStep, ReviewStep

\* Statuses are set to applied where the delta is still there.
LEMMA AppliedStatuses ==
    ASSUME StoreTypes, NEW S, SetStatuses(S, "applied")
    PROVE  /\ \A d \in Deltas : deltas'[d].status =
                  IF d \in S /\ deltas[d].status # "absent" THEN "applied" ELSE deltas[d].status
           /\ stale => stale'
           /\ ~ stale' => \A t \in Turns : ~ Replacing(t)
<1>1. \A d \in Existing(deltas) : [deltas[d] EXCEPT !.status = "applied"].status = "applied"
  BY DEF StoreTypes, Existing, Entry, Missing
<1> QED
  BY <1>1 DEF SetStatuses, Existing

LEMMA StandingApply ==
    ASSUME ReviewInv, StandingInv, NEW a \in Appliers, ApplyStep(a) \/ \E S \in Batches : StartApply(a, S)
    PROVE  StandingInv'
<1>1. MemoryTypes /\ StoreTypes /\ HistoryTypes /\ a \in Actors /\ a \notin Turns
  BY Parts, ActorFacts DEF ReviewInv
<1>2. OthersKeep(a)
  BY <1>1, ApplyKeeps
<1>3. standing' = standing /\ standing \in SUBSET Deltas
  BY <1>1 DEF ApplyStep, StartApply, FindPermission, LockAndLoad, LockTaken, LoadDeltas, NothingToDo, PassGate,
     WriteDraft, Bind, BindRaises, Revert, RevertRaises, MarkExecuted, MarkApplied, history, HistoryTypes
<1>4. (stale => stale') /\ \A d \in standing : deltas'[d].status \in {deltas[d].status, "applied"}
  <2>1. CASE MarkApplied(a)
    BY <1>1, <1>3, <2>1, AppliedStatuses DEF MarkApplied
  <2>2. CASE MarkExecuted(a)
    BY <1>1, <1>3, <2>2, AppliedStatuses DEF MarkExecuted
  <2>3. CASE ~ MarkApplied(a) /\ ~ MarkExecuted(a)
    <3>1. deltas' = deltas /\ stale' = stale
      BY <2>3 DEF ApplyStep, StartApply, FindPermission, LockAndLoad, LockTaken, LoadDeltas, NothingToDo,
         PassGate, WriteDraft, Bind, BindRaises, Revert, RevertRaises, store, history
    <3> QED
      BY <3>1
  <2> QED
    BY <2>1, <2>2, <2>3
<1> QED
  BY <1>1, <1>2, <1>3, <1>4, StandingBystander

LEMMA EditorKeeps ==
    ASSUME MemoryTypes, OpenDraft \/ SaveDraft
    PROVE  OthersKeep(Editor)
<1>1. CASE OpenDraft
  BY <1>1, ActorFacts DEF OpenDraft, Goto, MemoryTypes, OthersKeep, Keeps
<1>2. CASE SaveDraft
  BY <1>2, ActorFacts, LeaveKeeps DEF SaveDraft
<1> QED
  BY <1>1, <1>2

LEMMA StandingNext == ReviewInv /\ StandingInv /\ [Next]_vars => StandingInv'
<1> SUFFICES ASSUME ReviewInv, StandingInv, [Next]_vars PROVE StandingInv'
  OBVIOUS
<1>1. MemoryTypes /\ Editor \in Actors /\ Editor \notin Turns
  BY Parts, ActorFacts DEF ReviewInv
<1>2. ASSUME UNCHANGED <<deltas, standing, stale, at, memory>> PROVE StandingInv'
  BY <1>2 DEF StandingInv, FreshCopy, CopyHonours, memory
<1>3. CASE OpenDraft \/ SaveDraft
  <2>1. deltas' = deltas /\ standing' = standing /\ stale' = stale
    BY <1>3 DEF OpenDraft, SaveDraft, store
  <2> QED
    BY <1>1, <1>3, <2>1, EditorKeeps, StandingBystander
<1>4. ASSUME NEW p \in Actors, Crash(p) PROVE StandingInv'
  BY <1>1, <1>4, LeaveEffect, StandingBystander DEF Crash, Unlock, history
<1>5. ASSUME NEW p \in Permissions,
             \/ \E S \in Batches : AskPermission(p, S)
             \/ \E approved \in BOOLEAN : DecidePermission(p, approved)
             \/ PermissionExpires(p)
      PROVE  StandingInv'
  BY <1>2, <1>5 DEF AskPermission, DecidePermission, PermissionExpires, history
<1>6. CASE UNCHANGED vars
  BY <1>2, <1>6 DEF vars, memory
<1>7. ASSUME NEW t \in Turns, ProposalStep(t) \/ ReviewStep(t) PROVE StandingInv'
  BY <1>7, StandingTurn
<1>8. ASSUME NEW a \in Appliers, ApplyStep(a) \/ \E S \in Batches : StartApply(a, S) PROVE StandingInv'
  BY <1>8, StandingApply
<1>9. CASE Next
  BY <1>3, <1>4, <1>5, <1>7, <1>8, <1>9, Zenon DEF Next
<1> QED
  BY <1>6, <1>9

LEMMA StandingInit == Init => StandingInv
<1> SUFFICES ASSUME Init PROVE StandingInv
  OBVIOUS
<1>1. standing = {} /\ \A t \in Turns : at[t] = "idle"
  BY ActorFacts DEF Init
<1> QED
  BY <1>1 DEF StandingInv, FreshCopy

\* A delta approved last, and not proposed anew since, is approved or applied,
\* unless a status was written inside a turn's load-to-replace window; crashes
\* and failed reverts take no approval back.
THEOREM ApprovalsStand == Spec => [](~ stale => \A d \in standing : deltas[d].status \in {"approved", "applied"})
<1>1. StandingInv => (~ stale => \A d \in standing : deltas[d].status \in {"approved", "applied"})
  BY DEF StandingInv
<1> QED
  BY <1>1, StandingInit, StandingNext, ReviewInvariance, PTL DEF Spec

-----------------------------------------------------------------------------
(* Approvals are spent once.                                               *)

\* An approval of d is left, or is being spent by the apply under way.
Unspent(d) == provisioned[d] < approvals[d] \/ \E a \in Appliers : d \in ran[a]

\* An apply has an approval for what it is going to execute.
Spends(a, d) ==
    /\ at[a] = "gate" /\ copy[a][d].status = "approved" => provisioned[d] < approvals[d]
    /\ at[a] \in {"writing", "binding"} /\ d \in ids[a] \ ran[a] => provisioned[d] < approvals[d]

\* Where a status, stored or about to be, says approved, an approval is left.
Allowance(d) ==
    /\ provisioned[d] <= approvals[d]
    /\ deltas[d].status = "approved" => Unspent(d)
    /\ \A t \in Turns : Replacing(t) /\ copy[t][d].status = "approved" => Unspent(d)
    /\ \A a \in Appliers : Spends(a, d)

RanUnderLock(p) == ran[p] # {} => at[p] \in {"binding", "reverting", "settling"}

SpendInv ==
    /\ \A p \in Actors : RanUnderLock(p)
    /\ ~ stale /\ ~ failed => \A d \in Bindings : Allowance(d)

\* A step of p that executes no binding.
LEMMA SpendStep ==
    ASSUME HistoryTypes, HistoryTypes', SpendInv, NEW p \in Actors, OthersKeep(p), RanUnderLock(p)',
           stale => stale', failed => failed', provisioned' = provisioned,
           \A d \in Bindings : approvals[d] <= approvals'[d],
           ~ stale' /\ ~ failed' => \A d \in Bindings :
               /\ d \in ran[p] \ ran'[p] => deltas'[d].status # "approved" /\ \A t \in Turns : ~ Replacing(t)'
               /\ deltas'[d].status = "approved" => deltas[d].status = "approved" \/ Unspent(d)'
               /\ p \in Turns /\ Replacing(p)' /\ copy'[p][d].status = "approved" => Unspent(d)'
               /\ p \in Appliers => Spends(p, d)'
    PROVE  SpendInv'
<1>1. ASSUME NEW q \in Actors PROVE RanUnderLock(q)'
  BY DEF SpendInv, OthersKeep, Keeps, RanUnderLock
<1>2. ASSUME ~ stale', ~ failed', NEW d \in Bindings PROVE Allowance(d)'
  <2>1. /\ Allowance(d) /\ provisioned'[d] \in Nat /\ approvals[d] \in Nat /\ approvals'[d] \in Nat
        /\ provisioned'[d] = provisioned[d] /\ approvals[d] <= approvals'[d]
    BY <1>2, AtlasAssumption DEF SpendInv, HistoryTypes
  <2>2. ASSUME Unspent(d), d \notin ran[p] \ ran'[p] PROVE Unspent(d)'
    <3>1. CASE provisioned[d] < approvals[d]
      BY <2>1, <3>1 DEF Unspent
    <3>2. ASSUME NEW a \in Appliers, d \in ran[a] PROVE Unspent(d)'
      <4>1. d \in ran'[a]
        BY <2>2, <3>2, ActorFacts DEF OthersKeep, Keeps
      <4> QED
        BY <4>1 DEF Unspent
    <3> QED
      BY <2>2, <3>1, <3>2 DEF Unspent
  <2>3. deltas'[d].status = "approved" => Unspent(d)'
    BY <1>2, <2>1, <2>2 DEF Allowance
  <2>4. ASSUME NEW t \in Turns, Replacing(t)', copy'[t][d].status = "approved" PROVE Unspent(d)'
    <3>1. CASE t = p
      BY <1>2, <2>4, <3>1
    <3>2. CASE t # p
      <4>1. Replacing(t) /\ copy[t][d].status = "approved"
        BY <2>4, <3>2, ActorFacts DEF OthersKeep, Keeps, Replacing
      <4> QED
        BY <1>2, <2>1, <2>2, <2>4, <4>1 DEF Allowance
    <3> QED
      BY <3>1, <3>2
  <2>5. ASSUME NEW a \in Appliers PROVE Spends(a, d)'
    <3>1. CASE a = p
      BY <1>2, <3>1
    <3>2. CASE a # p
      <4>1. Keeps(a) /\ Spends(a, d)
        BY <2>1, <3>2, ActorFacts DEF OthersKeep, Allowance
      <4> QED
        BY <2>1, <4>1 DEF Keeps, Spends
    <3> QED
      BY <3>1, <3>2
  <2> QED
    BY <2>1, <2>3, <2>4, <2>5 DEF Allowance
<1> QED
  BY <1>1, <1>2 DEF SpendInv

\* A step that changes no status and no count, and after which the request
\* holds nothing to write.
LEMMA SpendQuiet ==
    ASSUME HistoryTypes, HistoryTypes', SpendInv, NEW p \in Actors, OthersKeep(p),
           UNCHANGED <<deltas, stale, approvals, provisioned>>, failed => failed',
           ran'[p] = ran[p], RanUnderLock(p)',
           at'[p] \notin {"merged", "again", "mergedAgain", "gate", "writing", "binding"}
    PROVE  SpendInv'
<1>1. \A d \in Bindings : approvals[d] <= approvals'[d]
  BY AtlasAssumption DEF HistoryTypes
<1>2. \A d \in Bindings : Spends(p, d)'
  BY DEF Spends
<1>3. ~ Replacing(p)'
  BY DEF Replacing
<1> QED
  BY <1>1, <1>2, <1>3, SpendStep

LEMMA LeaveEmpties ==
    ASSUME MemoryTypes, NEW p \in Actors, Leave(p)
    PROVE  ran'[p] = {} /\ at'[p] = "idle" /\ OthersKeep(p)
BY LeaveKeeps, LeaveEffect DEF Leave, MemoryTypes

\* A request that has executed nothing ends.
LEMMA SpendLeave ==
    ASSUME ReviewInv, ReviewInv', SpendInv, NEW p \in Actors, Leave(p), ran[p] = {},
           UNCHANGED <<deltas, stale, approvals, provisioned>>, failed => failed'
    PROVE  SpendInv'
<1>1. MemoryTypes /\ HistoryTypes
  BY Parts DEF ReviewInv
<1>2. HistoryTypes'
  BY DEF ReviewInv, TypeOK, HistoryTypes
<1> QED
  BY <1>1, <1>2, LeaveEmpties, SpendQuiet DEF RanUnderLock

LEMMA TurnRuns ==
    ASSUME ReviewInv, SpendInv, NEW t \in Turns
    PROVE  ran[t] = {} /\ at[t] \notin UnderLock
<1>1. t \in Actors /\ t \notin Appliers \cup {None} /\ LockHeld(t) /\ lock \in Appliers \cup {None}
  BY ActorFacts, Parts DEF ReviewInv, StoreTypes
<1> QED
  BY <1>1 DEF LockHeld, SpendInv, RanUnderLock, UnderLock

LEMMA SpendTurn ==
    ASSUME ReviewInv, ReviewInv', StandingInv, SpendInv, NEW t \in Turns, ProposalStep(t) \/ ReviewStep(t)
    PROVE  SpendInv'
<1>1. /\ MemoryTypes /\ StoreTypes /\ HistoryTypes /\ HistoryTypes'
      /\ t \in Actors /\ t \notin Appliers
  <2>1. HistoryTypes'
    BY DEF ReviewInv, TypeOK, HistoryTypes
  <2> QED
    BY <2>1, Parts, ActorFacts DEF ReviewInv
<1>2. OthersKeep(t) /\ ran[t] = {} /\ \A d \in Bindings : d \in Deltas
  BY <1>1, TurnKeeps, TurnRuns, AtlasAssumption
<1>3. ASSUME UNCHANGED <<deltas, stale, approvals, provisioned, failed, ran>>,
             at'[t] \in {"proposed", "listed", "reviewed", "marking"}
      PROVE  SpendInv'
  BY <1>1, <1>2, <1>3, SpendQuiet DEF RanUnderLock
\* The copy with which t will replace the changes.
<1>4. ASSUME UNCHANGED <<deltas, stale, approvals, provisioned, failed, ran>>, at'[t] \notin UnderLock,
             \A d \in Bindings : copy'[t][d].status = "approved" =>
                 deltas[d].status = "approved" \/ (Replacing(t) /\ copy[t][d].status = "approved")
      PROVE  SpendInv'
  <2>1. RanUnderLock(t)' /\ \A d \in Bindings : approvals[d] <= approvals'[d]
    BY <1>1, <1>2, <1>4 DEF RanUnderLock, HistoryTypes
  <2>2. ASSUME ~ stale', ~ failed', NEW d \in Bindings, copy'[t][d].status = "approved" PROVE Unspent(d)'
    BY <1>4, <2>2 DEF SpendInv, Allowance, Unspent
  <2> QED
    BY <1>1, <1>2, <1>4, <2>1, <2>2, SpendStep
<1>5. ASSUME NEW content \in Proposals, Generate(t, content) PROVE SpendInv'
  <2>1. at'[t] \in {"listed", "proposed"}
    BY <1>1, <1>5 DEF Generate, Goto, MemoryTypes
  <2> QED
    BY <1>3, <1>5, <2>1 DEF Generate, store, history
<1>6. CASE LoadStored(t)
  <2>1. /\ at[t] \in {"proposed", "again"} /\ at'[t] \in {"merged", "mergedAgain"}
        /\ copy'[t] = Merged(copy[t]) /\ FreshCopy(t)
    BY <1>1, <1>6 DEF LoadStored, Goto, MemoryTypes, StandingInv
  <2>2. \A d \in Bindings : copy'[t][d].status = "approved" =>
            deltas[d].status = "approved" \/ (Replacing(t) /\ copy[t][d].status = "approved")
    BY <1>2, <2>1 DEF Merged, Existing, Missing, FreshCopy, Replacing
  <2> QED
    BY <1>4, <1>6, <2>1, <2>2 DEF LoadStored, store, history, UnderLock
<1>7. CASE Replace(t)
  <2>1. /\ deltas' = copy[t] /\ Replacing(t) /\ at'[t] \in {"listed", "idle"} /\ ran'[t] = {}
    BY <1>1, <1>2, <1>7, LeaveEmpties DEF Replace, Goto, MemoryTypes, Replacing
  <2>2. UNCHANGED <<stale, approvals, provisioned, failed>>
    BY <1>7 DEF Replace
  <2>3. ASSUME ~ stale', ~ failed', NEW d \in Bindings, deltas'[d].status = "approved" PROVE Unspent(d)'
    <3>1. Unspent(d)
      BY <2>1, <2>2, <2>3 DEF SpendInv, Allowance
    <3> QED
      BY <1>1, <1>2, <2>2, <3>1, ActorFacts DEF Unspent, OthersKeep, Keeps
  <2>4. RanUnderLock(t)' /\ ~ Replacing(t)' /\ \A d \in Bindings : approvals[d] <= approvals'[d]
    BY <1>1, <1>2, <2>1, <2>2 DEF RanUnderLock, Replacing, HistoryTypes
  <2> QED
    BY <1>1, <1>2, <2>1, <2>2, <2>3, <2>4, SpendStep
<1>8. ASSUME NEW content \in Proposals, NEW valid \in SUBSET Deltas, AddDependencies(t, content, valid)
      PROVE  SpendInv'
  <2>1. /\ at'[t] = "again"
        /\ copy'[t] = [d \in Deltas |-> IF d \in DOMAIN content THEN Proposed(content, d)
                                        ELSE IF d \in valid THEN deltas[d] ELSE Missing]
    BY <1>1, <1>8 DEF AddDependencies, Goto, MemoryTypes
  <2>2. \A d \in Bindings : copy'[t][d].status = "approved" => deltas[d].status = "approved"
    BY <1>2, <2>1 DEF Proposed, Missing
  <2> QED
    BY <1>4, <1>8, <2>1, <2>2 DEF AddDependencies, store, history, UnderLock
<1>9. CASE NoDependencies(t)
  BY <1>1, <1>2, <1>9, SpendLeave DEF NoDependencies, store, history
<1>10. ASSUME NEW S \in Batches, NEW v \in {"approved", "rejected"}, LoadReviewed(t, S, v)
       PROVE  SpendInv'
  <2>1. at'[t] = "reviewed"
    BY <1>1, <1>10 DEF LoadReviewed, Goto, MemoryTypes
  <2> QED
    BY <1>3, <1>10, <2>1 DEF LoadReviewed, store, history
<1>11. CASE SaveDecisions(t)
  <2>1. at'[t] = "marking"
    BY <1>1, <1>11 DEF SaveDecisions, Goto, MemoryTypes
  <2> QED
    BY <1>3, <1>11, <2>1 DEF SaveDecisions, history
<1>12. CASE MarkReviewed(t)
  <2> DEFINE S == ids[t] \cap Existing(deltas)
  <2>1. /\ at'[t] = "idle" /\ ran'[t] = {} /\ (stale => stale')
        /\ UNCHANGED <<provisioned, failed>>
    BY <1>1, <1>12, LeaveEmpties DEF MarkReviewed, SetStatuses
  <2>2. /\ verdict[t] = "approved" =>
              approvals' = [d \in Deltas |-> IF d \in S THEN approvals[d] + 1 ELSE approvals[d]]
        /\ verdict[t] # "approved" => approvals' = approvals
    BY <1>12 DEF MarkReviewed
  <2>3. \A d \in Deltas : deltas'[d].status = IF d \in S THEN verdict[t] ELSE deltas[d].status
    <3>1. \A d \in Existing(deltas) : [deltas[d] EXCEPT !.status = verdict[t]].status = verdict[t]
      BY <1>1 DEF StoreTypes, Existing, Entry, Missing
    <3> QED
      BY <1>12, <3>1 DEF MarkReviewed, SetStatuses
  <2>4. \A d \in Bindings : approvals[d] \in Nat /\ provisioned[d] \in Nat
    BY <1>1, <1>2 DEF HistoryTypes
  <2>5. \A d \in Bindings : approvals[d] <= approvals'[d]
    BY <1>2, <2>2, <2>4
  <2>6. ASSUME ~ stale', ~ failed', NEW d \in Bindings, deltas'[d].status = "approved", d \in S
        PROVE  Unspent(d)'
    <3>1. approvals'[d] = approvals[d] + 1
      BY <1>2, <2>2, <2>3, <2>6
    <3>2. provisioned[d] <= approvals[d]
      BY <2>1, <2>6 DEF SpendInv, Allowance
    <3> QED
      BY <2>1, <2>4, <3>1, <3>2 DEF Unspent
  <2>7. RanUnderLock(t)' /\ ~ Replacing(t)'
    BY <2>1 DEF RanUnderLock, Replacing
  <2> QED
    BY <1>1, <1>2, <2>1, <2>3, <2>5, <2>6, <2>7, SpendStep
<1> QED
  BY <1>5, <1>6, <1>7, <1>8, <1>9, <1>10, <1>11, <1>12 DEF ProposalStep, ReviewStep

\* The apply that holds the lock executes a binding.
LEMMA SpendBind ==
    ASSUME ReviewInv, SpendInv, NEW a \in Appliers, NEW d \in Bindings, Bind(a, d)
    PROVE  SpendInv'
<1>1. /\ MemoryTypes /\ HistoryTypes /\ a \in Actors /\ d \in Deltas
      /\ \A q \in Actors : LockHeld(q)
  BY Parts, ActorFacts, AtlasAssumption DEF ReviewInv
<1>2. /\ at[a] = "binding" /\ d \in ids[a] \ ran[a]
      /\ ran' = [ran EXCEPT ![a] = @ \cup {d}] /\ provisioned' = [provisioned EXCEPT ![d] = @ + 1]
      /\ UNCHANGED <<deltas, at, ids, copy, failed, approvals, stale>>
  BY DEF Bind, Unbound, store
<1>3. \A q \in Actors \ {a} : at[q] \notin UnderLock /\ ran'[q] = ran[q]
  BY <1>1, <1>2 DEF LockHeld, UnderLock, MemoryTypes
<1>4. ran'[a] = ran[a] \cup {d}
  BY <1>1, <1>2 DEF MemoryTypes
<1>5. \A q \in Actors : RanUnderLock(q)'
  BY <1>2, <1>3, <1>4 DEF SpendInv, RanUnderLock
<1>6. ASSUME ~ stale, ~ failed, NEW e \in Bindings PROVE Allowance(e)'
  <2>1. /\ Allowance(e) /\ Allowance(d) /\ e \in Deltas
        /\ provisioned[e] \in Nat /\ approvals[e] \in Nat
    BY <1>1, <1>6, AtlasAssumption DEF SpendInv, HistoryTypes
  <2>2. provisioned'[e] = IF e = d THEN provisioned[e] + 1 ELSE provisioned[e]
    BY <1>1, <1>2, <2>1 DEF HistoryTypes
  <2>3. provisioned[d] < approvals[d]
    BY <1>2, <2>1 DEF Allowance, Spends
  <2>4. Unspent(e) => Unspent(e)'
    <3>1. CASE e = d
      BY <1>4, <3>1 DEF Unspent
    <3>2. CASE e # d
      BY <1>2, <1>3, <1>4, <2>2, <3>2, ActorFacts DEF Unspent
    <3> QED
      BY <3>1, <3>2
  <2>5. ASSUME NEW b \in Appliers PROVE Spends(b, e)'
    <3>1. CASE b = a
      BY <1>2, <1>4, <2>1, <2>2, <3>1 DEF Allowance, Spends
    <3>2. CASE b # a
      BY <1>2, <1>3, <3>2, ActorFacts DEF Spends, UnderLock
    <3> QED
      BY <3>1, <3>2
  <2>6. provisioned'[e] <= approvals'[e]
    BY <1>2, <2>1, <2>2, <2>3 DEF Allowance
  <2> QED
    BY <1>2, <2>1, <2>4, <2>5, <2>6 DEF Allowance, Replacing
<1> QED
  BY <1>2, <1>5, <1>6 DEF SpendInv

\* An apply ends by marking applied what it executed of bindings, and perhaps more.
LEMMA SpendMarks ==
    ASSUME ReviewInv, ReviewInv', SpendInv, NEW a \in Appliers, NEW S \in SUBSET Deltas,
           ran[a] \subseteq S, SetStatuses(S, "applied") \/ (ran[a] = {} /\ UNCHANGED <<deltas, stale>>),
           Leave(a), UNCHANGED <<failed, approvals, provisioned>>
    PROVE  SpendInv'
<1>1. /\ MemoryTypes /\ StoreTypes /\ HistoryTypes /\ HistoryTypes'
      /\ a \in Actors /\ a \notin Turns
  <2>1. HistoryTypes'
    BY DEF ReviewInv, TypeOK, HistoryTypes
  <2> QED
    BY <2>1, Parts, ActorFacts DEF ReviewInv
<1>2. OthersKeep(a) /\ ran'[a] = {} /\ at'[a] = "idle"
  BY <1>1, LeaveEmpties
<1>3. CASE ran[a] = {} /\ UNCHANGED <<deltas, stale>>
  BY <1>1, <1>3, SpendLeave
<1>4. CASE SetStatuses(S, "applied")
  <2>1. /\ \A d \in Deltas : deltas'[d].status =
               IF d \in S /\ deltas[d].status # "absent" THEN "applied" ELSE deltas[d].status
        /\ stale => stale'
        /\ ~ stale' => \A t \in Turns : ~ Replacing(t)
    BY <1>1, <1>4, AppliedStatuses
  <2>2. ~ stale' => \A t \in Turns : ~ Replacing(t)'
    BY <1>1, <1>2, <2>1, ActorFacts DEF OthersKeep, Keeps, Replacing
  <2>3. \A d \in Bindings : /\ d \in ran[a] => deltas'[d].status # "approved"
                            /\ deltas'[d].status = "approved" => deltas[d].status = "approved"
    BY <2>1, AtlasAssumption
  <2>4. RanUnderLock(a)' /\ \A d \in Bindings : Spends(a, d)' /\ approvals[d] <= approvals'[d]
    BY <1>1, <1>2, AtlasAssumption DEF RanUnderLock, Spends, HistoryTypes
  <2> QED
    BY <1>1, <1>2, <2>1, <2>2, <2>3, <2>4, SpendStep
<1> QED
  BY <1>3, <1>4

LEMMA SpendApply ==
    ASSUME ReviewInv, ReviewInv', SpendInv, NEW a \in Appliers,
           ApplyStep(a) \/ \E S \in Batches : StartApply(a, S)
    PROVE  SpendInv'
<1>1. /\ MemoryTypes /\ StoreTypes /\ HistoryTypes /\ HistoryTypes'
      /\ a \in Actors /\ a \notin Turns /\ LockHeld(a) /\ Authorised(a)
  <2>1. HistoryTypes'
    BY DEF ReviewInv, TypeOK, HistoryTypes
  <2> QED
    BY <2>1, Parts, ActorFacts DEF ReviewInv
<1>2. OthersKeep(a) /\ RanUnderLock(a) /\ \A d \in Bindings : d \in Deltas
  BY <1>1, ApplyKeeps, AtlasAssumption DEF SpendInv
<1>3. \A d \in Bindings : approvals[d] \in Nat /\ approvals[d] <= approvals[d]
  BY <1>1, <1>2 DEF HistoryTypes
\* The apply moves on.
<1>4. ASSUME UNCHANGED <<deltas, stale, approvals, provisioned>>, failed => failed', ran'[a] = ran[a],
             RanUnderLock(a)', ~ failed' => \A d \in Bindings : ~ stale => Spends(a, d)'
      PROVE  SpendInv'
  BY <1>1, <1>2, <1>3, <1>4, SpendStep
<1>5. ASSUME NEW S \in Batches, StartApply(a, S) PROVE SpendInv'
  <2>1. at'[a] = "finding" /\ at[a] = "idle" /\ ran' = ran
    BY <1>1, <1>5 DEF StartApply, Goto, MemoryTypes
  <2> QED
    BY <1>2, <1>4, <1>5, <2>1 DEF StartApply, store, history, RanUnderLock, Spends
<1>6. CASE FindPermission(a)
  <2>1. ran[a] = {} /\ UNCHANGED <<deltas, stale, approvals, provisioned, failed>>
    BY <1>2, <1>6 DEF FindPermission, RanUnderLock, store, history
  <2>2. CASE Leave(a)
    BY <1>1, <2>1, <2>2, SpendLeave
  <2>3. CASE Goto(a, "permitted") /\ UNCHANGED memory
    <3>1. at'[a] = "permitted" /\ ran' = ran
      BY <1>1, <2>3 DEF Goto, MemoryTypes, memory
    <3> QED
      BY <1>4, <2>1, <3>1 DEF RanUnderLock, Spends
  <2> QED
    BY <1>6, <2>2, <2>3 DEF FindPermission
<1>7. CASE LockAndLoad(a)
  <2>1. at'[a] = "locked" /\ at[a] = "permitted" /\ ran' = ran
    BY <1>1, <1>7 DEF LockAndLoad, Goto, MemoryTypes
  <2> QED
    BY <1>2, <1>4, <1>7, <2>1 DEF LockAndLoad, RanUnderLock, Spends
<1>8. CASE LockTaken(a) \/ NothingToDo(a)
  <2>1. ran[a] = {} /\ Leave(a) /\ UNCHANGED <<deltas, stale, approvals, provisioned, failed>>
    BY <1>2, <1>8 DEF LockTaken, NothingToDo, Unlock, RanUnderLock, store, history
  <2> QED
    BY <1>1, <2>1, SpendLeave
<1>9. CASE LoadDeltas(a)
  <2>1. /\ at'[a] = "gate" /\ at[a] = "locked" /\ copy'[a] = deltas /\ ran' = ran
        /\ UNCHANGED <<deltas, stale, approvals, provisioned, failed>>
    BY <1>1, <1>9 DEF LoadDeltas, Goto, MemoryTypes, store, history
  <2>2. ran[a] = {}
    BY <1>2, <2>1 DEF RanUnderLock
\* Nobody else is under the lock, so nobody is spending an approval.
  <2>3. \A b \in Appliers : ran[b] = {}
    <3> SUFFICES ASSUME NEW b \in Appliers, b # a PROVE ran[b] = {}
      BY <2>2
    <3>1. b \in Actors /\ LockHeld(b) /\ RanUnderLock(b)
      BY ActorFacts, Parts DEF ReviewInv, SpendInv
    <3> QED
      BY <1>1, <2>1, <3>1 DEF LockHeld, UnderLock, RanUnderLock
  <2>4. ASSUME ~ stale, ~ failed, NEW d \in Bindings PROVE Spends(a, d)'
    BY <2>1, <2>3, <2>4 DEF SpendInv, Allowance, Unspent, Spends
  <2> QED
    BY <1>4, <2>1, <2>2, <2>4 DEF RanUnderLock
<1>10. CASE PassGate(a)
  <2>1. /\ at[a] = "gate" /\ ran[a] = {}
        /\ UNCHANGED <<deltas, stale, approvals, provisioned, failed>>
    BY <1>2, <1>10 DEF PassGate, RanUnderLock, history
  <2>2. CASE Unlock(a)
    BY <1>1, <2>1, <2>2, SpendLeave DEF Unlock
  <2>3. CASE Cleared(a) /\ Goto(a, "writing") /\ UNCHANGED <<lock, memory>>
    <3>1. at'[a] = "writing" /\ UNCHANGED <<ran, ids, copy>>
      BY <1>1, <2>3 DEF Goto, MemoryTypes, memory
    <3>2. ASSUME ~ stale, ~ failed, NEW d \in Bindings PROVE Spends(a, d)'
      <4>1. Spends(a, d)
        BY <3>2 DEF SpendInv, Allowance
      <4>2. d \in ids[a] => copy[a][d].status = "approved"
        BY <2>3 DEF Cleared
      <4> QED
        BY <2>1, <3>1, <4>1, <4>2 DEF Spends
    <3> QED
      BY <1>4, <2>1, <3>1, <3>2 DEF RanUnderLock
  <2> QED
    BY <1>10, <2>2, <2>3 DEF PassGate
<1>11. CASE WriteDraft(a)
  <2>1. /\ at[a] = "writing" /\ at'[a] = "binding" /\ ran[a] = {} /\ ran'[a] = {} /\ ids' = ids
        /\ UNCHANGED <<deltas, stale, approvals, provisioned, failed>>
    BY <1>1, <1>2, <1>11 DEF WriteDraft, Goto, MemoryTypes, RanUnderLock
  <2>2. ASSUME ~ stale, ~ failed, NEW d \in Bindings PROVE Spends(a, d)'
    BY <2>1, <2>2 DEF SpendInv, Allowance, Spends
  <2> QED
    BY <1>4, <2>1, <2>2 DEF RanUnderLock
<1>12. CASE BindRaises(a) \/ Revert(a) \/ RevertRaises(a)
  <2>1. /\ at'[a] \in {"reverting", "settling"} /\ ran' = ran /\ (failed => failed')
        /\ UNCHANGED <<deltas, stale, approvals, provisioned>>
    BY <1>1, <1>12 DEF BindRaises, Revert, RevertRaises, Goto, MemoryTypes, memory, store, history
  <2> QED
    BY <1>4, <2>1 DEF RanUnderLock, Spends
<1>13. CASE MarkExecuted(a)
  <2>1. /\ Leave(a) /\ ran[a] \in SUBSET Deltas /\ UNCHANGED <<failed, approvals, provisioned>>
        /\ SetStatuses(ran[a], "applied") \/ (ran[a] = {} /\ UNCHANGED <<deltas, stale>>)
    BY <1>1, <1>2, <1>13 DEF MarkExecuted, Unlock, MemoryTypes
  <2> QED
    BY <2>1, SpendMarks
<1>14. CASE MarkApplied(a)
  <2>1. /\ Leave(a) /\ ids[a] \in SUBSET Deltas /\ UNCHANGED <<failed, approvals, provisioned>>
        /\ SetStatuses(ids[a], "applied") /\ ran[a] \subseteq ids[a]
    BY <1>1, <1>14 DEF MarkApplied, Unlock, MemoryTypes, Authorised
  <2> QED
    BY <2>1, SpendMarks
<1> QED
  BY <1>5, <1>6, <1>7, <1>8, <1>9, <1>10, <1>11, <1>12, <1>13, <1>14, SpendBind DEF ApplyStep

LEMMA SpendNext == ReviewInv /\ ReviewInv' /\ StandingInv /\ SpendInv /\ [Next]_vars => SpendInv'
<1> SUFFICES ASSUME ReviewInv, ReviewInv', StandingInv, SpendInv, [Next]_vars PROVE SpendInv'
  OBVIOUS
<1>1. /\ MemoryTypes /\ HistoryTypes /\ HistoryTypes' /\ Editor \in Actors
      /\ Editor \notin Turns /\ Editor \notin Appliers
  <2>1. HistoryTypes'
    BY DEF ReviewInv, TypeOK, HistoryTypes
  <2> QED
    BY <2>1, Parts, ActorFacts DEF ReviewInv
<1>2. ASSUME UNCHANGED <<deltas, stale, failed, approvals, provisioned, at, memory>> PROVE SpendInv'
  BY <1>2 DEF SpendInv, RanUnderLock, Allowance, Unspent, Replacing, Spends, memory
<1>3. CASE OpenDraft \/ SaveDraft
  <2>1. /\ at[Editor] \in {"idle", "editing"} /\ at'[Editor] \in {"idle", "editing"}
        /\ UNCHANGED <<deltas, stale, failed, approvals, provisioned>> /\ OthersKeep(Editor)
    BY <1>1, <1>3, EditorKeeps, LeaveEffect DEF OpenDraft, SaveDraft, store, Goto, MemoryTypes
  <2>2. ran[Editor] = {}
    BY <1>1, <2>1 DEF SpendInv, RanUnderLock
  <2>3. ran'[Editor] = {}
    BY <1>1, <1>3, <2>2, LeaveEmpties DEF OpenDraft, SaveDraft
  <2> QED
    BY <1>1, <2>1, <2>2, <2>3, SpendQuiet DEF RanUnderLock
\* A request that dies may have spent an approval and not said so.
<1>4. ASSUME NEW p \in Actors, Crash(p) PROVE SpendInv'
  <2>1. Leave(p) /\ failed'
    BY <1>4 DEF Crash, Unlock
  <2>2. ASSUME NEW q \in Actors PROVE RanUnderLock(q)'
    <3>1. RanUnderLock(q) /\ ran'[p] = {} /\ OthersKeep(p)
      BY <1>1, <2>1, LeaveEmpties DEF SpendInv
    <3> QED
      BY <3>1 DEF RanUnderLock, OthersKeep, Keeps
  <2> QED
    BY <2>1, <2>2 DEF SpendInv
<1>5. ASSUME NEW p \in Permissions,
             \/ \E S \in Batches : AskPermission(p, S)
             \/ \E approved \in BOOLEAN : DecidePermission(p, approved)
             \/ PermissionExpires(p)
      PROVE  SpendInv'
  BY <1>2, <1>5 DEF AskPermission, DecidePermission, PermissionExpires, history
<1>6. CASE UNCHANGED vars
  BY <1>2, <1>6 DEF vars, memory
<1>7. ASSUME NEW t \in Turns, ProposalStep(t) \/ ReviewStep(t) PROVE SpendInv'
  BY <1>7, SpendTurn
<1>8. ASSUME NEW a \in Appliers, ApplyStep(a) \/ \E S \in Batches : StartApply(a, S) PROVE SpendInv'
  BY <1>8, SpendApply
<1>9. CASE Next
  BY <1>3, <1>4, <1>5, <1>7, <1>8, <1>9, Zenon DEF Next
<1> QED
  BY <1>6, <1>9

LEMMA SpendInit == Init => SpendInv
<1> SUFFICES ASSUME Init PROVE SpendInv
  OBVIOUS
<1>1. /\ \A p \in Actors : at[p] = "idle" /\ ran[p] = {}
      /\ \A d \in Bindings : deltas[d].status = "absent" /\ provisioned[d] = 0 /\ approvals[d] = 0
  BY AtlasAssumption DEF Init, NoDeltas, Missing
<1> QED
  BY <1>1, ActorFacts DEF SpendInv, RanUnderLock, Allowance, Replacing, Spends

\* As long as no status was written inside a turn's load-to-replace window,
\* an approval stays until it is used or its delta is proposed anew; if also
\* no request died, no binding delta ran more often than it was approved.
THEOREM ApprovalsHonoured == Spec => []ReviewIsHonoured
<1>1. StandingInv /\ SpendInv => ReviewIsHonoured
  BY DEF StandingInv, SpendInv, Allowance, ReviewIsHonoured, ReviewedSurvives
<1> QED
  BY <1>1, StandingInit, StandingNext, SpendInit, SpendNext, ReviewInvariance, PTL DEF Spec

=============================================================================
