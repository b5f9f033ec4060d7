----------------------------- MODULE AtlasApply -----------------------------
(***************************************************************************)
(* One Atlas authoring session: proposed deltas, their review, permission  *)
(* to apply, and the apply to the agent's draft and integrations           *)
(* (ruhu/atlas_api.py, atlas_coordinator.py, atlas_store.py).              *)
(*                                                                         *)
(* Every store call is a transaction of its own, so every call is an       *)
(* action.  Applies of a session exclude each other by an advisory lock;   *)
(* proposal turns, reviews and the draft's editor do not take it.          *)
(***************************************************************************)
EXTENDS Naturals, FiniteSets

CONSTANTS
    Deltas,        \* delta ids; a generator may use one again
    Bindings,      \* those of IntegrationBindingDelta
    Versions,      \* contents a delta can have, told apart by their hash
    Proposals,     \* what generators come up with: contents of deltas
    Batches,       \* sets of deltas a request names
    Turns,         \* turns that propose or review, under way at once
    Appliers,      \* apply requests under way at once
    Permissions,   \* permission requests of the session
    Editor,        \* a user who edits the draft by hand
    Edit,          \* what that user adds
    None,
    MaxEvents      \* bound: turns, apply requests, edits and faults

Actors == Turns \cup Appliers \cup {Editor}
Contribution == Deltas \X Versions

ASSUME AtlasAssumption ==
    /\ Bindings \subseteq Deltas
    /\ Proposals \subseteq UNION {[S -> Versions] : S \in SUBSET Deltas}
    /\ Batches \subseteq (SUBSET Deltas) \ {{}}
    /\ Turns \cap Appliers = {} /\ Editor \notin Turns \cup Appliers
    /\ None \notin Actors \cup Versions /\ Edit \notin Contribution
    /\ MaxEvents \in Nat

VARIABLES
    deltas,        \* atlas_proposed_deltas
    decisions,     \* approvals in atlas_review_decisions: delta and hash
    permissions,   \* atlas_permission_requests
    draft,         \* the draft document: what was added to it
    lock,          \* holder of apply_lock
    at,            \* where each actor is
    ids,           \* the deltas its request names
    verdict,       \* the decision its request carries
    copy,          \* the proposed changes it has in memory
    doc,           \* the draft it has in memory
    ran,           \* binding deltas its apply has executed
    used,          \* requests, edits and faults so far
    failed,        \* history: a request died, or a revert failed
    done,          \* history: contributions ever applied
    approvals,     \* history: times each delta's status was set approved
    provisioned,   \* history: times each binding delta was executed
    standing,      \* history: deltas approved last, and not proposed anew since
    confirmed,     \* history: contributions marked applied
    edited,        \* history: the edit was saved
    stale,         \* history: a status was written inside a proposal's load-to-replace window
    crossed        \* history: edit and apply of the draft overlapped

vars == <<deltas, decisions, permissions, draft, lock, at, ids, verdict, copy, doc, ran,
          used, failed, done, approvals, provisioned, standing, confirmed,
          edited, stale, crossed>>

store == <<deltas, decisions, permissions, draft, lock>>
memory == <<ids, verdict, copy, doc, ran>>
history == <<done, approvals, provisioned, standing, confirmed, edited, stale, crossed>>

-----------------------------------------------------------------------------

Missing == [status |-> "absent", content |-> None]
NoDeltas == [d \in Deltas |-> Missing]
Existing(table) == {d \in Deltas : table[d].status # "absent"}

Init ==
    /\ deltas = NoDeltas /\ decisions = {}
    /\ permissions = [p \in Permissions |-> [status |-> "none", ids |-> {}]]
    /\ draft = {} /\ lock = None
    /\ at = [p \in Actors |-> "idle"]
    /\ ids = [p \in Actors |-> {}]
    /\ verdict = [p \in Actors |-> "none"]
    /\ copy = [p \in Actors |-> NoDeltas]
    /\ doc = [p \in Actors |-> {}]
    /\ ran = [p \in Actors |-> {}]
    /\ used = 0 /\ failed = FALSE
    /\ done = {} /\ standing = {} /\ confirmed = {}
    /\ approvals = [d \in Deltas |-> 0] /\ provisioned = [d \in Deltas |-> 0]
    /\ edited = FALSE /\ stale = FALSE /\ crossed = FALSE

Goto(p, place) == at' = [at EXCEPT ![p] = place]

\* p's request ends; what it had in memory is gone.
Leave(p) ==
    /\ Goto(p, "idle")
    /\ ids' = [ids EXCEPT ![p] = {}]
    /\ verdict' = [verdict EXCEPT ![p] = "none"]
    /\ copy' = [copy EXCEPT ![p] = NoDeltas]
    /\ doc' = [doc EXCEPT ![p] = {}]
    /\ ran' = [ran EXCEPT ![p] = {}]

Replacing(t) == at[t] \in {"merged", "again", "mergedAgain"}

\* update_proposed_delta_statuses: rows that are gone are skipped.
SetStatuses(S, status) ==
    /\ deltas' = [d \in Deltas |-> IF d \in S \cap Existing(deltas)
                                   THEN [deltas[d] EXCEPT !.status = status] ELSE deltas[d]]
    /\ stale' = (stale \/ \E t \in Turns : Replacing(t))

-----------------------------------------------------------------------------
(* run_turn with a message: proposals.                                     *)

\* The changes with the given contents, on review.
Proposed(content, d) == [status |-> "proposed", content |-> content[d]]

\* The generators' changes, normalised to proposed and validated; if there
\* are none the stored changes are only listed.
Generate(t, content) ==
    /\ at[t] = "idle"
    /\ used < MaxEvents /\ used' = used + 1
    /\ copy' = [copy EXCEPT ![t] =
          [d \in Deltas |-> IF d \in DOMAIN content THEN Proposed(content, d) ELSE Missing]]
    /\ Goto(t, IF DOMAIN content = {} THEN "listed" ELSE "proposed")
    /\ UNCHANGED <<store, ids, verdict, doc, ran, failed, history>>

\* MUTANT of Merged: approved deltas are superseded like pending ones.
MergedWithApplied(new) ==
    [d \in Deltas |-> IF d \in Existing(new) THEN new[d]
                      ELSE IF deltas[d].status = "applied" THEN deltas[d] ELSE Missing]

\* What _replace_proposed_changes_preserving_reviewed makes of the stored and the new changes.
Merged(new) ==
    [d \in Deltas |-> IF d \in Existing(new) THEN new[d]
                      ELSE IF deltas[d].status \in {"approved", "applied"} THEN deltas[d]
                      ELSE Missing]

\* It loads the stored changes ...
LoadStored(t) ==
    /\ at[t] \in {"proposed", "again"}
    /\ copy' = [copy EXCEPT ![t] = Merged(@)]
    /\ Goto(t, IF at[t] = "again" THEN "mergedAgain" ELSE "merged")
    /\ UNCHANGED <<store, ids, verdict, doc, ran, used, failed, history>>

\* ... and replaces them all by what it has merged (replace_proposed_changes).
Replace(t) ==
    /\ at[t] \in {"merged", "mergedAgain"}
    /\ deltas' = copy[t]
    /\ standing' = IF at[t] = "merged"
                   THEN standing \ {d \in Deltas : copy[t][d].status = "proposed"} ELSE standing
    /\ IF at[t] = "merged"
       THEN /\ copy' = [copy EXCEPT ![t] = NoDeltas]
            /\ Goto(t, "listed")
            /\ UNCHANGED <<ids, verdict, doc, ran>>
       ELSE Leave(t)
    /\ UNCHANGED <<decisions, permissions, draft, lock, used, failed, done, approvals,
                   provisioned, confirmed, edited, stale, crossed>>

\* The changes are listed again; setup proposals for the agent's dependencies, with new
\* ids, are added to those of them that validate, and the whole is merged and replaced.
AddDependencies(t, content, valid) ==
    /\ at[t] = "listed"
    /\ DOMAIN content \subseteq Bindings \ Existing(deltas) /\ DOMAIN content # {}
    /\ valid \subseteq Existing(deltas)
    /\ copy' = [copy EXCEPT ![t] =
          [d \in Deltas |-> IF d \in DOMAIN content THEN Proposed(content, d)
                            ELSE IF d \in valid THEN deltas[d] ELSE Missing]]
    /\ Goto(t, "again")
    /\ UNCHANGED <<store, ids, verdict, doc, ran, used, failed, history>>

NoDependencies(t) ==
    /\ at[t] = "listed"
    /\ Leave(t)
    /\ UNCHANGED <<store, used, failed, history>>

-----------------------------------------------------------------------------
(* run_turn with decisions, which proposes nothing: review, request for    *)
(* permission to apply, decision on such a request.                        *)

\* The changes on review are loaded for their hashes.
LoadReviewed(t, S, v) ==
    /\ at[t] = "idle"
    /\ used < MaxEvents /\ used' = used + 1
    /\ ids' = [ids EXCEPT ![t] = S]
    /\ verdict' = [verdict EXCEPT ![t] = v]
    /\ copy' = [copy EXCEPT ![t] = deltas]
    /\ Goto(t, "reviewed")
    /\ UNCHANGED <<store, doc, ran, failed, history>>

\* save_review_decisions: a delta that is not there gets no hash.
SaveDecisions(t) ==
    /\ at[t] = "reviewed"
    /\ decisions' = IF verdict[t] = "approved"
                    THEN decisions \cup {<<d, copy[t][d].content>> : d \in ids[t] \cap Existing(copy[t])}
                    ELSE decisions
    /\ copy' = [copy EXCEPT ![t] = NoDeltas]
    /\ Goto(t, "marking")
    /\ UNCHANGED <<deltas, permissions, draft, lock, ids, verdict, doc, ran, used, failed, history>>

\* The statuses are set by delta id, those of applied deltas too.
MarkReviewed(t) ==
    /\ at[t] = "marking"
    /\ SetStatuses(ids[t], verdict[t])
    /\ LET S == ids[t] \cap Existing(deltas)
       IN  IF verdict[t] = "approved"
           THEN /\ approvals' = [d \in Deltas |-> IF d \in S THEN approvals[d] + 1 ELSE approvals[d]]
                /\ standing' = standing \cup S
           ELSE standing' = standing \ S /\ UNCHANGED approvals
    /\ Leave(t)
    /\ UNCHANGED <<decisions, permissions, draft, lock, used, failed, done,
                   provisioned, confirmed, edited, crossed>>

\* create_permission_request.
AskPermission(p, S) ==
    /\ permissions[p].status = "none"
    /\ permissions' = [permissions EXCEPT ![p] = [status |-> "pending", ids |-> S]]
    /\ UNCHANGED <<deltas, decisions, draft, lock, at, memory, used, failed, history>>

\* Denied or expired.
Closed == [status |-> "closed", ids |-> {}]

\* apply_permission_decisions: only a pending request that has not expired.
DecidePermission(p, approved) ==
    /\ permissions[p].status = "pending"
    /\ permissions' = [permissions EXCEPT ![p] = IF approved THEN [@ EXCEPT !.status = "approved"]
                                                ELSE Closed]
    /\ UNCHANGED <<deltas, decisions, draft, lock, at, memory, used, failed, history>>

-----------------------------------------------------------------------------
(* apply_changes, and apply_requested_deltas under the lock.               *)

\* No request of the session is pending.  Applies refused here or below leave
\* an apply record and change nothing else.
StartApply(a, S) ==
    /\ at[a] = "idle"
    /\ used < MaxEvents /\ used' = used + 1
    /\ \A p \in Permissions : permissions[p].status # "pending"
    /\ ids' = [ids EXCEPT ![a] = S]
    /\ Goto(a, "finding")
    /\ UNCHANGED <<store, verdict, copy, doc, ran, failed, history>>

\* find_approved_apply_permission: for exactly these deltas.
Permitted(S) == \E p \in Permissions : permissions[p].status = "approved" /\ permissions[p].ids = S

FindPermission(a) ==
    /\ at[a] = "finding"
    /\ \/ Permitted(ids[a]) /\ Goto(a, "permitted") /\ UNCHANGED memory
       \/ ~ Permitted(ids[a]) /\ Leave(a)
    /\ UNCHANGED <<store, used, failed, history>>

\* MUTANT of LockAndLoad: the answer of pg_try_advisory_lock is not looked at.
LoadUnlocked(a) ==
    /\ at[a] = "permitted"
    /\ lock' = a
    /\ doc' = [doc EXCEPT ![a] = draft]
    /\ Goto(a, "locked")
    /\ crossed' = (crossed \/ at[Editor] # "idle")
    /\ UNCHANGED <<deltas, decisions, permissions, draft, ids, verdict, copy, ran,
                   used, failed, done, approvals, provisioned, standing, confirmed, edited, stale>>

\* pg_try_advisory_lock, then the draft is loaded.
LockAndLoad(a) ==
    /\ at[a] = "permitted" /\ lock = None
    /\ lock' = a
    /\ doc' = [doc EXCEPT ![a] = draft]
    /\ Goto(a, "locked")
    /\ crossed' = (crossed \/ at[Editor] # "idle")
    /\ UNCHANGED <<deltas, decisions, permissions, draft, ids, verdict, copy, ran,
                   used, failed, done, approvals, provisioned, standing, confirmed, edited, stale>>

\* Another apply of the session holds it.
LockTaken(a) ==
    /\ at[a] = "permitted" /\ lock # None
    /\ Leave(a)
    /\ UNCHANGED <<store, used, failed, history>>

Unlock(a) == Leave(a) /\ lock' = IF lock = a THEN None ELSE lock

\* The proposed changes are loaded.  Unknown ids are an error; a retry of an
\* apply that succeeded is answered with the draft as it is.
LoadDeltas(a) ==
    /\ at[a] = "locked"
    /\ copy' = [copy EXCEPT ![a] = deltas]
    /\ Goto(a, "gate")
    /\ UNCHANGED <<store, ids, verdict, doc, ran, used, failed, history>>

NothingToDo(a) ==
    /\ at[a] = "gate"
    /\ \/ ~ (ids[a] \subseteq Existing(copy[a]))
       \/ \A d \in ids[a] : copy[a][d].status = "applied"
    /\ Unlock(a)
    /\ UNCHANGED <<deltas, decisions, permissions, draft, used, failed, history>>

\* MUTANT of Cleared: the status is trusted.
ClearedByStatus(a) ==
    \A d \in ids[a] : copy[a][d].status = "approved"

\* The content loaded was approved, and the status is.
Cleared(a) ==
    \A d \in ids[a] : /\ <<d, copy[a][d].content>> \in decisions
                      /\ copy[a][d].status = "approved"

\* list_review_decisions; then validation and preflight, which may refuse too.
PassGate(a) ==
    /\ at[a] = "gate"
    /\ ids[a] \subseteq Existing(copy[a])
    /\ ~ \A d \in ids[a] : copy[a][d].status = "applied"
    /\ \/ Cleared(a) /\ Goto(a, "writing") /\ UNCHANGED <<lock, memory>>
       \/ Unlock(a)
    /\ UNCHANGED <<deltas, decisions, permissions, draft, used, failed, history>>

Contributions(a, S) == {<<d, copy[a][d].content>> : d \in S}

\* MUTANT of Documents: what _apply_delta returns is not kept.
DocumentsUnapplied(a) == Contributions(a, {})

Documents(a) == Contributions(a, ids[a] \ Bindings)

\* update_draft_agent_document with the loaded draft and the deltas: the whole document.
\* No binding delta has run yet.
WriteDraft(a) ==
    /\ at[a] = "writing"
    /\ draft' = doc[a] \cup Documents(a)
    /\ done' = done \cup Documents(a)
    /\ ran' = [ran EXCEPT ![a] = {}]
    /\ Goto(a, "binding")
    /\ UNCHANGED <<deltas, decisions, permissions, lock, ids, verdict, copy, doc,
                   used, failed, approvals, provisioned, standing, confirmed, edited, stale, crossed>>

Unbound(a) == (ids[a] \cap Bindings) \ ran[a]

\* _apply_integration_binding_delta ...
Bind(a, d) ==
    /\ at[a] = "binding" /\ d \in Unbound(a)
    /\ ran' = [ran EXCEPT ![a] = @ \cup {d}]
    /\ provisioned' = [provisioned EXCEPT ![d] = @ + 1]
    /\ done' = done \cup Contributions(a, {d})
    /\ UNCHANGED <<store, at, ids, verdict, copy, doc, used, failed, approvals, standing,
                   confirmed, edited, stale, crossed>>

\* ... or it raises.
BindRaises(a) ==
    /\ at[a] = "binding" /\ Unbound(a) # {}
    /\ Goto(a, "reverting")
    /\ UNCHANGED <<store, memory, used, failed, history>>

\* The draft is written back as it was loaded ...
Revert(a) ==
    /\ at[a] = "reverting"
    /\ draft' = doc[a]
    /\ Goto(a, "settling")
    /\ UNCHANGED <<deltas, decisions, permissions, lock, memory, used, failed, history>>

\* ... or that fails as well, which is only logged.
RevertRaises(a) ==
    /\ at[a] = "reverting"
    /\ used < MaxEvents /\ used' = used + 1 /\ failed' = TRUE
    /\ Goto(a, "settling")
    /\ UNCHANGED <<store, memory, history>>

\* The bindings that ran are marked applied, and the apply fails.
MarkExecuted(a) ==
    /\ at[a] = "settling"
    /\ IF ran[a] = {} THEN UNCHANGED <<deltas, stale>> ELSE SetStatuses(ran[a], "applied")
    /\ confirmed' = confirmed \cup Contributions(a, ran[a])
    /\ Unlock(a)
    /\ UNCHANGED <<decisions, permissions, draft, used, failed, done, approvals,
                   provisioned, standing, edited, crossed>>

\* All deltas of the request are marked applied.
MarkApplied(a) ==
    /\ at[a] = "binding" /\ Unbound(a) = {}
    /\ SetStatuses(ids[a], "applied")
    /\ confirmed' = confirmed \cup Contributions(a, ids[a])
    /\ Unlock(a)
    /\ UNCHANGED <<decisions, permissions, draft, used, failed, done, approvals,
                   provisioned, standing, edited, crossed>>

-----------------------------------------------------------------------------
(* The editor of the draft, faults and time.                               *)

\* GET and, later, PUT of the whole draft document.
OpenDraft ==
    /\ at[Editor] = "idle" /\ ~ edited
    /\ used < MaxEvents /\ used' = used + 1
    /\ doc' = [doc EXCEPT ![Editor] = draft]
    /\ Goto(Editor, "editing")
    /\ crossed' = (crossed \/ lock # None)
    /\ UNCHANGED <<store, ids, verdict, copy, ran, failed, done, approvals, provisioned,
                   standing, confirmed, edited, stale>>

SaveDraft ==
    /\ at[Editor] = "editing"
    /\ draft' = doc[Editor] \cup {Edit}
    /\ edited' = TRUE
    /\ Leave(Editor)
    /\ UNCHANGED <<deltas, decisions, permissions, lock, used, failed, done, approvals,
                   provisioned, standing, confirmed, stale, crossed>>

\* The process dies, or a database error ends the request; the connection's lock goes with it.
Crash(p) ==
    /\ at[p] # "idle"
    /\ used < MaxEvents /\ used' = used + 1 /\ failed' = TRUE
    /\ Unlock(p)
    /\ UNCHANGED <<deltas, decisions, permissions, draft, history>>

\* expires_at passes: the request is neither pending nor approved any more.
PermissionExpires(p) ==
    /\ permissions[p].status \in {"pending", "approved"}
    /\ permissions' = [permissions EXCEPT ![p] = Closed]
    /\ UNCHANGED <<deltas, decisions, draft, lock, at, memory, used, failed, history>>

-----------------------------------------------------------------------------

ProposalStep(t) ==
    \/ \E content \in Proposals : Generate(t, content)
    \/ LoadStored(t) \/ Replace(t)
    \/ \E content \in Proposals, valid \in SUBSET Deltas : AddDependencies(t, content, valid)
    \/ NoDependencies(t)

ReviewStep(t) ==
    \/ \E S \in Batches, v \in {"approved", "rejected"} : LoadReviewed(t, S, v)
    \/ SaveDecisions(t) \/ MarkReviewed(t)

ApplyStep(a) ==
    \/ FindPermission(a) \/ LockAndLoad(a) \/ LockTaken(a) \/ LoadDeltas(a)
    \/ NothingToDo(a) \/ PassGate(a) \/ WriteDraft(a)
    \/ \E d \in Bindings : Bind(a, d)
    \/ BindRaises(a) \/ Revert(a) \/ RevertRaises(a) \/ MarkExecuted(a) \/ MarkApplied(a)

Next ==
    \/ \E t \in Turns : ProposalStep(t) \/ ReviewStep(t)
    \/ \E p \in Permissions :
          \/ \E S \in Batches : AskPermission(p, S)
          \/ \E approved \in BOOLEAN : DecidePermission(p, approved)
          \/ PermissionExpires(p)
    \/ \E a \in Appliers : ApplyStep(a) \/ \E S \in Batches : StartApply(a, S)
    \/ OpenDraft \/ SaveDraft
    \/ \E p \in Actors : Crash(p)

Spec == Init /\ [][Next]_vars

-----------------------------------------------------------------------------

Entry == {Missing} \cup [status : {"proposed", "approved", "rejected", "applied"}, content : Versions]
Places == {"idle", "proposed", "merged", "listed", "again", "mergedAgain", "reviewed", "marking",
           "finding", "permitted", "locked", "gate", "writing", "binding", "reverting", "settling",
           "editing"}
UnderLock == {"locked", "gate", "writing", "binding", "reverting", "settling"}

\* The tables and the requests keep their types, and exactly the apply that is
\* under way holds the session's lock.
TypeOK ==
    /\ deltas \in [Deltas -> Entry]
    /\ decisions \in SUBSET Contribution
    /\ permissions \in [Permissions -> [status : {"none", "pending", "approved", "closed"},
                                        ids : SUBSET Deltas]]
    /\ draft \in SUBSET (Contribution \cup {Edit})
    /\ lock \in Appliers \cup {None}
    /\ at \in [Actors -> Places]
    /\ ids \in [Actors -> SUBSET Deltas]
    /\ verdict \in [Actors -> {"none", "approved", "rejected"}]
    /\ copy \in [Actors -> [Deltas -> Entry]]
    /\ doc \in [Actors -> SUBSET (Contribution \cup {Edit})]
    /\ ran \in [Actors -> SUBSET Bindings]
    /\ used \in 0 .. MaxEvents /\ failed \in BOOLEAN
    /\ done \in SUBSET Contribution /\ confirmed \in SUBSET Contribution
    /\ standing \in SUBSET Deltas
    /\ approvals \in [Deltas -> Nat] /\ provisioned \in [Deltas -> Nat]
    /\ edited \in BOOLEAN /\ stale \in BOOLEAN /\ crossed \in BOOLEAN
    /\ \A p \in Actors : at[p] \in UnderLock <=> lock = p

\* Whatever proposals, reviews and applies overlap and wherever they crash,
\* nothing reaches the draft or the integrations unless that very content was
\* approved.
OnlyReviewedApplied ==
    done \subseteq decisions

\* What _replace_proposed_changes_preserving_reviewed promises: deltas the user
\* already approved must survive, also when the review or the apply falls
\* between the turn's load of the changes and their replacement.
ReviewedSurvives ==
    \A d \in standing : deltas[d].status \in {"approved", "applied"}

\* Outside that window, where ReviewedSurvives fails, an approval stays until
\* it is used or the delta is proposed anew, whoever crashes; and unless a
\* request dies between running a binding delta and saying so, an approval is
\* used once: no binding delta runs more often than it was approved.
ReviewIsHonoured ==
    ~ stale =>
        /\ ReviewedSurvives
        /\ ~ failed => \A d \in Bindings : provisioned[d] <= approvals[d]

\* Between applies the draft holds what was edited and the document deltas
\* marked applied, no more: failed applies leave nothing behind and no apply
\* undoes another.  It may be otherwise only if an edit overlapped an apply,
\* or a request or a revert failed.
DraftIsTrue ==
    ~ crossed /\ ~ failed /\ lock = None =>
        draft = {c \in confirmed : c[1] \notin Bindings} \cup (IF edited THEN {Edit} ELSE {})
=============================================================================
