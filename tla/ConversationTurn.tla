-------------------------- MODULE ConversationTurn --------------------------
(***************************************************************************)
(* How concurrent turns of one conversation change its row and its turn    *)
(* log: process_turn and _commit_turn of ruhu/kernel.py, the merging save  *)
(* and the turn log of ruhu/stores.py, and the idle sweep of               *)
(* ruhu/conversation_sweep.py.                                             *)
(*                                                                         *)
(* A request loads the row without a lock, interprets the turn on that     *)
(* snapshot, and commits log entry, trace and merged row in one transaction*)
(* that holds the row lock.  It then loads the row again, refreshes the    *)
(* step metadata and saves the whole state in a session of its own.  That  *)
(* trailing save reads the row without a lock, merges, and flushes only the*)
(* columns whose value differs from what it read, so it is two actions.    *)
(***************************************************************************)
EXTENDS Integers, Sequences

CONSTANTS
    Requests,     \* deliveries of turns, each handled by a thread of its own
    Keys,         \* dedupe keys; a redelivered turn carries the key it had
    Facts,        \* fact names
    Steps,        \* step ids of the agent document
    Final,        \* the steps that complete the conversation or hand it off
    ScenarioOf,   \* the scenario each step belongs to
    StartStep,    \* the step a conversation starts in
    None,         \* no value
    MaxKept,      \* how many processed_dedupe_keys a state keeps (100)
    MaxHandoffs   \* BOUND: scenario changes in one turn that are told apart

ASSUME TurnAssumption ==
    /\ Final \subseteq Steps
    /\ StartStep \in Steps
    /\ None \notin Requests \cup Keys
    /\ MaxKept \in Nat \ {0}
    /\ MaxHandoffs \in Nat

VARIABLES
    row,        \* the ConversationRecord
    log,        \* the conversation_turns rows: seq, dedupe_key, and the request
    req,        \* what each request's thread holds
    clock,      \* datetime.now() as far as captures tell it apart
    sweep,      \* does the sweep hold this conversation's id as stale?
    projected   \* requests whose turn the realtime bridge has recorded

vars == <<row, log, req, clock, sweep, projected>>

-----------------------------------------------------------------------------
(* States *)

\* The columns of a conversation; meta is metadata_json with the keys that
\* matter here: cursor revision, current step, capture time of each fact
\* (0: none) and who last wrote the recent user texts, which stands for the
\* keys an incoming save always overwrites.  idle says whether updated_at is
\* older than the idle timeout.
Fresh ==
    [step |-> StartStep, status |-> "active", outcome |-> None,
     facts |-> [f \in Facts |-> None],
     meta |-> [rev |-> 0, step |-> StartStep,
               captured |-> [f \in Facts |-> 0], texts |-> None],
     kept |-> <<>>, idle |-> FALSE, seq |-> 0]

\* What a request's thread holds: where it is, the turn's key, the result it
\* has so far, its copy of the conversation and the record a save has read.
Thread(pc, key, answer, state) ==
    [pc |-> pc, key |-> key, answer |-> answer, state |-> state, read |-> Fresh]

Waiting == Thread("waiting", None, "pending", Fresh)

LoggedKeys == {e.key : e \in log}
Committers == {e.by : e \in log}

-----------------------------------------------------------------------------
(* The merging save *)

\* _incoming_fact_is_at_least_as_new, 0 being a capture time that is missing.
AtLeastAsNew(incoming, existing) ==
    incoming = 0 \/ existing = 0 \/ incoming >= existing

\* Does the incoming state's value of f replace the existing one?
TakesIncoming(existing, incoming, f) ==
    /\ incoming.facts[f] # None
    /\ \/ existing.facts[f] = None
       \/ AtLeastAsNew(incoming.meta.captured[f], existing.meta.captured[f])

\* MUTANT of MergedFacts: the save writes the caller's facts as they are.
IncomingFacts(existing, incoming) == incoming.facts

MergedFacts(existing, incoming) ==
    [f \in Facts |-> IF TakesIncoming(existing, incoming, f)
                     THEN incoming.facts[f] ELSE existing.facts[f]]

\* The capture time goes with the value that won, or is the other state's
\* when both have the fact and the winner has none.
MergedCapture(existing, incoming, f) ==
    LET wins == TakesIncoming(existing, incoming, f)
        winner == IF wins THEN incoming ELSE existing
        loser == IF wins THEN existing ELSE incoming
    IN  IF winner.facts[f] = None THEN 0
        ELSE IF winner.meta.captured[f] = 0 /\ loser.facts[f] # None
             THEN loser.meta.captured[f]
             ELSE winner.meta.captured[f]

\* _metadata_cursor_revision: the existing cursor is ahead and stays.
KeepsCursor(existing, incoming) == existing.meta.rev > incoming.meta.rev

\* What save writes over the row existing when the caller passes incoming.
Saved(existing, incoming) ==
    LET keeps == KeepsCursor(existing, incoming)
    IN  [step |-> IF keeps THEN existing.step ELSE incoming.step,
         status |-> incoming.status,
         outcome |-> incoming.outcome,
         facts |-> MergedFacts(existing, incoming),
         meta |-> [rev |-> IF keeps THEN existing.meta.rev ELSE incoming.meta.rev,
                   step |-> IF keeps THEN existing.meta.step ELSE incoming.meta.step,
                   captured |-> [f \in Facts |-> MergedCapture(existing, incoming, f)],
                   texts |-> incoming.meta.texts],
         kept |-> incoming.kept,
         idle |-> incoming.idle,
         seq |-> existing.seq]

\* A flush updates the columns whose new value differs from the one read.
Flushed(current, read, new) ==
    [step |-> IF new.step = read.step THEN current.step ELSE new.step,
     status |-> IF new.status = read.status THEN current.status ELSE new.status,
     outcome |-> IF new.outcome = read.outcome THEN current.outcome ELSE new.outcome,
     facts |-> IF new.facts = read.facts THEN current.facts ELSE new.facts,
     meta |-> IF new.meta = read.meta THEN current.meta ELSE new.meta,
     kept |-> IF new.kept = read.kept THEN current.kept ELSE new.kept,
     idle |-> IF new.idle = read.idle THEN current.idle ELSE new.idle,
     seq |-> current.seq]

-----------------------------------------------------------------------------
(* One turn *)

\* The last MaxKept processed keys.
KeepKey(kept, key) ==
    LET all == Append(kept, key)
    IN  IF Len(all) > MaxKept THEN SubSeq(all, Len(all) - MaxKept + 1, Len(all))
        ELSE all

\* Can the routing loop lead from one step to another with n scenario changes?
\* None stays within a scenario, one leaves it.  A final step ends the loop
\* before any transition.
Leads(from, to, n) ==
    /\ from \in Final => to = from /\ n = 0
    /\ n = 0 => ScenarioOf[to] = ScenarioOf[from]
    /\ n = 1 => ScenarioOf[to] # ScenarioOf[from]

\* What a turn may learn: nothing, a fact the capture pipeline stamps with
\* the time, or a fact a tool's output writes without a stamp.  A final step
\* runs no tool.
Learns(from) ==
    {[fact |-> None, stamped |-> FALSE]}
    \cup [fact : Facts, stamped : {TRUE}]
    \cup (IF from \in Final THEN {} ELSE [fact : Facts, stamped : {FALSE}])

\* The state _process_step_turn hands to _commit_turn.
Interpreted(r, to, n, learned) ==
    LET s == req[r].state
    IN  [step |-> to,
         status |-> IF to \in Final THEN "ended" ELSE "active",
         outcome |-> IF to \in Final THEN "reached" ELSE None,
         facts |-> [f \in Facts |-> IF f = learned.fact THEN r ELSE s.facts[f]],
         meta |-> [rev |-> s.meta.rev + n, step |-> to,
                   captured |-> [f \in Facts |->
                       IF f = learned.fact /\ learned.stamped THEN clock + 1
                       ELSE s.meta.captured[f]],
                   texts |-> r],
         kept |-> KeepKey(s.kept, req[r].key),
         idle |-> FALSE,
         seq |-> s.seq]

\* The trailing save's incoming state: the step metadata follows the step.
Refreshed(s) == [s EXCEPT !.meta.step = s.step]

-----------------------------------------------------------------------------
(* Actions *)

Init ==
    /\ row = Fresh
    /\ log = {}
    /\ req = [r \in Requests |-> Waiting]
    /\ clock = 0
    /\ sweep = FALSE
    /\ projected = {}

\* MUTANT of Load: the request forgets which key it carries.
LoadWithoutKey(r, k) ==
    /\ req[r].pc = "waiting"
    /\ req' = [req EXCEPT ![r] = Thread("loaded", None, "pending", row)]
    /\ UNCHANGED <<row, log, clock, sweep, projected>>

\* MUTANT of Load: the key is marked as processed on arrival, before the commit.
LoadMarksKey(r, k) ==
    /\ req[r].pc = "waiting"
    /\ ~ \E i \in 1 .. Len(row.kept) : row.kept[i] = k
    /\ row' = [row EXCEPT !.kept = KeepKey(row.kept, k)]
    /\ req' = [req EXCEPT ![r] = Thread("loaded", k, "pending", row)]
    /\ UNCHANGED <<log, clock, sweep, projected>>

\* process_turn loads the conversation; its key is not among the kept ones.
Load(r, k) ==
    /\ req[r].pc = "waiting"
    /\ ~ \E i \in 1 .. Len(row.kept) : row.kept[i] = k
    /\ req' = [req EXCEPT ![r] = Thread("loaded", k, "pending", row)]
    /\ UNCHANGED <<row, log, clock, sweep, projected>>

\* The fast path: the loaded state already lists the key.
DropDuplicate(r, k) ==
    /\ req[r].pc = "waiting"
    /\ \E i \in 1 .. Len(row.kept) : row.kept[i] = k
    /\ req' = [req EXCEPT ![r] = Thread("trailing", k, "duplicate", Fresh)]
    /\ UNCHANGED <<row, log, clock, sweep, projected>>

\* _process_step_turn up to the commit, on the thread's own snapshot.
Interpret(r) ==
    /\ req[r].pc = "loaded"
    /\ \E to \in Steps, n \in 0 .. MaxHandoffs, learned \in Learns(req[r].state.step) :
          /\ Leads(req[r].state.step, to, n)
          /\ req' = [req EXCEPT ![r] = Thread("ready", req[r].key, "pending",
                                                 Interpreted(r, to, n, learned))]
          /\ clock' = IF learned.stamped THEN clock + 1 ELSE clock
    /\ UNCHANGED <<row, log, sweep, projected>>

\* _commit_turn: under the row lock, the next seq, the log entry, the trace
\* and the merged row.  Of the entry, the model keeps seq, key and request.
Commit(r) ==
    /\ req[r].pc = "ready"
    /\ req[r].key \notin LoggedKeys
    /\ log' = log \cup {[seq |-> row.seq + 1, key |-> req[r].key, by |-> r]}
    /\ row' = [Saved(row, req[r].state) EXCEPT !.seq = row.seq + 1]
    /\ req' = [req EXCEPT ![r] = Thread("committed", req[r].key, "committed", Fresh)]
    /\ UNCHANGED <<clock, sweep, projected>>

\* MUTANT of CommitDuplicate: the save survives the failing append.
CommitDuplicateSaves(r) ==
    /\ req[r].pc = "ready"
    /\ req[r].key \in LoggedKeys
    /\ row' = Saved(row, req[r].state)
    /\ req' = [req EXCEPT ![r] = Thread("trailing", req[r].key, "duplicate", Fresh)]
    /\ UNCHANGED <<log, clock, sweep, projected>>

\* UNIQUE (conversation_id, dedupe_key) fails and all of it rolls back.
CommitDuplicate(r) ==
    /\ req[r].pc = "ready"
    /\ req[r].key \in LoggedKeys
    /\ req' = [req EXCEPT ![r] = Thread("trailing", req[r].key, "duplicate", Fresh)]
    /\ UNCHANGED <<row, log, clock, sweep, projected>>

\* _record_realtime_turn after the commit: appending the events touches the
\* row's updated_at; an exception is swallowed.
RecordRealtimeTurn(r) ==
    /\ req[r].pc = "committed"
    /\ \/ projected' = projected \cup {r} /\ row' = [row EXCEPT !.idle = FALSE]
       \/ UNCHANGED <<projected, row>>
    /\ req' = [req EXCEPT ![r] = Thread("trailing", req[r].key, req[r].answer, Fresh)]
    /\ UNCHANGED <<log, clock, sweep>>

\* process_turn loads the conversation again.
Reload(r) ==
    /\ req[r].pc = "trailing"
    /\ req' = [req EXCEPT ![r] = Thread("reloaded", req[r].key, req[r].answer, row)]
    /\ UNCHANGED <<row, log, clock, sweep, projected>>

\* The trailing save reads the record it will merge into, without a lock.
ReadForSave(r) ==
    /\ req[r].pc = "reloaded"
    /\ req' = [req EXCEPT ![r] = 
           [Thread("saving", req[r].key, req[r].answer, req[r].state) EXCEPT !.read = row]]
    /\ UNCHANGED <<row, log, clock, sweep, projected>>

\* Its commit flushes the columns the merge changed, and process_turn returns.
FlushSave(r) ==
    /\ req[r].pc = "saving"
    /\ row' = Flushed(row, req[r].read, Saved(req[r].read, Refreshed(req[r].state)))
    /\ req' = [req EXCEPT ![r] = Thread("done", req[r].key, req[r].answer, Fresh)]
    /\ UNCHANGED <<log, clock, sweep, projected>>

\* The process dies, or an exception leaves process_turn.
Crash(r) ==
    /\ req[r].pc \notin {"waiting", "done", "gone"}
    /\ req' = [req EXCEPT ![r] = Thread("gone", None, "pending", Fresh)]
    /\ UNCHANGED <<row, log, clock, sweep, projected>>

\* Nobody has spoken for the idle timeout; no request takes that long.
GoIdle ==
    /\ \A r \in Requests : req[r].pc \in {"waiting", "done", "gone"}
    /\ ~ row.idle
    /\ row' = [row EXCEPT !.idle = TRUE]
    /\ UNCHANGED <<log, req, clock, sweep, projected>>

\* The sweep's select, without a lock.
SweepSelect ==
    /\ ~ sweep
    /\ row.status = "active" /\ row.outcome = None /\ row.idle
    /\ sweep' = TRUE
    /\ UNCHANGED <<row, log, req, clock, projected>>

\* Its update, by id alone.
SweepUpdate ==
    /\ sweep
    /\ row' = [row EXCEPT !.status = "ended", !.outcome = "abandoned", !.idle = FALSE]
    /\ sweep' = FALSE
    /\ UNCHANGED <<log, req, clock, projected>>

ProcessTurn(r) ==
    \/ \E k \in Keys : Load(r, k) \/ DropDuplicate(r, k)
    \/ Interpret(r)
    \/ Commit(r)
    \/ CommitDuplicate(r)
    \/ RecordRealtimeTurn(r)
    \/ Reload(r)
    \/ ReadForSave(r)
    \/ FlushSave(r)
    \/ Crash(r)

Next ==
    \/ \E r \in Requests : ProcessTurn(r)
    \/ GoIdle
    \/ SweepSelect
    \/ SweepUpdate

Spec == Init /\ [][Next]_vars

-----------------------------------------------------------------------------
(* Properties *)

Stamps == Nat
Metadata == [rev : Nat, step : Steps, captured : [Facts -> Stamps],
             texts : Requests \cup {None}]
Rows == [step : Steps, status : {"active", "ended"},
         outcome : {None, "reached", "abandoned"},
         facts : [Facts -> Requests \cup {None}], meta : Metadata,
         kept : Seq(Keys), idle : BOOLEAN, seq : Nat]
Places == {"waiting", "loaded", "ready", "committed", "trailing", "reloaded",
           "saving", "done", "gone"}
Held == [pc : Places, key : Keys \cup {None},
         answer : {"pending", "committed", "duplicate"}, state : Rows, read : Rows]

\* The conversation row, the log and what the request threads hold have their
\* types; a live thread past the load has a key.
TypeOK ==
    /\ row \in Rows
    /\ log \subseteq [seq : Nat, key : Keys, by : Requests]
    /\ req \in [Requests -> Held]
    /\ \A r \in Requests : req[r].pc \notin {"waiting", "gone"} => req[r].key \in Keys
    /\ clock \in Nat
    /\ sweep \in BOOLEAN
    /\ projected \subseteq Requests

\* The turn log is a gap-free total order of turns, each key once, and the
\* row's counter is its length (SQLAlchemyTurnLogStore.append), although the
\* trailing saves and the sweep write the same row.
TurnLogWellFormed ==
    /\ \A e \in log : e.seq \in 1 .. row.seq
    /\ \A n \in 1 .. row.seq : \E e \in log : e.seq = n
    /\ \A e1, e2 \in log : e1.seq = e2.seq \/ e1.key = e2.key => e1 = e2

\* No turn is dropped and none is answered twice: a caller told "committed"
\* has its own log entry, and a caller told "duplicate" is told so only when
\* another delivery of the key is in the log, although the key list of the
\* fast path is overwritten by stale saves and cut to MaxKept.
AnswersMatchLog ==
    \A r \in Requests :
        /\ req[r].answer = "committed" => r \in Committers
        /\ req[r].answer = "duplicate" =>
               \E e \in log : e.key = req[r].key /\ e.by # r

\* The turns of a conversation, interpreted concurrently on snapshots, are one
\* growing log with each key once, and every delivery is told what the log says
\* of its turn (SerialLog), although the counter is a column of the row that
\* stale saves write and the fast path looks at a list that they overwrite.
AnswerOf(t) ==
    IF t.pc = "gone" THEN [answer |-> "gone", key |-> None]
    ELSE [answer |-> t.answer, key |-> IF t.answer = "pending" THEN None ELSE t.key]
Serial == INSTANCE SerialLog WITH
    length <- row.seq, told <- [r \in Requests |-> AnswerOf(req[r])]
SerialLogHolds == Serial!Spec

\* The row holds only facts of committed turns: what a turn that rolled back
\* or crashed had learned never reaches it (_commit_turn's one transaction).
OnlyCommittedFacts ==
    \A f \in Facts : row.facts[f] \in Committers \cup {None}

\* The realtime bridge hears only of committed turns (_commit_turn).
ProjectedIsCommitted == projected \subseteq Committers

\* Nothing a turn does shows before it commits, and nothing of a turn that
\* never does: neither in the row's facts nor on the realtime bridge.
OnlyCommittedShows == OnlyCommittedFacts /\ ProjectedIsCommitted

\* A commit from a stale snapshot erases no fact, takes no fact's capture time
\* back and never rewinds the cursor revision, whatever was committed since
\* the snapshot was loaded (_merge_conversation_fact_payload_for_save).
CommitNeverRegresses ==
    [][row'.seq # row.seq =>
         /\ \A f \in Facts : row.facts[f] # None =>
               /\ row'.facts[f] # None
               /\ row'.meta.captured[f] >= row.meta.captured[f]
         /\ row'.meta.rev >= row.meta.rev]_vars

\* What stores.py says of the merge: saving a stale snapshot must not remove
\* an already committed fact, here of every save and not of commits only.
FactsNeverErased ==
    [][\A f \in Facts : row.facts[f] # None => row'.facts[f] # None]_vars

=============================================================================
