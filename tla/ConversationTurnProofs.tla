----------------------- MODULE ConversationTurnProofs -----------------------
(***************************************************************************)
(* What ConversationTurn guarantees for every number of requests, keys,    *)
(* facts and steps.  The invariants of the specification are not inductive *)
(* by themselves: a later step saves what an earlier one loaded.  TurnInv  *)
(* adds that every state a thread holds is backed by the log, except for   *)
(* what the thread itself has learned and not committed yet, and that a    *)
(* thread that has not committed has no log entry.                         *)
(***************************************************************************)
EXTENDS ConversationTurn, TLAPS

-----------------------------------------------------------------------------
(* The inductive invariant *)

\* Keys and facts of a state come from the given keys and requests.
Backed(s, keys, requests) ==
    /\ \A i \in 1 .. Len(s.kept) : s.kept[i] \in keys
    /\ \A f \in Facts : s.facts[f] \in requests \cup {None}

\* What a thread may add to the log by its commit.
OwnKeys(r) == IF req[r].pc = "ready" THEN {req[r].key} ELSE {}
OwnFacts(r) == IF req[r].pc = "ready" THEN {r} ELSE {}

StatesAreBacked ==
    /\ Backed(row, LoggedKeys, Committers)
    /\ \A r \in Requests :
          /\ Backed(req[r].read, LoggedKeys, Committers)
          /\ Backed(req[r].state, LoggedKeys \cup OwnKeys(r), Committers \cup OwnFacts(r))

ProgressMatchesLog ==
    \A r \in Requests :
        /\ req[r].pc \in {"waiting", "loaded", "ready"} => r \notin Committers
        /\ req[r].pc = "committed" => r \in Committers

TurnInv ==
    /\ TypeOK
    /\ TurnLogWellFormed
    /\ AnswersMatchLog
    /\ ProjectedIsCommitted
    /\ StatesAreBacked
    /\ ProgressMatchesLog

-----------------------------------------------------------------------------
(* Lemmas about the save *)

\* A freshly started conversation is a row.
LEMMA FreshIsRow == Fresh \in Rows
BY TurnAssumption DEF Fresh, Rows, Metadata, Stamps

\* Merging two rows gives a row that keeps the existing counter.
LEMMA SavedIsRow ==
    ASSUME NEW e \in Rows, NEW i \in Rows
    PROVE  Saved(e, i) \in Rows /\ Saved(e, i).seq = e.seq
<1>1. MergedFacts(e, i) \in [Facts -> Requests \cup {None}]
  BY DEF MergedFacts, Rows
<1>2. \A f \in Facts : MergedCapture(e, i, f) \in Nat
  BY DEF MergedCapture, Rows, Metadata, Stamps
<1>3. e.step \in Steps /\ i.step \in Steps /\ e.meta \in Metadata /\ i.meta \in Metadata
  BY DEF Rows
<1>4. e.meta.rev \in Nat /\ i.meta.rev \in Nat /\ e.meta.step \in Steps
      /\ i.meta.step \in Steps /\ i.meta.texts \in Requests \cup {None}
  BY <1>3 DEF Metadata
<1>5. Saved(e, i).meta \in Metadata
  BY <1>2, <1>4 DEF Saved, Metadata, Stamps
<1>6. Saved(e, i).facts = MergedFacts(e, i) /\ Saved(e, i).kept = i.kept
      /\ Saved(e, i).seq = e.seq
  BY DEF Saved
<1>. QED  BY <1>1, <1>3, <1>5, <1>6 DEF Saved, Rows

\* A flush mixes columns of rows.
LEMMA FlushedIsRow ==
    ASSUME NEW c \in Rows, NEW d \in Rows, NEW n \in Rows
    PROVE  Flushed(c, d, n) \in Rows /\ Flushed(c, d, n).seq = c.seq
BY DEF Flushed, Rows

\* The keys kept after a turn are its own and some of the ones before.
LEMMA KeepKeyKeeps ==
    ASSUME NEW kept \in Seq(Keys), NEW key \in Keys
    PROVE  /\ KeepKey(kept, key) \in Seq(Keys)
           /\ \A j \in 1 .. Len(KeepKey(kept, key)) :
                 \/ KeepKey(kept, key)[j] = key
                 \/ \E k \in 1 .. Len(kept) : KeepKey(kept, key)[j] = kept[k]
<1>. DEFINE all == Append(kept, key)
<1>1. /\ all \in Seq(Keys) /\ Len(all) = Len(kept) + 1 /\ Len(kept) \in Nat
      /\ \A j \in 1 .. Len(kept) : all[j] = kept[j]
      /\ all[Len(kept) + 1] = key
  OBVIOUS
<1>2. \A j \in 1 .. Len(all) : all[j] = key \/ \E k \in 1 .. Len(kept) : all[j] = kept[k]
  BY <1>1
<1>3. CASE Len(all) <= MaxKept
  <2>1. KeepKey(kept, key) = all
    BY <1>1, <1>3, TurnAssumption DEF KeepKey
  <2>. QED  BY <2>1, <1>1, <1>2
<1>4. CASE Len(all) > MaxKept
  <2>. DEFINE lo == Len(all) - MaxKept + 1
              cut == SubSeq(all, lo, Len(all))
  <2>1. KeepKey(kept, key) = cut
    BY <1>4 DEF KeepKey
  <2>2. lo \in 1 .. Len(all) /\ MaxKept \in Nat
    BY <1>1, <1>4, TurnAssumption
  <2>3. cut \in Seq(Keys) /\ Len(cut) = MaxKept
        /\ \A j \in 1 .. Len(cut) : cut[j] = all[lo + j - 1]
    BY <1>1, <2>2
  <2>4. \A j \in 1 .. Len(cut) : lo + j - 1 \in 1 .. Len(all)
    BY <2>2, <2>3, <1>1
  <2>. HIDE DEF cut, lo, all
  <2>. QED  BY <2>1, <2>3, <2>4, <1>2
<1>. QED  BY <1>1, <1>3, <1>4, TurnAssumption

\* A save brings in nothing that neither state had.
LEMMA SavedIsBacked ==
    ASSUME NEW e, NEW i, NEW ek, NEW ik, NEW er, NEW ir,
           Backed(e, ek, er), Backed(i, ik, ir)
    PROVE  Backed(Saved(e, i), ik, er \cup ir)
BY DEF Backed, Saved, MergedFacts

\* Nor does a flush.
LEMMA FlushedIsBacked ==
    ASSUME NEW c, NEW d, NEW n, NEW keys, NEW requests,
           Backed(c, keys, requests), Backed(n, keys, requests)
    PROVE  Backed(Flushed(c, d, n), keys, requests)
BY DEF Backed, Flushed

\* What is backed stays so when the log grows.
LEMMA BackedGrows ==
    ASSUME NEW s, NEW k1, NEW k2, NEW r1, NEW r2,
           k1 \subseteq k2, r1 \subseteq r2, Backed(s, k1, r1)
    PROVE  Backed(s, k2, r2)
BY DEF Backed

\* A conversation that has just started needs no log.
LEMMA FreshIsBacked ==
    ASSUME NEW keys, NEW requests
    PROVE  Backed(Fresh, keys, requests)
BY DEF Backed, Fresh

-----------------------------------------------------------------------------
(* Steps that leave the log alone *)

\* What one request may hold, as the invariant sees it.
HoldsWell(r, h) ==
    /\ h \in Held
    /\ h.pc \notin {"waiting", "gone"} => h.key \in Keys
    /\ h.answer = "committed" => r \in Committers
    /\ h.answer = "duplicate" => \E e \in log : e.key = h.key /\ e.by # r
    /\ Backed(h.read, LoggedKeys, Committers)
    /\ Backed(h.state,
              LoggedKeys \cup (IF h.pc = "ready" THEN {h.key} ELSE {}),
              Committers \cup (IF h.pc = "ready" THEN {r} ELSE {}))
    /\ h.pc \in {"waiting", "loaded", "ready"} => r \notin Committers
    /\ h.pc = "committed" => r \in Committers

\* The part of the invariant that speaks of a request says it holds well.
LEMMA EachHoldsWell ==
    ASSUME TurnInv, NEW r \in Requests
    PROVE  HoldsWell(r, req[r])
BY DEF HoldsWell, TurnInv, TypeOK, AnswersMatchLog, StatesAreBacked, OwnKeys,
       OwnFacts, ProgressMatchesLog

\* A step that adds nothing to the log, writes a backed row and leaves every
\* request holding well keeps the invariant.
LEMMA LogUnchanged ==
    ASSUME TurnInv, UNCHANGED log,
           row' \in Rows, row'.seq = row.seq, Backed(row', LoggedKeys, Committers),
           clock' \in Nat, sweep' \in BOOLEAN, projected' \subseteq Committers,
           req' \in [Requests -> Held], \A q \in Requests : HoldsWell(q, req'[q])
    PROVE  TurnInv'
<1>1. LoggedKeys' = LoggedKeys /\ Committers' = Committers
  BY DEF LoggedKeys, Committers
<1>2. Committers \subseteq Requests
  BY DEF TurnInv, TypeOK, Committers
<1>3. TypeOK'
  BY <1>2 DEF TurnInv, TypeOK, HoldsWell
<1>4. TurnLogWellFormed'
  BY DEF TurnInv, TurnLogWellFormed
<1>5. AnswersMatchLog'
  BY <1>1 DEF AnswersMatchLog, HoldsWell
<1>6. ProjectedIsCommitted'
  BY <1>1 DEF ProjectedIsCommitted
<1>7. StatesAreBacked'
  BY <1>1 DEF StatesAreBacked, HoldsWell, OwnKeys, OwnFacts
<1>8. ProgressMatchesLog'
  BY <1>1 DEF ProgressMatchesLog, HoldsWell
<1>. QED  BY <1>3, <1>4, <1>5, <1>6, <1>7, <1>8 DEF TurnInv

\* The same for a step of one request that leaves the row alone.
LEMMA OneMoves ==
    ASSUME TurnInv, NEW r \in Requests, NEW h, HoldsWell(r, h),
           req' = [req EXCEPT ![r] = h], UNCHANGED <<row, log>>,
           clock' \in Nat, sweep' \in BOOLEAN, projected' \subseteq Committers
    PROVE  TurnInv'
<1>1. req' \in [Requests -> Held] /\ \A q \in Requests : HoldsWell(q, req'[q])
  BY EachHoldsWell DEF TurnInv, TypeOK, HoldsWell
<1>. QED  BY <1>1, LogUnchanged DEF TurnInv, TypeOK, StatesAreBacked

\* The variables that most steps leave alone keep their types.
LEMMA OthersKeep ==
    ASSUME TurnInv
    PROVE  clock \in Nat /\ sweep \in BOOLEAN /\ projected \subseteq Committers
BY DEF TurnInv, TypeOK, ProjectedIsCommitted

\* The record that Thread builds.
LEMMA ThreadHeld ==
    ASSUME NEW pc \in Places, NEW key \in Keys \cup {None},
           NEW answer \in {"pending", "committed", "duplicate"}, NEW s \in Rows
    PROVE  Thread(pc, key, answer, s) \in Held
BY FreshIsRow DEF Thread, Held

\* A loaded request holds the row.
LEMMA LoadKeeps ==
    ASSUME TurnInv, NEW r \in Requests, NEW k \in Keys, Load(r, k)
    PROVE  TurnInv'
<1>. DEFINE h == Thread("loaded", k, "pending", row)
<1>1. h \in Held
  BY ThreadHeld DEF Places, TurnInv, TypeOK
<1>2. r \notin Committers /\ Backed(row, LoggedKeys, Committers)
  BY DEF Load, TurnInv, ProgressMatchesLog, StatesAreBacked
<1>3. HoldsWell(r, h)
  BY <1>1, <1>2, FreshIsBacked DEF HoldsWell, Thread
<1>4. req' = [req EXCEPT ![r] = h]
  BY DEF Load
<1>. QED  BY <1>3, <1>4, OneMoves, OthersKeep DEF Load

\* The fast path answers "duplicate" only for a key the log has.
LEMMA DropDuplicateKeeps ==
    ASSUME TurnInv, NEW r \in Requests, NEW k \in Keys, DropDuplicate(r, k)
    PROVE  TurnInv'
<1>. DEFINE h == Thread("trailing", k, "duplicate", Fresh)
<1>1. h \in Held
  BY ThreadHeld, FreshIsRow DEF Places
<1>2. k \in LoggedKeys /\ r \notin Committers
  BY DEF DropDuplicate, TurnInv, StatesAreBacked, Backed, ProgressMatchesLog
<1>3. \E e \in log : e.key = k /\ e.by # r
  BY <1>2 DEF LoggedKeys, Committers
<1>4. HoldsWell(r, h)
  BY <1>1, <1>3, FreshIsBacked DEF HoldsWell, Thread
<1>5. req' = [req EXCEPT ![r] = h]
  BY DEF DropDuplicate
<1>. QED  BY <1>4, <1>5, OneMoves, OthersKeep DEF DropDuplicate

\* Interpreting a turn on a row gives a row.
LEMMA InterpretedIsRow ==
    ASSUME TurnInv, NEW r \in Requests, req[r].key \in Keys, NEW to \in Steps,
           NEW n \in Nat, NEW learned
    PROVE  Interpreted(r, to, n, learned) \in Rows
<1>. DEFINE s == req[r].state
            i == Interpreted(r, to, n, learned)
<1>1. s \in Rows /\ clock \in Nat
  BY DEF TurnInv, TypeOK, Held
<1>2. s.meta \in Metadata /\ s.seq \in Nat /\ s.kept \in Seq(Keys)
      /\ s.facts \in [Facts -> Requests \cup {None}]
  BY <1>1 DEF Rows
<1>3. s.meta.rev \in Nat /\ s.meta.captured \in [Facts -> Nat]
  BY <1>2 DEF Metadata, Stamps
<1>4. clock + 1 \in Nat /\ s.meta.rev + n \in Nat
  BY <1>1, <1>3
<1>5. KeepKey(s.kept, req[r].key) \in Seq(Keys)
  BY <1>2, KeepKeyKeeps
<1>6. i.meta \in Metadata
  BY <1>3, <1>4 DEF Interpreted, Metadata, Stamps
<1>7. i.facts \in [Facts -> Requests \cup {None}]
  BY <1>2 DEF Interpreted
<1>8. /\ i.step = to /\ i.kept = KeepKey(s.kept, req[r].key)
      /\ i.idle = FALSE /\ i.seq = s.seq
      /\ i.status \in {"active", "ended"} /\ i.outcome \in {None, "reached"}
  BY DEF Interpreted
<1>9. i = [step |-> i.step, status |-> i.status, outcome |-> i.outcome,
           facts |-> i.facts, meta |-> i.meta, kept |-> i.kept, idle |-> i.idle,
           seq |-> i.seq]
  BY DEF Interpreted
<1>10. i \in Rows
  <2>. HIDE DEF i
  <2>. QED  BY <1>2, <1>5, <1>6, <1>7, <1>8, <1>9 DEF Rows
<1>. QED  BY <1>10

\* What an interpreted turn adds to the snapshot is its own key and fact.
LEMMA InterpretKeeps ==
    ASSUME TurnInv, NEW r \in Requests, Interpret(r)
    PROVE  TurnInv'
<1>1. PICK to \in Steps, n \in 0 .. MaxHandoffs, learned \in Learns(req[r].state.step) :
         /\ req' = [req EXCEPT ![r] = Thread("ready", req[r].key, "pending",
                                             Interpreted(r, to, n, learned))]
         /\ clock' = IF learned.stamped THEN clock + 1 ELSE clock
  BY DEF Interpret
<1>. DEFINE s == req[r].state
            i == Interpreted(r, to, n, learned)
            h == Thread("ready", req[r].key, "pending", i)
<1>2. req[r].pc = "loaded" /\ req[r].key \in Keys /\ s \in Rows /\ clock \in Nat
  BY DEF Interpret, TurnInv, TypeOK, Held
<1>3. n \in Nat
  BY TurnAssumption
<1>4. i \in Rows
  BY <1>2, <1>3, InterpretedIsRow
<1>5. Backed(s, LoggedKeys, Committers) /\ r \notin Committers
  BY <1>2 DEF TurnInv, StatesAreBacked, ProgressMatchesLog, OwnKeys, OwnFacts
<1>6. Backed(i, LoggedKeys \cup {req[r].key}, Committers \cup {r})
  <2>1. i.kept = KeepKey(s.kept, req[r].key)
    BY DEF Interpreted
  <2>2. \A j \in 1 .. Len(i.kept) : i.kept[j] \in LoggedKeys \cup {req[r].key}
    <3>1. s.kept \in Seq(Keys)
      BY <1>2 DEF Rows
    <3>2. \A j \in 1 .. Len(i.kept) :
             i.kept[j] = req[r].key \/ \E k \in 1 .. Len(s.kept) : i.kept[j] = s.kept[k]
      <4>1. \A j \in 1 .. Len(KeepKey(s.kept, req[r].key)) :
               \/ KeepKey(s.kept, req[r].key)[j] = req[r].key
               \/ \E k \in 1 .. Len(s.kept) : KeepKey(s.kept, req[r].key)[j] = s.kept[k]
        BY <1>2, <3>1, KeepKeyKeeps
      <4>. HIDE DEF i, s
      <4>. QED  BY <4>1, <2>1
    <3>3. \A k \in 1 .. Len(s.kept) : s.kept[k] \in LoggedKeys
      BY <1>5 DEF Backed
    <3>. HIDE DEF i, s
    <3>. QED  BY <3>2, <3>3
  <2>3. \A f \in Facts : i.facts[f] \in Committers \cup {r} \cup {None}
    BY <1>5 DEF Interpreted, Backed
  <2>. QED  BY <2>2, <2>3 DEF Backed
<1>7. h \in Held
  BY <1>2, <1>4, ThreadHeld DEF Places
<1>8. HoldsWell(r, h)
  <2>. HIDE DEF i
  <2>. QED  BY <1>2, <1>5, <1>6, <1>7, FreshIsBacked DEF HoldsWell, Thread
<1>9. clock' \in Nat
  BY <1>1, <1>2
<1>. QED  BY <1>1, <1>8, <1>9, OneMoves, OthersKeep DEF Interpret

\* A rolled-back commit answers "duplicate" for a key another turn has logged.
LEMMA CommitDuplicateKeeps ==
    ASSUME TurnInv, NEW r \in Requests, CommitDuplicate(r)
    PROVE  TurnInv'
<1>. DEFINE h == Thread("trailing", req[r].key, "duplicate", Fresh)
<1>1. req[r].key \in Keys /\ r \notin Committers
  BY DEF CommitDuplicate, TurnInv, TypeOK, ProgressMatchesLog
<1>2. \E e \in log : e.key = req[r].key /\ e.by # r
  BY <1>1 DEF CommitDuplicate, LoggedKeys, Committers
<1>3. h \in Held
  BY <1>1, ThreadHeld, FreshIsRow DEF Places
<1>4. HoldsWell(r, h)
  BY <1>1, <1>2, <1>3, FreshIsBacked DEF HoldsWell, Thread
<1>. QED  BY <1>4, OneMoves, OthersKeep DEF CommitDuplicate

\* What a request past its commit or rollback has been promised.
LEMMA Answered ==
    ASSUME TurnInv, NEW r \in Requests,
           req[r].pc \in {"committed", "trailing", "reloaded", "saving"}
    PROVE  /\ req[r].key \in Keys
           /\ req[r].answer \in {"pending", "committed", "duplicate"}
           /\ req[r].answer = "committed" => r \in Committers
           /\ req[r].answer = "duplicate" => \E e \in log : e.key = req[r].key /\ e.by # r
           /\ req[r].state \in Rows /\ Backed(req[r].state, LoggedKeys, Committers)
           /\ req[r].read \in Rows /\ Backed(req[r].read, LoggedKeys, Committers)
<1>1. req[r] \in Held /\ req[r].key \in Keys
  BY DEF TurnInv, TypeOK
<1>2. OwnKeys(r) = {} /\ OwnFacts(r) = {}
  BY DEF OwnKeys, OwnFacts
<1>. QED  BY <1>1, <1>2 DEF Held, TurnInv, AnswersMatchLog, StatesAreBacked

\* Projection, reload and read move a request; the row's keys and facts stay.
LEMMA TrailingReadsKeep ==
    ASSUME TurnInv, NEW r \in Requests,
           RecordRealtimeTurn(r) \/ Reload(r) \/ ReadForSave(r)
    PROVE  TurnInv'
<1>. DEFINE k == req[r].key
            a == req[r].answer
<1>1. CASE RecordRealtimeTurn(r)
  <2>1. Thread("trailing", k, a, Fresh) \in Held
    BY <1>1, Answered, ThreadHeld, FreshIsRow DEF RecordRealtimeTurn, Places
  <2>2. HoldsWell(r, Thread("trailing", k, a, Fresh))
    BY <1>1, <2>1, Answered, FreshIsBacked DEF RecordRealtimeTurn, HoldsWell, Thread
  <2>3. projected' \subseteq Committers
    BY <1>1, OthersKeep DEF RecordRealtimeTurn, TurnInv, ProgressMatchesLog
  <2>4. /\ row' \in Rows /\ row'.seq = row.seq /\ row'.kept = row.kept
        /\ row'.facts = row.facts
    BY <1>1 DEF RecordRealtimeTurn, TurnInv, TypeOK, Rows
  <2>5. Backed(row', LoggedKeys, Committers)
    BY <2>4 DEF TurnInv, StatesAreBacked, Backed
  <2>6. req' \in [Requests -> Held] /\ \A q \in Requests : HoldsWell(q, req'[q])
    BY <1>1, <2>1, <2>2, EachHoldsWell DEF RecordRealtimeTurn, TurnInv, TypeOK
  <2>. QED  BY <1>1, <2>3, <2>4, <2>5, <2>6, LogUnchanged, OthersKeep DEF RecordRealtimeTurn
<1>2. CASE Reload(r)
  <2>1. row \in Rows /\ Backed(row, LoggedKeys, Committers)
    BY DEF TurnInv, TypeOK, StatesAreBacked
  <2>2. Thread("reloaded", k, a, row) \in Held
    BY <1>2, <2>1, Answered, ThreadHeld DEF Reload, Places
  <2>3. HoldsWell(r, Thread("reloaded", k, a, row))
    BY <1>2, <2>1, <2>2, Answered, FreshIsBacked DEF Reload, HoldsWell, Thread
  <2>. QED  BY <1>2, <2>3, OneMoves, OthersKeep DEF Reload
<1>3. CASE ReadForSave(r)
  <2>. DEFINE h == [Thread("saving", k, a, req[r].state) EXCEPT !.read = row]
  <2>1. row \in Rows /\ Backed(row, LoggedKeys, Committers)
    BY DEF TurnInv, TypeOK, StatesAreBacked
  <2>2. h = [pc |-> "saving", key |-> k, answer |-> a, state |-> req[r].state,
             read |-> row]
    BY DEF Thread
  <2>3. h \in Held
    BY <1>3, <2>1, <2>2, Answered DEF ReadForSave, Held, Places
  <2>4. HoldsWell(r, h)
    <3>1. /\ k \in Keys
          /\ a = "committed" => r \in Committers
          /\ a = "duplicate" => \E e \in log : e.key = k /\ e.by # r
          /\ Backed(req[r].state, LoggedKeys, Committers)
      BY <1>3, Answered DEF ReadForSave
    <3>2. /\ h.pc = "saving" /\ h.key = k /\ h.answer = a
          /\ h.state = req[r].state /\ h.read = row
      BY <2>2
    <3>. HIDE DEF h, k, a
    <3>. QED  BY <2>1, <2>3, <3>1, <3>2 DEF HoldsWell
  <2>. QED  BY <1>3, <2>4, OneMoves, OthersKeep DEF ReadForSave
<1>. QED  BY <1>1, <1>2, <1>3

-----------------------------------------------------------------------------
(* Steps that write the row *)

\* The trailing save mixes columns of a backed row and of a backed merge.
LEMMA FlushSaveKeeps ==
    ASSUME TurnInv, NEW r \in Requests, FlushSave(r)
    PROVE  TurnInv'
<1>. DEFINE s == req[r].state
            d == req[r].read
            h == Thread("done", req[r].key, req[r].answer, Fresh)
<1>1. /\ s \in Rows /\ Backed(s, LoggedKeys, Committers)
      /\ d \in Rows /\ Backed(d, LoggedKeys, Committers)
  BY Answered DEF FlushSave
<1>2. row \in Rows /\ Backed(row, LoggedKeys, Committers)
  BY DEF TurnInv, TypeOK, StatesAreBacked
<1>3. /\ Refreshed(s) \in Rows /\ Refreshed(s).kept = s.kept
      /\ Refreshed(s).facts = s.facts
  <2>1. s.meta \in Metadata /\ s.step \in Steps
    BY <1>1 DEF Rows
  <2>2. [s.meta EXCEPT !.step = s.step] \in Metadata
    BY <2>1 DEF Metadata
  <2>3. Refreshed(s) = [s EXCEPT !.meta = [s.meta EXCEPT !.step = s.step]]
    BY <1>1 DEF Refreshed, Rows
  <2>4. \A m \in Metadata : [s EXCEPT !.meta = m] \in Rows
           /\ [s EXCEPT !.meta = m].kept = s.kept /\ [s EXCEPT !.meta = m].facts = s.facts
    BY <1>1 DEF Rows
  <2>. QED  BY <2>2, <2>3, <2>4
<1>4. Backed(Refreshed(s), LoggedKeys, Committers)
  BY <1>1, <1>3 DEF Backed
<1>. DEFINE new == Saved(d, Refreshed(s))
<1>5. new \in Rows /\ Backed(new, LoggedKeys, Committers)
  <2>1. Backed(new, LoggedKeys, Committers \cup Committers)
    BY <1>1, <1>4, SavedIsBacked
  <2>. QED  BY <1>1, <1>3, <2>1, SavedIsRow
<1>6. row' = Flushed(row, d, new) /\ req' = [req EXCEPT ![r] = h]
  BY DEF FlushSave
<1>. HIDE DEF new
<1>7. row' \in Rows /\ row'.seq = row.seq /\ Backed(row', LoggedKeys, Committers)
  BY <1>1, <1>2, <1>5, <1>6, FlushedIsRow, FlushedIsBacked
<1>8. h \in Held
  BY Answered, ThreadHeld, FreshIsRow DEF FlushSave, Places
<1>9. HoldsWell(r, h)
  BY <1>8, Answered, FreshIsBacked DEF FlushSave, HoldsWell, Thread
<1>10. req' \in [Requests -> Held] /\ \A q \in Requests : HoldsWell(q, req'[q])
  BY <1>6, <1>8, <1>9, EachHoldsWell DEF TurnInv, TypeOK
<1>. QED  BY <1>7, <1>10, LogUnchanged, OthersKeep DEF FlushSave

\* A crash leaves a thread that holds nothing.
LEMMA CrashKeeps ==
    ASSUME TurnInv, NEW r \in Requests, Crash(r)
    PROVE  TurnInv'
<1>. DEFINE h == Thread("gone", None, "pending", Fresh)
<1>1. h \in Held
  BY ThreadHeld, FreshIsRow DEF Places
<1>2. HoldsWell(r, h)
  BY <1>1, FreshIsBacked DEF HoldsWell, Thread
<1>. QED  BY <1>2, OneMoves, OthersKeep DEF Crash

\* Idling and the sweep write columns that neither keys nor facts are in.
LEMMA SweepKeeps ==
    ASSUME TurnInv, GoIdle \/ SweepSelect \/ SweepUpdate
    PROVE  TurnInv'
<1>1. row \in Rows /\ Backed(row, LoggedKeys, Committers)
  BY DEF TurnInv, TypeOK, StatesAreBacked
<1>2. req' \in [Requests -> Held] /\ \A q \in Requests : HoldsWell(q, req'[q])
  BY EachHoldsWell DEF TurnInv, TypeOK, GoIdle, SweepSelect, SweepUpdate
<1>3. /\ row' \in Rows /\ row'.seq = row.seq /\ row'.kept = row.kept
      /\ row'.facts = row.facts
  <2>1. CASE GoIdle
    BY <1>1, <2>1 DEF GoIdle, Rows
  <2>2. CASE SweepSelect
    BY <1>1, <2>2 DEF SweepSelect
  <2>3. CASE SweepUpdate
    <3>. DEFINE one == [row EXCEPT !.status = "ended"]
                two == [one EXCEPT !.outcome = "abandoned"]
    <3>1. one \in Rows /\ one.seq = row.seq /\ one.kept = row.kept /\ one.facts = row.facts
      BY <1>1 DEF Rows
    <3>2. two \in Rows /\ two.seq = row.seq /\ two.kept = row.kept /\ two.facts = row.facts
      <4>. HIDE DEF one
      <4>. QED  BY <3>1 DEF Rows
    <3>3. row' = [two EXCEPT !.idle = FALSE]
      BY <2>3 DEF SweepUpdate
    <3>. HIDE DEF two
    <3>. QED  BY <3>2, <3>3 DEF Rows
  <2>. QED  BY <2>1, <2>2, <2>3
<1>4. Backed(row', LoggedKeys, Committers)
  BY <1>1, <1>3 DEF Backed
<1>. QED  BY <1>2, <1>3, <1>4, LogUnchanged, OthersKeep DEF GoIdle, SweepSelect, SweepUpdate

\* The row a commit writes: the merge of the locked row and the turn's state,
\* with the next number.
LEMMA CommittedRow ==
    ASSUME TurnInv, NEW r \in Requests, Commit(r)
    PROVE  /\ row' \in Rows /\ row'.seq = row.seq + 1
           /\ row'.facts = Saved(row, req[r].state).facts
           /\ row'.meta = Saved(row, req[r].state).meta
           /\ row'.kept = Saved(row, req[r].state).kept
<1>. DEFINE m == Saved(row, req[r].state)
<1>1. row \in Rows /\ req[r].state \in Rows
  BY DEF TurnInv, TypeOK, Held
<1>2. m \in Rows
  BY <1>1, SavedIsRow
<1>3. row.seq \in Nat /\ row.seq + 1 \in Nat
  BY <1>1 DEF Rows
<1>4. row' = [m EXCEPT !.seq = row.seq + 1]
  BY DEF Commit
<1>5. \A n \in Nat : LET x == [m EXCEPT !.seq = n]
                     IN  x \in Rows /\ x.seq = n /\ x.facts = m.facts /\ x.meta = m.meta
                         /\ x.kept = m.kept
  <2>. HIDE DEF m
  <2>. QED  BY <1>2 DEF Rows
<1>. HIDE DEF m
<1>. QED  BY <1>3, <1>4, <1>5 DEF m

\* A commit logs its turn once, under the next number, and the row it writes
\* is backed by the log with that turn in it.
LEMMA CommitKeeps ==
    ASSUME TurnInv, NEW r \in Requests, Commit(r)
    PROVE  TurnInv'
<1>. DEFINE s == req[r].state
            k == req[r].key
            h == Thread("committed", k, "committed", Fresh)
            e == [seq |-> row.seq + 1, key |-> k, by |-> r]
<1>1. /\ req[r].pc = "ready" /\ k \in Keys /\ k \notin LoggedKeys /\ r \notin Committers
      /\ s \in Rows /\ row \in Rows /\ row.seq \in Nat
  BY DEF Commit, TurnInv, TypeOK, Held, ProgressMatchesLog, Rows
<1>2. /\ log' = log \cup {e} /\ req' = [req EXCEPT ![r] = h]
      /\ UNCHANGED <<clock, sweep, projected>>
  BY DEF Commit
<1>3. LoggedKeys' = LoggedKeys \cup {k} /\ Committers' = Committers \cup {r}
  <2>1. e.key = k /\ e.by = r
    OBVIOUS
  <2>. HIDE DEF e, k
  <2>. QED  BY <1>2, <2>1 DEF LoggedKeys, Committers
<1>4. h \in Held /\ h.pc = "committed" /\ h.key = k /\ h.answer = "committed"
      /\ h.state = Fresh /\ h.read = Fresh
  BY <1>1, ThreadHeld, FreshIsRow DEF Places, Thread
<1>5. row' \in Rows /\ row'.seq = row.seq + 1
  BY CommittedRow
<1>6. Backed(row', LoggedKeys', Committers')
  <2>1. Backed(s, LoggedKeys \cup {k}, Committers \cup {r})
    BY <1>1 DEF TurnInv, StatesAreBacked, OwnKeys, OwnFacts
  <2>2. Backed(row, LoggedKeys, Committers)
    BY DEF TurnInv, StatesAreBacked
  <2>3. Backed(Saved(row, s), LoggedKeys \cup {k}, Committers \cup (Committers \cup {r}))
    BY <2>1, <2>2, SavedIsBacked
  <2>4. row'.kept = Saved(row, s).kept /\ row'.facts = Saved(row, s).facts
    BY CommittedRow
  <2>. QED  BY <1>3, <2>3, <2>4 DEF Backed
<1>. HIDE DEF h
<1>7. \A q \in Requests : q # r => req'[q] = req[q]
  BY <1>2 DEF TurnInv, TypeOK
<1>8. req'[r] = h
  BY <1>2 DEF TurnInv, TypeOK
<1>9. TypeOK'
  <2>1. e \in [seq : Nat, key : Keys, by : Requests]
    BY <1>1
  <2>2. req' \in [Requests -> Held]
    BY <1>2, <1>4 DEF TurnInv, TypeOK
  <2>3. \A q \in Requests : req'[q].pc \notin {"waiting", "gone"} => req'[q].key \in Keys
    BY <1>1, <1>4, <1>7, <1>8 DEF TurnInv, TypeOK
  <2>. QED  BY <1>2, <1>5, <2>1, <2>2, <2>3 DEF TurnInv, TypeOK
<1>10. TurnLogWellFormed'
  <2>1. e.seq = row.seq + 1 /\ e.key = k
    OBVIOUS
  <2>2. \A x \in log : x.seq \in 1 .. row.seq /\ x.seq # row.seq + 1 /\ x.key # k
    BY <1>1 DEF TurnInv, TurnLogWellFormed, LoggedKeys
  <2>. HIDE DEF e
  <2>3. \A x \in log' : x.seq \in 1 .. row'.seq
    BY <1>1, <1>2, <1>5, <2>1, <2>2
  <2>4. \A n \in 1 .. row'.seq : \E x \in log' : x.seq = n
    <3>1. \A n \in 1 .. row'.seq : n = row.seq + 1 \/ n \in 1 .. row.seq
      BY <1>1, <1>5
    <3>. QED  BY <1>2, <2>1, <3>1 DEF TurnInv, TurnLogWellFormed
  <2>5. \A x, y \in log' : x.seq = y.seq \/ x.key = y.key => x = y
    BY <1>2, <2>1, <2>2 DEF TurnInv, TurnLogWellFormed
  <2>. QED  BY <2>3, <2>4, <2>5 DEF TurnLogWellFormed
<1>11. AnswersMatchLog'
  BY <1>2, <1>3, <1>4, <1>7, <1>8 DEF TurnInv, AnswersMatchLog
<1>12. ProjectedIsCommitted'
  BY <1>2, <1>3 DEF TurnInv, ProjectedIsCommitted
<1>13. StatesAreBacked'
  <2>1. ASSUME NEW q \in Requests
        PROVE  /\ Backed(req'[q].read, LoggedKeys', Committers')
               /\ Backed(req'[q].state, LoggedKeys' \cup OwnKeys(q)',
                         Committers' \cup OwnFacts(q)')
    <3>1. CASE q = r
      BY <1>4, <1>8, <3>1, FreshIsBacked
    <3>2. CASE q # r
      <4>1. req'[q] = req[q] /\ OwnKeys(q)' = OwnKeys(q) /\ OwnFacts(q)' = OwnFacts(q)
        BY <1>7, <3>2 DEF OwnKeys, OwnFacts
      <4>2. Backed(req[q].read, LoggedKeys, Committers)
            /\ Backed(req[q].state, LoggedKeys \cup OwnKeys(q), Committers \cup OwnFacts(q))
        BY DEF TurnInv, StatesAreBacked
      <4>. QED  BY <1>3, <4>1, <4>2, BackedGrows
    <3>. QED  BY <3>1, <3>2
  <2>. QED  BY <1>6, <2>1 DEF StatesAreBacked
<1>14. ProgressMatchesLog'
  BY <1>3, <1>4, <1>7, <1>8 DEF TurnInv, ProgressMatchesLog
<1>. QED  BY <1>9, <1>10, <1>11, <1>12, <1>13, <1>14 DEF TurnInv

-----------------------------------------------------------------------------
(* Theorems *)

\* Every step keeps the inductive invariant.
LEMMA StepKeeps ==
    ASSUME TurnInv, [Next]_vars
    PROVE  TurnInv'
<1>1. CASE UNCHANGED vars
  BY <1>1 DEF vars, TurnInv, TypeOK, TurnLogWellFormed, AnswersMatchLog,
     ProjectedIsCommitted, StatesAreBacked, ProgressMatchesLog, LoggedKeys, Committers,
     OwnKeys, OwnFacts
<1>2. CASE \E r \in Requests : ProcessTurn(r)
  BY <1>2, LoadKeeps, DropDuplicateKeeps, InterpretKeeps, CommitKeeps,
     CommitDuplicateKeeps, TrailingReadsKeep, FlushSaveKeeps, CrashKeeps DEF ProcessTurn
<1>3. CASE GoIdle \/ SweepSelect \/ SweepUpdate
  BY <1>3, SweepKeeps
<1>. QED  BY <1>1, <1>2, <1>3 DEF Next

\* Every reachable state satisfies the inductive invariant.
THEOREM TurnInvariance == Spec => []TurnInv
<1>1. Init => TurnInv
  <2>. SUFFICES ASSUME Init PROVE TurnInv
    OBVIOUS
  <2>1. Waiting \in Held /\ Waiting.pc = "waiting" /\ Waiting.answer = "pending"
        /\ Waiting.state = Fresh /\ Waiting.read = Fresh
    BY ThreadHeld, FreshIsRow DEF Waiting, Thread, Places
  <2>2. \A r \in Requests : req[r] = Waiting
    BY DEF Init
  <2>3. LoggedKeys = {} /\ Committers = {} /\ row.seq = 0
    BY DEF Init, LoggedKeys, Committers, Fresh
  <2>4. TypeOK
    BY <2>1, <2>2, FreshIsRow DEF Init, TypeOK
  <2>5. TurnLogWellFormed /\ ProjectedIsCommitted
    BY <2>3 DEF Init, TurnLogWellFormed, ProjectedIsCommitted
  <2>6. AnswersMatchLog /\ ProgressMatchesLog
    BY <2>1, <2>2, <2>3 DEF AnswersMatchLog, ProgressMatchesLog
  <2>7. StatesAreBacked
    BY <2>1, <2>2, FreshIsBacked DEF Init, StatesAreBacked
  <2>. QED  BY <2>4, <2>5, <2>6, <2>7 DEF TurnInv
<1>2. TurnInv /\ [Next]_vars => TurnInv'
  BY StepKeeps
<1>. QED  BY <1>1, <1>2, PTL DEF Spec

\* The row, the log and the threads always have their types.
THEOREM TurnTypes == Spec => []TypeOK
<1>1. TurnInv => TypeOK
  BY DEF TurnInv
<1>. QED  BY <1>1, TurnInvariance, PTL

\* The turn log is a gap-free total order of turns, each dedupe key once, for
\* any number of concurrent deliveries, trailing saves and sweeps.
THEOREM LogTotalOrder == Spec => []TurnLogWellFormed
<1>1. TurnInv => TurnLogWellFormed
  BY DEF TurnInv
<1>. QED  BY <1>1, TurnInvariance, PTL

\* "committed" is answered only by the request in the log, and "duplicate" only
\* when another delivery of the key is in the log.
THEOREM NoTurnDropped == Spec => []AnswersMatchLog
<1>1. TurnInv => AnswersMatchLog
  BY DEF TurnInv
<1>. QED  BY <1>1, TurnInvariance, PTL

\* No fact in the row, and nothing on the realtime bridge, comes from a turn
\* that did not commit.
THEOREM OnlyCommittedSeen == Spec => []OnlyCommittedShows
<1>1. TurnInv => OnlyCommittedShows
  BY DEF TurnInv, StatesAreBacked, Backed, OnlyCommittedFacts, OnlyCommittedShows
<1>. QED  BY <1>1, TurnInvariance, PTL

\* A commit made from a stale snapshot erases no fact, takes no capture time
\* back and does not rewind the cursor revision.
THEOREM CommitsNeverRegress == Spec => CommitNeverRegresses
<1>. DEFINE Kept == row'.seq # row.seq =>
                      /\ \A f \in Facts : row.facts[f] # None =>
                            /\ row'.facts[f] # None
                            /\ row'.meta.captured[f] >= row.meta.captured[f]
                      /\ row'.meta.rev >= row.meta.rev
<1>1. ASSUME TurnInv, [Next]_vars
      PROVE  Kept
  <2>1. ASSUME NEW r \in Requests, Commit(r)
        PROVE  Kept
    <3>. DEFINE s == req[r].state
    <3>1. row \in Rows /\ s \in Rows
      BY <1>1 DEF TurnInv, TypeOK, Held
    <3>2. /\ row'.facts = MergedFacts(row, s)
          /\ row'.meta.rev = (IF KeepsCursor(row, s) THEN row.meta.rev ELSE s.meta.rev)
          /\ row'.meta.captured = [f \in Facts |-> MergedCapture(row, s, f)]
      <4>1. row'.facts = Saved(row, s).facts /\ row'.meta = Saved(row, s).meta
        BY <1>1, <2>1, CommittedRow
      <4>2. /\ Saved(row, s).facts = MergedFacts(row, s)
            /\ Saved(row, s).meta.rev =
                  (IF KeepsCursor(row, s) THEN row.meta.rev ELSE s.meta.rev)
            /\ Saved(row, s).meta.captured = [f \in Facts |-> MergedCapture(row, s, f)]
        BY DEF Saved
      <4>. QED  BY <4>1, <4>2
    <3>3. /\ row.meta.rev \in Nat /\ s.meta.rev \in Nat
          /\ \A f \in Facts : row.meta.captured[f] \in Nat /\ s.meta.captured[f] \in Nat
      <4>1. row.meta \in Metadata /\ s.meta \in Metadata
        BY <3>1 DEF Rows
      <4>. QED  BY <4>1 DEF Metadata, Stamps
    <3>4. row'.meta.rev >= row.meta.rev
      BY <3>2, <3>3 DEF KeepsCursor
    <3>5. ASSUME NEW f \in Facts, row.facts[f] # None
          PROVE  row'.facts[f] # None
      BY <3>2, <3>5 DEF MergedFacts, TakesIncoming
    <3>6. ASSUME NEW f \in Facts, row.facts[f] # None
          PROVE  row'.meta.captured[f] >= row.meta.captured[f]
      <4>. DEFINE new == s.meta.captured[f]
                  old == row.meta.captured[f]
      <4>1. new \in Nat /\ old \in Nat /\ row'.meta.captured[f] = MergedCapture(row, s, f)
        BY <3>2, <3>3
      <4>2. CASE TakesIncoming(row, s, f)
        <5>1. s.facts[f] # None /\ (new = 0 \/ old = 0 \/ new >= old)
          BY <3>6, <4>2 DEF TakesIncoming, AtLeastAsNew
        <5>2. MergedCapture(row, s, f) = IF new = 0 THEN old ELSE new
          BY <3>6, <4>2, <5>1 DEF MergedCapture
        <5>. HIDE DEF new, old
        <5>3. MergedCapture(row, s, f) >= old
          BY <4>1, <5>1, <5>2
        <5>. QED  BY <4>1, <5>3 DEF old
      <4>3. CASE ~ TakesIncoming(row, s, f)
        <5>1. MergedCapture(row, s, f) = IF old = 0 /\ s.facts[f] # None THEN new ELSE old
          BY <3>6, <4>3 DEF MergedCapture
        <5>. HIDE DEF new, old
        <5>2. MergedCapture(row, s, f) >= old
          BY <4>1, <5>1
        <5>. QED  BY <4>1, <5>2 DEF old
      <4>. QED  BY <4>2, <4>3
    <3>. QED  BY <3>4, <3>5, <3>6
  <2>2. ASSUME NEW r \in Requests, FlushSave(r) \/ RecordRealtimeTurn(r)
        PROVE  row'.seq = row.seq
    <3>1. CASE FlushSave(r)
      BY <3>1 DEF FlushSave, Flushed
    <3>2. CASE RecordRealtimeTurn(r)
      BY <1>1, <3>2 DEF RecordRealtimeTurn, TurnInv, TypeOK, Rows
    <3>. QED  BY <2>2, <3>1, <3>2
  <2>3. CASE GoIdle \/ SweepUpdate
    <3>1. row'.seq = row.seq
      BY <1>1, <2>3 DEF GoIdle, SweepUpdate, TurnInv, TypeOK, Rows
    <3>. QED  BY <3>1
  <2>4. CASE UNCHANGED row
    BY <2>4
  <2>. HIDE DEF Kept
  <2>5. Kept \/ UNCHANGED row
        \/ \E r \in Requests : FlushSave(r) \/ RecordRealtimeTurn(r)
    BY <1>1, <2>1, <2>3 DEF Next, ProcessTurn, Load, DropDuplicate, Interpret,
       CommitDuplicate, Reload, ReadForSave, Crash, SweepSelect, vars
  <2>. QED  BY <2>2, <2>4, <2>5 DEF Kept
<1>2. TurnInv /\ [Next]_vars => [Kept]_vars
  BY <1>1
<1>. QED  BY <1>2, TurnInvariance, PTL DEF Spec, CommitNeverRegresses

-----------------------------------------------------------------------------
(* The turns implement one serial log.                                     *)

\* A request has no answer before its turn has been to the log.
Unanswered == \A r \in Requests : req[r].pc \in {"waiting", "loaded", "ready"} => req[r].answer = "pending"

\* What the deliveries have been told.
Answers == [r \in Requests |-> AnswerOf(req[r])]

LEMMA OneAnswers ==
    ASSUME TypeOK, Unanswered, NEW r \in Requests, NEW h, req' = [req EXCEPT ![r] = h],
           h.pc \in {"waiting", "loaded", "ready"} => h.answer = "pending"
    PROVE  Unanswered' /\ Answers' = [Answers EXCEPT ![r] = AnswerOf(h)]
<1>1. req'[r] = h /\ \A q \in Requests \ {r} : req'[q] = req[q]
  BY DEF TypeOK
<1>2. Unanswered'
  BY <1>1 DEF Unanswered
<1>3. Answers' = [q \in Requests |-> AnswerOf(req'[q])]
  BY DEF Answers, AnswerOf
<1>4. \A q \in Requests : AnswerOf(req'[q]) = IF q = r THEN AnswerOf(h) ELSE AnswerOf(req[q])
  BY <1>1
<1>5. [q \in Requests |-> AnswerOf(req'[q])] = [Answers EXCEPT ![r] = AnswerOf(h)]
  BY <1>4 DEF Answers
<1> QED
  BY <1>2, <1>3, <1>5

\* A request goes on without being told anything new.
LEMMA NothingTold ==
    ASSUME TypeOK, Unanswered, NEW r \in Requests, NEW h, req' = [req EXCEPT ![r] = h],
           h.pc \in {"waiting", "loaded", "ready"} => h.answer = "pending",
           AnswerOf(h) = AnswerOf(req[r])
    PROVE  Unanswered' /\ Answers' = Answers
<1>1. Answers' = [Answers EXCEPT ![r] = AnswerOf(h)] /\ Unanswered'
  BY OneAnswers
<1>2. Answers[r] = AnswerOf(h) /\ Answers = [q \in Requests |-> Answers[q]]
  BY DEF Answers
<1> QED
  BY <1>1, <1>2

LEMMA CounterStays ==
    ASSUME TurnInv, \/ GoIdle \/ SweepUpdate
                    \/ \E r \in Requests : RecordRealtimeTurn(r) \/ FlushSave(r)
    PROVE  row'.seq = row.seq
<1>1. row \in Rows
  BY DEF TurnInv, TypeOK
<1>2. CASE GoIdle
  BY <1>1, <1>2 DEF GoIdle, Rows
<1>3. CASE SweepUpdate
  BY <1>1, <1>3 DEF SweepUpdate, Rows
<1>4. ASSUME NEW r \in Requests, RecordRealtimeTurn(r) PROVE row'.seq = row.seq
  BY <1>1, <1>4 DEF RecordRealtimeTurn, Rows
<1>5. ASSUME NEW r \in Requests, FlushSave(r) PROVE row'.seq = row.seq
  BY <1>5 DEF FlushSave, Flushed
<1> QED
  BY <1>2, <1>3, <1>4, <1>5

\* A step of one request leaves the log and what it was told alone, or writes
\* the log's next entry, or finds its key there, or is its last.
LEMMA RequestStep ==
    ASSUME TurnInv, Unanswered, NEW r \in Requests, ProcessTurn(r)
    PROVE  /\ Unanswered'
           /\ \/ Answers' = Answers /\ log' = log /\ row'.seq = row.seq
              \/ Serial!Die(r)
              \/ \E k \in Keys : Serial!Append(r, k) \/ Serial!Drop(r, k)
<1>1. /\ TypeOK /\ req \in [Requests -> Held] /\ Answers[r] = AnswerOf(req[r])
      /\ Answers = [q \in Requests |-> AnswerOf(req[q])]
  BY DEF TurnInv, TypeOK, Answers
<1>2. CASE Interpret(r) \/ RecordRealtimeTurn(r) \/ Reload(r) \/ ReadForSave(r) \/ FlushSave(r)
  <2>1. log' = log /\ row'.seq = row.seq
    <3>1. CASE RecordRealtimeTurn(r) \/ FlushSave(r)
      BY <3>1, CounterStays DEF RecordRealtimeTurn, FlushSave
    <3> QED
      BY <1>2, <3>1 DEF Interpret, Reload, ReadForSave
  <2>2. PICK h : /\ req' = [req EXCEPT ![r] = h] /\ AnswerOf(h) = AnswerOf(req[r])
                 /\ h.pc \in {"waiting", "loaded", "ready"} => h.answer = "pending"
    <3>1. CASE Interpret(r)
      BY <3>1 DEF Interpret, Thread, AnswerOf, Unanswered
    <3>2. CASE RecordRealtimeTurn(r)
      <4> DEFINE h == Thread("trailing", req[r].key, req[r].answer, Fresh)
      <4>1. h.pc = "trailing" /\ h.answer = req[r].answer /\ h.key = req[r].key
        BY DEF Thread
      <4>2. AnswerOf(h) = AnswerOf(req[r])
        BY <3>2, <4>1 DEF RecordRealtimeTurn, AnswerOf
      <4> QED
        BY <3>2, <4>1, <4>2 DEF RecordRealtimeTurn
    <3>3. CASE Reload(r) \/ FlushSave(r)
      BY <3>3 DEF Reload, FlushSave, Thread, AnswerOf
    <3>4. CASE ReadForSave(r)
      <4> DEFINE h == [Thread("saving", req[r].key, req[r].answer, req[r].state) EXCEPT !.read = row]
      <4>1. h.pc = "saving" /\ h.answer = req[r].answer /\ h.key = req[r].key
        BY DEF Thread
      <4>2. AnswerOf(h) = AnswerOf(req[r])
        BY <3>4, <4>1 DEF ReadForSave, AnswerOf
      <4> QED
        BY <3>4, <4>1, <4>2 DEF ReadForSave
    <3> QED
      BY <1>2, <3>1, <3>2, <3>3, <3>4
  <2> QED
    BY <1>1, <2>1, <2>2, NothingTold
<1>3. ASSUME NEW k \in Keys, Load(r, k) PROVE Unanswered' /\ Answers' = Answers /\ log' = log /\ row' = row
  <2> DEFINE h == Thread("loaded", k, "pending", row)
  <2>1. AnswerOf(h) = AnswerOf(req[r]) /\ h.answer = "pending"
    BY <1>3 DEF Load, Unanswered, Thread, AnswerOf
  <2> QED
    BY <1>1, <1>3, <2>1, NothingTold DEF Load
<1>4. ASSUME NEW k \in Keys, DropDuplicate(r, k) \/ (CommitDuplicate(r) /\ k = req[r].key)
      PROVE  Unanswered' /\ Serial!Drop(r, k)
  <2> DEFINE h == Thread("trailing", k, "duplicate", Fresh)
  <2>1. req' = [req EXCEPT ![r] = h] /\ log' = log /\ row' = row
    BY <1>4 DEF DropDuplicate, CommitDuplicate
  <2>2. k \in LoggedKeys
    BY <1>4 DEF DropDuplicate, CommitDuplicate, TurnInv, StatesAreBacked, Backed
  <2>3. AnswerOf(req[r]).answer = "pending"
    BY <1>4 DEF DropDuplicate, CommitDuplicate, Unanswered, AnswerOf
  <2>4. AnswerOf(h) = [answer |-> "duplicate", key |-> k] /\ h.pc = "trailing"
    BY DEF AnswerOf, Thread
  <2>5. Unanswered' /\ Answers' = [Answers EXCEPT ![r] = AnswerOf(h)]
    BY <1>1, <2>1, <2>4, OneAnswers
  <2> QED
    BY <1>1, <2>1, <2>2, <2>3, <2>4, <2>5 DEF Serial!Drop, Serial!Logged, Serial!Told, LoggedKeys, Answers
<1>5. ASSUME Commit(r) PROVE Unanswered' /\ Serial!Append(r, req[r].key)
  <2> DEFINE h == Thread("committed", req[r].key, "committed", Fresh)
  <2>1. /\ req' = [req EXCEPT ![r] = h] /\ req[r].key \notin LoggedKeys /\ req[r].pc = "ready"
        /\ log' = log \cup {[seq |-> row.seq + 1, key |-> req[r].key, by |-> r]} /\ row'.seq = row.seq + 1
    BY <1>5, CommittedRow DEF Commit
  <2>2. AnswerOf(req[r]).answer = "pending"
    BY <2>1 DEF Unanswered, AnswerOf
  <2>3. AnswerOf(h) = [answer |-> "committed", key |-> req[r].key] /\ h.pc = "committed"
    BY DEF AnswerOf, Thread
  <2>4. Unanswered' /\ Answers' = [Answers EXCEPT ![r] = AnswerOf(h)]
    BY <1>1, <2>1, <2>3, OneAnswers
  <2> QED
    BY <1>1, <2>1, <2>2, <2>3, <2>4 DEF Serial!Append, Serial!Logged, Serial!Told, LoggedKeys, Answers
<1>6. ASSUME Crash(r) PROVE Unanswered' /\ Serial!Die(r)
  <2> DEFINE h == Thread("gone", None, "pending", Fresh)
  <2>1. AnswerOf(h) = [answer |-> "gone", key |-> None] /\ h.pc = "gone"
    BY DEF AnswerOf, Thread
  <2>2. Unanswered' /\ Answers' = [Answers EXCEPT ![r] = AnswerOf(h)]
    BY <1>1, <1>6, <2>1, OneAnswers DEF Crash
  <2> QED
    BY <1>6, <2>1, <2>2 DEF Crash, Serial!Die, Serial!Gone, Serial!Told, Answers
<1>7. req[r].pc = "ready" => req[r].key \in Keys
  BY DEF TurnInv, TypeOK
<1>8. CASE CommitDuplicate(r)
  BY <1>4, <1>7, <1>8 DEF CommitDuplicate
<1>9. CASE Commit(r)
  BY <1>5, <1>7, <1>9 DEF Commit
<1> QED
  BY <1>2, <1>3, <1>4, <1>6, <1>8, <1>9 DEF ProcessTurn

\* A step of the log tells its request something new, or nothing happens.
LEMMA LogStep ==
    ASSUME NEW r \in Requests,
           Serial!Die(r) \/ \E k \in Keys : Serial!Append(r, k) \/ Serial!Drop(r, k)
    PROVE  Serial!Next \/ UNCHANGED <<log, row.seq, Answers>>
<1>1. CASE Answers'[r] # Answers[r]
  BY <1>1 DEF Serial!Next, Answers
<1>2. CASE Answers'[r] = Answers[r]
  <2>1. CASE Serial!Die(r)
    <3>1. Answers' = [Answers EXCEPT ![r] = Serial!Gone]
      BY <2>1 DEF Serial!Die, Answers
    <3>2. Answers' = Answers
      BY <1>2, <3>1 DEF Answers
    <3> QED
      BY <2>1, <3>2 DEF Serial!Die
  <2>2. ASSUME NEW k \in Keys, Serial!Append(r, k) \/ Serial!Drop(r, k) PROVE FALSE
    <3>1. /\ Answers[r].answer = "pending"
          /\ \E t \in {Serial!Told("committed", k), Serial!Told("duplicate", k), Serial!Gone} :
                Answers' = [Answers EXCEPT ![r] = t]
      BY <2>2 DEF Serial!Append, Serial!Drop, Answers
    <3>2. Answers'[r].answer # "pending"
      BY <3>1 DEF Answers, Serial!Told, Serial!Gone
    <3> QED
      BY <1>2, <3>1, <3>2
  <2> QED
    BY <2>1, <2>2
<1> QED
  BY <1>1, <1>2

\* Turns of a conversation, whatever of them overlap, fail or are delivered
\* again, are one serial log, and each delivery is told what the log says.
THEOREM TurnsRefineSerialLog == Spec => SerialLogHolds
<1>1. Init => Serial!Init /\ Unanswered
  BY DEF Init, Serial!Init, Serial!Told, Unanswered, Waiting, Thread, AnswerOf, Fresh
<1>2. TurnInv /\ Unanswered /\ [Next]_vars =>
         Unanswered' /\ [Serial!Next]_<<log, row.seq, [r \in Requests |-> AnswerOf(req[r])]>>
  <2> SUFFICES ASSUME TurnInv, Unanswered, [Next]_vars
               PROVE  /\ Unanswered'
                      /\ Serial!Next \/ UNCHANGED <<log, row.seq, Answers>>
    BY DEF Answers
  <2>1. ASSUME NEW r \in Requests, ProcessTurn(r)
        PROVE  /\ Unanswered'
               /\ Serial!Next \/ UNCHANGED <<log, row.seq, Answers>>
    <3>1. CASE Answers' = Answers /\ log' = log /\ row'.seq = row.seq
      BY <2>1, <3>1, RequestStep
    <3> QED
      BY <2>1, <3>1, RequestStep, LogStep
  <2>2. CASE GoIdle \/ SweepSelect \/ SweepUpdate \/ UNCHANGED vars
    <3>1. req' = req /\ log' = log /\ row'.seq = row.seq
      BY <2>2, CounterStays DEF GoIdle, SweepSelect, SweepUpdate, vars
    <3> QED
      BY <3>1 DEF Unanswered, Answers
  <2> QED
    BY <2>1, <2>2 DEF Next
<1> QED
  BY <1>1, <1>2, TurnInvariance, PTL DEF Spec, SerialLogHolds, Serial!Spec

=============================================================================
