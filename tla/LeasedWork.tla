----------------------------- MODULE LeasedWork -----------------------------
(***************************************************************************)
(* What a table of work promises for each of its items, when its workers   *)
(* take items under a lease: an item is submitted once, one worker at a    *)
(* time holds it, only the holder gives it back or ends it, and how it     *)
(* ended stands.  How far this reaches depends on the table: who else may  *)
(* end an item, and what the table has no protection against.  Once that   *)
(* has happened to an item, all that is promised is that it is not lost.   *)
(***************************************************************************)
CONSTANTS
    Items, Workers, None,
    Endings,       \* how an item may end
    Withdrawable   \* phases in which others may end it

VARIABLE work      \* of each item: its phase, who holds it, whether it is undisturbed

Phases == {"absent", "waiting", "held"} \cup Endings

Piece(phase, holder, calm) == [phase |-> phase, holder |-> holder, calm |-> calm]

Init == work = [i \in Items |-> Piece("absent", None, TRUE)]

Becomes(i, piece) == work'[i] = piece /\ work' = [work EXCEPT ![i] = piece]

Submit(i) ==
    /\ work[i] = Piece("absent", None, TRUE)
    /\ Becomes(i, Piece("waiting", None, TRUE))

Take(i, w) ==
    /\ work[i] = Piece("waiting", None, TRUE)
    /\ Becomes(i, Piece("held", w, TRUE))

\* The holder gives the item back, or ends it.
GiveBack(i, w) ==
    /\ work[i] = Piece("held", w, TRUE)
    /\ \E phase \in {"waiting"} \cup Endings : Becomes(i, Piece(phase, None, TRUE))

\* Somebody else ends it.
Withdraw(i) ==
    /\ work[i].calm /\ work[i].phase \in Withdrawable
    /\ \E ending \in Endings : Becomes(i, Piece(ending, None, TRUE))

\* It happens: a lease runs out under its holder, or a stale copy is saved.
Disturb(i) ==
    \E phase \in Phases, w \in Workers \cup {None} :
        /\ phase = "absent" => work[i].phase = "absent"
        /\ Becomes(i, Piece(phase, w, FALSE))

Next ==
    \E i \in Items :
        \/ Submit(i) \/ Withdraw(i) \/ Disturb(i)
        \/ \E w \in Workers : Take(i, w) \/ GiveBack(i, w)

Spec == Init /\ [][Next]_work

=============================================================================
