----------------------------- MODULE SerialLog -----------------------------
(***************************************************************************)
(* What the kernel promises the deliveries of one conversation's turns,    *)
(* however they overlap and wherever they die: the turns form one log,     *)
(* which only grows and has each dedupe key once, and a delivery is told   *)
(* "committed" when its own turn is the entry, "duplicate" when another's  *)
(* is.                                                                     *)
(***************************************************************************)
EXTENDS Naturals

CONSTANTS Requests, Keys, None

VARIABLES
    log,      \* the turns: seq, key, and the request
    length,   \* how many they are
    told      \* what each delivery was told, and of which key

Told(answer, key) == [answer |-> answer, key |-> key]

\* The delivery died and nothing more is heard of it.
Gone == Told("gone", None)

Init ==
    /\ log = {} /\ length = 0
    /\ told = [r \in Requests |-> Told("pending", None)]

Logged(k) == \E e \in log : e.key = k

\* The turn is the next in the log; its delivery is told so, or dies before.
Append(r, k) ==
    /\ told[r].answer = "pending" /\ ~ Logged(k)
    /\ length' = length + 1
    /\ log' = log \cup {[seq |-> length + 1, key |-> k, by |-> r]}
    /\ \/ told' = [told EXCEPT ![r] = Told("committed", k)]
       \/ told' = [told EXCEPT ![r] = Gone]

\* Another delivery's turn has the key.
Drop(r, k) ==
    /\ told[r].answer = "pending" /\ Logged(k)
    /\ told' = [told EXCEPT ![r] = Told("duplicate", k)]
    /\ UNCHANGED <<log, length>>

Die(r) ==
    /\ told' = [told EXCEPT ![r] = Gone]
    /\ UNCHANGED <<log, length>>

\* Each step tells one delivery something.
Next ==
    \E r \in Requests :
        /\ told'[r] # told[r]
        /\ Die(r) \/ \E k \in Keys : Append(r, k) \/ Drop(r, k)

Spec == Init /\ [][Next]_<<log, length, told>>

=============================================================================
