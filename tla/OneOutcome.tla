----------------------------- MODULE OneOutcome -----------------------------
(***************************************************************************)
(* What commit_final_transcript promises the deliveries of one transcript: *)
(* one of them settles which accepted event the transcript is, and every   *)
(* other one that gets an answer gets that event.                          *)
(***************************************************************************)
CONSTANTS Deliveries, Events, None

VARIABLES
    outcome,   \* the accepted event, once it is settled
    told       \* the event each delivery's caller was given

Init ==
    /\ outcome = None
    /\ told = [d \in Deliveries |-> None]

\* A delivery settles the outcome and is told so.
Settle(d, e) ==
    /\ outcome = None
    /\ outcome' = e
    /\ told' = [told EXCEPT ![d] = e]

\* A later delivery is told the settled outcome.
Replay(d) ==
    /\ outcome # None
    /\ told[d] = None
    /\ told' = [told EXCEPT ![d] = outcome]
    /\ UNCHANGED outcome

Next ==
    \E d \in Deliveries : Replay(d) \/ \E e \in Events : Settle(d, e)

Spec == Init /\ [][Next]_<<outcome, told>>

=============================================================================
